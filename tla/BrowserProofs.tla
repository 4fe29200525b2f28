--------------------------- MODULE BrowserProofs ----------------------------
(***************************************************************************)
(* What pages and backend requests do to the state they share, whatever the *)
(* drafts, amounts, sessions and bounds: deployments, the table of          *)
(* executions, and money through the browser.                               *)
(*                                                                         *)
(* A session, a read or a click carries copies of shared state through      *)
(* several awaits.  The invariants say of each copy what is still true of   *)
(* it.  Of a deployment: a slot table that was read is a prefix of the      *)
(* stored one, a context is no longer than the one it replaces, a row's     *)
(* automation exists, a status is no older than the cache allows.  Of the   *)
(* table: the newest read asks for what the page shows, and what it lacks   *)
(* is still to be told.  Of a click that nothing crossed: the ledger is     *)
(* what it was, or what the transactions mined so far make of it.           *)
(***************************************************************************)
EXTENDS DeployFlow, LiveHistory, Funding, FiniteSetTheorems, SequenceTheorems, WellFoundedInduction, TLAPS

(* Deployments.                                                             *)

USE DeployAssumption DEF NoId

NamesOf(r) == {Graph[r].names[i] : i \in DOMAIN Graph[r].names}

Prefix(t, u) == \A i \in DOMAIN t : i \in DOMAIN u /\ u[i] = t[i]

\* The slots are those of a table.
SlotsIn(slots, t) == \A p \in slots : p[2] \in DOMAIN t /\ t[p[2]] = p[1]

\* The slots exist in a context.
SlotsFit(slots, ctx) == \A p \in slots : p[2] \in DOMAIN ctx

Named(r, t) == \A n \in NamesOf(r) : \E i \in DOMAIN t : t[i] = n

Allocating == {"alloc", "store", "context", "setContext", "send"}
Allocated == {"context", "setContext", "send"}

\* What holds of a session's copies: the automations it names exist; the table
\* it has read or written holds its names and, if no table was lost, is a prefix
\* of the stored one; if no context was lost, its slots exist when it sends.
CopiesOK(q, ids, t, rc, c, sl) ==
    /\ q.found.id \in ids \cup {NoId}
    /\ q.pc = "link" => q.cand \in ids
    /\ q.pc = "confirm" => q.id \in ids
    /\ q.kind = "update" /\ q.pc \in Allocating => q.found.id # NoId
    /\ q.pc \in Allocated => Named(q.row, q.tbl)
    /\ ~rc /\ q.pc \in Allocated \cup {"store"} => Prefix(q.tbl, t)
    /\ ~sl /\ q.pc = "send" => SlotsFit(SlotsOf(q.tbl, q.row), c)

\* No table was written since the session began, or it has none yet.
FreshOK(q) == q.pc \in {"look", "link", "alloc"} => q.tbl = <<>>

\* The check before a deletion.
RemovalOK(q, qt) ==
    q.pc = "remove" /\ q.found.id # NoId /\ ~q.found.ownerOnly =>
        q.status = "unread" \/ qt[q.found.id] + CacheTTL > q.at

SessionOK(q, ids, t, rc, c, sl, qt) ==
    q \in SessionState /\ CopiesOK(q, ids, t, rc, c, sl) /\ FreshOK(q) /\ RemovalOK(q, qt)

SessionsOK ==
    \A s \in Session : SessionOK(sessions[s], Ids, table, raced, context, stale, quiet)

RowsOK == OneRowPerAutomation /\ \A r \in Row : rows[r].id \in Ids \cup {NoId}

\* No table is lost: then slots keep their names.  No context is lost: then it
\* holds the slots of every automation.
SlotsOK ==
    /\ ~raced => \A i \in Ids : SlotsIn(automations[i].slots, table)
    /\ ~stale => \A i \in Ids : SlotsFit(automations[i].slots, context)

\* An automation that is not active is quiet now.
QuietNow == \A i \in Ids : ~automations[i].active => quiet[i] = now

\* What the cache does not report as active was quiet when it was read, or later.
CacheOK ==
    cache # NoCache =>
        /\ cache.until <= now + CacheTTL
        /\ DOMAIN cache.statuses \subseteq Ids
        /\ \A i \in Ids :
              (i \in DOMAIN cache.statuses => cache.statuses[i] = "inactive") =>
                  cache.until <= quiet[i] + CacheTTL

DeployInv ==
    TypeOK /\ RowsOK /\ SlotsOK /\ QuietNow /\ CacheOK /\ SessionsOK

-----------------------------------------------------------------------------
(* Least and greatest members, and places in a set.                        *)

\* A set of naturals has a least member.
LEMMA LeastOfSet ==
    ASSUME NEW T, T \subseteq Nat, T # {}
    PROVE  \E x \in T : \A y \in T : x <= y
<1>1. PICK R : R = OpToRel(<, Nat) /\ IsWellFoundedOn(R, Nat)
  BY NatLessThanWellFounded
<1>2. PICK x \in T : \A y \in T : ~(<<y, x>> \in R)
  BY <1>1, WFMin
<1>3. \A y \in Nat, z \in Nat : y < z => <<y, z>> \in R
  BY <1>1 DEF OpToRel
<1>4. \A y \in T : x \in Nat /\ y \in Nat /\ ~(y < x)
  BY <1>2, <1>3
<1>5. \A y \in T : x <= y
  BY <1>4
<1> QED BY <1>2, <1>5

\* A bounded one has a greatest, which Greatest picks.
LEMMA GreatestPicked ==
    ASSUME NEW S, S \subseteq Nat, S # {}, NEW m \in Nat, \A x \in S : x <= m
    PROVE  Greatest(S) \in S /\ \A y \in S : y <= Greatest(S)
<1>1. PICK T : T = {m - x : x \in S}
  OBVIOUS
<1>2. T \subseteq Nat /\ T # {}
  <2>1. \A x \in S : x \in Nat /\ x <= m /\ m - x \in T
    BY <1>1
  <2>2. \A e \in T : e \in Nat
    BY <1>1, <2>1
  <2> QED BY <2>1, <2>2
<1>3. PICK d \in T : \A e \in T : d <= e
  BY <1>2, LeastOfSet
<1>4. PICK x \in S : d = m - x
  BY <1>1, <1>3
<1>5. ASSUME NEW y \in S PROVE y <= x
  <2>1. m - y \in T
    BY <1>1
  <2>2. m - x <= m - y
    BY <1>3, <1>4, <2>1
  <2> QED BY <2>2
<1>6. \E z \in S : \A y \in S : y <= z
  BY <1>4, <1>5
<1>7. PICK z : z = Greatest(S)
  OBVIOUS
<1>8. z \in S /\ \A y \in S : y <= z
  BY <1>6, <1>7, Zenon DEF Greatest
<1> QED BY <1>7, <1>8

\* The places of a finite set of naturals are numbered without a gap.
LEMMA PlacesNumbered ==
    ASSUME NEW S, S \subseteq Nat, IsFiniteSet(S)
    PROVE  /\ Cardinality(S) \in Nat
           /\ \A i \in S : PlaceIn(S, i) \in 1 .. Cardinality(S)
           /\ \A i, j \in S : PlaceIn(S, i) = PlaceIn(S, j) => i = j
           /\ \A k \in 1 .. Cardinality(S) : \E i \in S : PlaceIn(S, i) = k
<1>1. Cardinality(S) \in Nat
  BY FS_CardinalityType
<1>2. ASSUME NEW i \in S PROVE PlaceIn(S, i) \in 1 .. Cardinality(S)
  <2>1. PICK U : U = {j \in S : j <= i}
    OBVIOUS
  <2>2. U \in SUBSET S /\ i \in U
    BY <2>1
  <2>3. IsFiniteSet(U) /\ Cardinality(U) <= Cardinality(S)
    BY <2>2, FS_Subset
  <2>4. Cardinality(U) \in Nat /\ Cardinality(U) # 0
    BY <2>2, <2>3, FS_CardinalityType, FS_EmptySet
  <2> QED BY <1>1, <2>1, <2>3, <2>4 DEF PlaceIn
<1>3. ASSUME NEW i \in S, NEW j \in S, i < j PROVE PlaceIn(S, i) # PlaceIn(S, j)
  <2>1. PICK U, V : U = {k \in S : k <= i} /\ V = {k \in S : k <= j}
    OBVIOUS
  <2>2. \A k \in S : k \in Nat /\ (k <= i => k <= j)
    BY <1>3
  <2>3. i \in Nat /\ j \in Nat /\ ~(j <= i) /\ j <= j
    BY <1>3
  <2>4. V \in SUBSET S /\ j \in V /\ j \notin U
    BY <2>1, <2>3
  <2>5. U \in SUBSET V
    BY <2>1, <2>2
  <2>6. IsFiniteSet(V)
    BY <2>4, FS_Subset
  <2>7. Cardinality(V) = Cardinality(U) => V = U
    BY <2>5, <2>6, FS_Subset
  <2> QED BY <2>1, <2>4, <2>7 DEF PlaceIn
<1>4. ASSUME NEW i \in S, NEW j \in S, PlaceIn(S, i) = PlaceIn(S, j) PROVE i = j
  <2>1. i \in Nat /\ j \in Nat
    OBVIOUS
  <2>2. ~(i < j) /\ ~(j < i)
    BY <1>3, <1>4
  <2> QED BY <2>1, <2>2
<1>5. PICK f : f = [i \in S |-> PlaceIn(S, i)]
  OBVIOUS
<1>6. PICK T : T = 1 .. Cardinality(S)
  OBVIOUS
<1>7. f \in Injection(S, T)
  BY <1>2, <1>4, <1>5, <1>6 DEF Injection, IsInjective
<1>8. IsFiniteSet(T) /\ Cardinality(T) = Cardinality(S)
  BY <1>1, <1>6, FS_Interval
<1>9. f \in Surjection(S, T)
  BY <1>7, <1>8, FS_Injection
<1>10. \A k \in T : \E i \in S : f[i] = k
  BY <1>9 DEF Surjection
<1>11. ASSUME NEW k \in 1 .. Cardinality(S) PROVE \E i \in S : PlaceIn(S, i) = k
  BY <1>5, <1>6, <1>10
<1> QED BY <1>1, <1>2, <1>4, <1>11

-----------------------------------------------------------------------------
(* The operators of the encoding.                                          *)

\* allocateSlots gives every name a slot and moves none.
LEMMA NamesGiven ==
    ASSUME NEW tbl \in Seq(Name), NEW names \in Seq(Name)
    PROVE  /\ WithNames(tbl, names) \in Seq(Name)
           /\ Prefix(tbl, WithNames(tbl, names))
           /\ \A i \in DOMAIN names : \E j \in DOMAIN WithNames(tbl, names) :
                  WithNames(tbl, names)[j] = names[i]
<1>1. PICK new : new = Unslotted(tbl, names)
  OBVIOUS
<1>2. PICK ext : ext = [k \in 1 .. Cardinality(new) |->
                           names[CHOOSE i \in new : PlaceIn(new, i) = k]]
  OBVIOUS
<1>3. /\ Len(names) \in Nat /\ DOMAIN names = 1 .. Len(names)
      /\ \A i \in DOMAIN names : names[i] \in Name
  BY LenProperties, ElementOfSeq
<1>4. new \subseteq DOMAIN names
  BY <1>1 DEF Unslotted
<1>5. new \in SUBSET (1 .. Len(names)) /\ new \subseteq Nat
  BY <1>3, <1>4
<1>6. IsFiniteSet(1 .. Len(names))
  BY <1>3, FS_Interval
<1>7. IsFiniteSet(new)
  BY <1>5, <1>6, FS_Subset
<1>8. /\ Cardinality(new) \in Nat
      /\ \A i \in new : PlaceIn(new, i) \in 1 .. Cardinality(new)
      /\ \A i, j \in new : PlaceIn(new, i) = PlaceIn(new, j) => i = j
      /\ \A k \in 1 .. Cardinality(new) : \E i \in new : PlaceIn(new, i) = k
  BY <1>5, <1>7, PlacesNumbered
<1>9. ASSUME NEW k \in 1 .. Cardinality(new)
      PROVE  /\ (CHOOSE i \in new : PlaceIn(new, i) = k) \in new
             /\ PlaceIn(new, CHOOSE i \in new : PlaceIn(new, i) = k) = k
  BY <1>8, Zenon
<1>10. \A k \in 1 .. Cardinality(new) : ext[k] \in Name
  BY <1>2, <1>3, <1>4, <1>9
<1>11. ext \in [1 .. Cardinality(new) -> Name]
  BY <1>2, <1>10
<1>12. ext \in Seq(Name) /\ Len(ext) = Cardinality(new) /\ DOMAIN ext = 1 .. Cardinality(new)
  BY <1>8, <1>11
<1>13. ASSUME NEW i \in new PROVE ext[PlaceIn(new, i)] = names[i]
  <2>1. PICK k \in 1 .. Cardinality(new) : k = PlaceIn(new, i)
    BY <1>8
  <2>2. PICK j \in new : j = (CHOOSE x \in new : PlaceIn(new, x) = k) /\ PlaceIn(new, j) = k
    BY <1>9
  <2>3. i = j
    BY <1>8, <2>1, <2>2
  <2> QED BY <1>2, <2>1, <2>2, <2>3
<1>14. PICK W : W = tbl \o ext
  OBVIOUS
<1>15. /\ W \in Seq(Name) /\ Len(W) = Len(tbl) + Len(ext)
       /\ \A i \in 1 .. Len(tbl) + Len(ext) :
             W[i] = IF i <= Len(tbl) THEN tbl[i] ELSE ext[i - Len(tbl)]
  BY <1>12, <1>14, ConcatProperties
<1>16. WithNames(tbl, names) = W
  BY <1>1, <1>2, <1>14 DEF WithNames
<1>17. Len(tbl) \in Nat /\ DOMAIN tbl = 1 .. Len(tbl) /\ Len(ext) \in Nat
       /\ DOMAIN W = 1 .. Len(tbl) + Len(ext)
  BY <1>12, <1>15, LenProperties
<1>18. Prefix(tbl, W)
  BY <1>15, <1>17 DEF Prefix
<1>19. \A i \in new : \E j \in DOMAIN W : W[j] = names[i]
  <2> SUFFICES ASSUME NEW i \in new PROVE \E j \in DOMAIN W : W[j] = names[i]
    OBVIOUS
  <2>1. PICK k \in 1 .. Len(ext) : k = PlaceIn(new, i) /\ ext[k] = names[i]
    BY <1>8, <1>12, <1>13
  <2>2. Len(tbl) + k \in DOMAIN W /\ ~(Len(tbl) + k <= Len(tbl)) /\ (Len(tbl) + k) - Len(tbl) = k
    BY <1>17
  <2>3. W[Len(tbl) + k] = ext[k]
    BY <1>15, <1>17, <2>2
  <2> QED BY <2>1, <2>2, <2>3
<1>20. ASSUME NEW i \in DOMAIN names PROVE \E j \in DOMAIN W : W[j] = names[i]
  <2>1. CASE \E j \in DOMAIN tbl : tbl[j] = names[i]
    BY <1>18, <2>1 DEF Prefix
  <2>2. CASE \A j \in DOMAIN tbl : tbl[j] # names[i]
    <3>1. PICK T : T = {j \in DOMAIN names : names[j] = names[i]}
      OBVIOUS
    <3>2. T \subseteq Nat /\ i \in T
      BY <1>3, <3>1
    <3>3. PICK l \in T : \A j \in T : l <= j
      BY <3>2, LeastOfSet
    <3>4. l \in DOMAIN names /\ names[l] = names[i] /\ l \in Nat
      BY <3>1, <3>2, <3>3
    <3>5. ASSUME NEW j \in 1 .. l - 1 PROVE names[j] # names[l]
      <4>1. j \in DOMAIN names /\ ~(l <= j)
        BY <1>3, <3>4
      <4> QED BY <3>1, <3>3, <3>4, <4>1
    <3>6. l \in new
      BY <1>1, <2>2, <3>4, <3>5 DEF Unslotted
    <3> QED BY <1>19, <3>4, <3>6
  <2> QED BY <2>1, <2>2
<1> QED BY <1>15, <1>16, <1>18, <1>20

\* The slots of a graph whose names have slots: places in the table.
LEMMA SlotsTabled ==
    ASSUME NEW r \in Row, NEW t \in Seq(Name), Named(r, t)
    PROVE  /\ SlotsOf(t, r) \in SUBSET (Name \X (Nat \ {0}))
           /\ SlotsIn(SlotsOf(t, r), t)
           /\ \A p \in SlotsOf(t, r) : p[2] <= Len(t)
<1>1. /\ Len(t) \in Nat /\ DOMAIN t = 1 .. Len(t)
  BY LenProperties
<1>2. \A n \in NamesOf(r) : n \in Name
  BY ElementOfSeq DEF NamesOf, GraphInfo
<1>3. ASSUME NEW n \in NamesOf(r)
      PROVE  SlotOf(t, n) \in DOMAIN t /\ t[SlotOf(t, n)] = n
  <2>1. \E i \in DOMAIN t : t[i] = n
    BY <1>3 DEF Named
  <2> QED BY <2>1, Zenon DEF SlotOf
<1>4. SlotsOf(t, r) = {<<n, SlotOf(t, n)>> : n \in NamesOf(r)}
  BY DEF SlotsOf, NamesOf
<1>5. ASSUME NEW p \in SlotsOf(t, r)
      PROVE  /\ p \in Name \X (Nat \ {0}) /\ p[2] \in DOMAIN t /\ t[p[2]] = p[1]
             /\ p[2] <= Len(t)
  <2>1. PICK n \in NamesOf(r) : p = <<n, SlotOf(t, n)>>
    BY <1>4
  <2>2. p[1] = n /\ p[2] = SlotOf(t, n)
    BY <2>1
  <2>3. SlotOf(t, n) \in Nat \ {0} /\ SlotOf(t, n) <= Len(t)
    BY <1>1, <1>3
  <2> QED BY <1>2, <1>3, <2>1, <2>2, <2>3
<1> QED BY <1>5 DEF SlotsIn

\* buildExpandedContext lays out every slot, at least the context it was given,
\* and changes only slots that get a start time.
LEMMA ExpandedFits ==
    ASSUME NEW base \in Seq(Nat), NEW slots \in SUBSET (Name \X (Nat \ {0})), NEW starts,
           NEW m \in Nat, \A p \in slots : p[2] <= m
    PROVE  /\ Expanded(base, slots, starts) \in Seq(Nat)
           /\ DOMAIN base \subseteq DOMAIN Expanded(base, slots, starts)
           /\ SlotsFit(slots, Expanded(base, slots, starts))
           /\ \A i \in DOMAIN base :
                 \/ Expanded(base, slots, starts)[i] = base[i]
                 \/ \E p \in slots : p[2] = i /\ p[1] \in starts
<1>1. Len(base) \in Nat /\ DOMAIN base = 1 .. Len(base) /\ \A i \in DOMAIN base : base[i] \in Nat
  BY LenProperties, ElementOfSeq
<1>2. PICK S : S = {Len(base)} \cup {p[2] : p \in slots}
  OBVIOUS
<1>3. \A p \in slots : p[2] \in Nat \ {0} /\ p[2] \in S
  BY <1>2
<1>4. S \subseteq Nat /\ S # {}
  BY <1>1, <1>2, <1>3
<1>5. PICK b \in Nat : \A x \in S : x <= b
  <2>1. Len(base) + m \in Nat /\ \A x \in S : x <= Len(base) + m
    BY <1>1, <1>2, <1>3
  <2> QED BY <2>1
<1>6. Greatest(S) \in S /\ \A y \in S : y <= Greatest(S)
  BY <1>4, <1>5, GreatestPicked
<1>7. PICK g : g = Greatest(S) /\ g \in S /\ \A y \in S : y <= g
  BY <1>6
<1>8. g \in Nat /\ Len(base) <= g
  BY <1>2, <1>4, <1>7
<1>9. PICK E : E = [i \in 1 .. g |-> IF \E p \in slots : p[2] = i /\ p[1] \in starts THEN Start
                                     ELSE IF i <= Len(base) THEN base[i] ELSE 0]
  OBVIOUS
<1>10. E = Expanded(base, slots, starts)
  BY <1>2, <1>7, <1>9 DEF Expanded
<1>11. E \in [1 .. g -> Nat]
  BY <1>1, <1>9 DEF Start
<1>12. E \in Seq(Nat) /\ DOMAIN E = 1 .. g
  BY <1>8, <1>11
<1>13. DOMAIN base \subseteq DOMAIN E
  BY <1>1, <1>8, <1>12
<1>14. SlotsFit(slots, E)
  BY <1>3, <1>7, <1>8, <1>12 DEF SlotsFit
<1>15. \A i \in DOMAIN base : E[i] = base[i] \/ \E p \in slots : p[2] = i /\ p[1] \in starts
  BY <1>1, <1>9, <1>12, <1>13
<1> QED BY <1>10, <1>12, <1>13, <1>14, <1>15

-----------------------------------------------------------------------------
(* Sessions.                                                               *)

\* The ids of the automations are 1, 2, ...; none of them is NoId.
LEMMA IdsNumbered ==
    ASSUME DeployInv
    PROVE  /\ Ids = 1 .. Len(automations) /\ Len(automations) \in Nat
           /\ \A i \in Ids : i # NoId /\ automations[i] \in Automation
           /\ quiet \in [Ids -> 0 .. now] /\ now \in Nat
           /\ \A i \in Ids : quiet[i] \in Nat /\ quiet[i] <= now
<1>1. automations \in Seq(Automation) /\ quiet \in [Ids -> 0 .. now] /\ now \in 0 .. MaxTime /\ MaxTime \in Nat
  BY DEF DeployInv, TypeOK
<1>2. Ids = 1 .. Len(automations) /\ Len(automations) \in Nat
  BY <1>1, LenProperties DEF Ids
<1>3. \A i \in Ids : automations[i] \in Automation
  BY <1>1, <1>2, ElementOfSeq
<1> QED BY SMTT(30), <1>1, <1>2, <1>3

\* A session's copies stay good while automations are only added, tables and
\* contexts only grow (or are known to be lost) and quiet times move on.
LEMMA SessionKept ==
    ASSUME NEW q, NEW ids, NEW t, NEW rc, NEW c, NEW sl, NEW qt,
           SessionOK(q, ids, t, rc, c, sl, qt),
           NEW ids2, NEW t2, NEW rc2, NEW c2, NEW sl2, NEW qt2,
           ids \subseteq ids2,
           ~rc2 => ~rc /\ Prefix(t, t2),
           ~sl2 => ~sl /\ DOMAIN c \subseteq DOMAIN c2,
           \A i \in ids : qt[i] \in Nat /\ qt2[i] \in Nat /\ qt[i] <= qt2[i]
    PROVE  SessionOK(q, ids2, t2, rc2, c2, sl2, qt2)
<1>1. q \in SessionState /\ FreshOK(q)
  BY DEF SessionOK
<1>2. CopiesOK(q, ids2, t2, rc2, c2, sl2)
  <2>1. /\ q.found.id \in ids2 \cup {NoId}
        /\ q.pc = "link" => q.cand \in ids2
        /\ q.pc = "confirm" => q.id \in ids2
        /\ q.kind = "update" /\ q.pc \in Allocating => q.found.id # NoId
        /\ q.pc \in Allocated => Named(q.row, q.tbl)
    BY DEF SessionOK, CopiesOK
  <2>2. ~rc2 /\ q.pc \in Allocated \cup {"store"} => Prefix(q.tbl, t2)
    BY DEF SessionOK, CopiesOK, Prefix
  <2>3. ~sl2 /\ q.pc = "send" => SlotsFit(SlotsOf(q.tbl, q.row), c2)
    BY DEF SessionOK, CopiesOK, SlotsFit
  <2> QED BY <2>1, <2>2, <2>3 DEF CopiesOK
<1>3. RemovalOK(q, qt2)
  <2> SUFFICES ASSUME q.pc = "remove", q.found.id # NoId, ~q.found.ownerOnly, q.status # "unread"
               PROVE  qt2[q.found.id] + CacheTTL > q.at
    BY DEF RemovalOK
  <2>1. qt[q.found.id] + CacheTTL > q.at
    BY DEF SessionOK, RemovalOK
  <2>2. q.found.id \in ids /\ q.at \in Nat
    BY <1>1 DEF SessionOK, CopiesOK, SessionState
  <2>3. PICK a, b \in Nat : a = qt[q.found.id] /\ b = qt2[q.found.id] /\ a <= b
    BY <2>2
  <2> QED BY <2>1, <2>2, <2>3
<1> QED BY <1>1, <1>2, <1>3 DEF SessionOK

\* A session at rest has no copies.
LEMMA IdleOK ==
    ASSUME NEW ids, NEW t, NEW rc, NEW c, NEW sl, NEW qt
    PROVE  SessionOK(Idle, ids, t, rc, c, sl, qt)
<1>1. SomeRow \in Row
  BY DEF SomeRow
<1>2. Idle \in SessionState
  BY <1>1, EmptySeq DEF Idle, SessionState, Kind, DbRow, Status
<1> QED BY <1>2 DEF SessionOK, CopiesOK, FreshOK, RemovalOK, Idle, Allocating, Allocated

\* A step that changes one session, and of the rest only what the copies of the
\* others survive.
LEMMA StepKeeps ==
    ASSUME DeployInv, NEW s \in Session, NEW q, Becomes(s, q),
           SessionOK(q, Ids', table', raced', context', stale', quiet'),
           Ids \subseteq Ids',
           ~raced' => ~raced /\ Prefix(table, table'),
           ~stale' => ~stale /\ DOMAIN context \subseteq DOMAIN context',
           \A i \in Ids : quiet'[i] \in Nat /\ quiet[i] <= quiet'[i]
    PROVE  SessionsOK' /\ sessions' \in [Session -> SessionState]
<1>1. sessions \in [Session -> SessionState]
  BY DEF DeployInv, TypeOK
<1>2. ASSUME NEW x \in Session
      PROVE  SessionOK(sessions'[x], Ids', table', raced', context', stale', quiet')
  <2>1. CASE x = s
    BY <1>1, <2>1 DEF Becomes
  <2>2. CASE x # s
    <3>1. sessions'[x] = sessions[x]
      BY <1>1, <2>2 DEF Becomes
    <3>2. SessionOK(sessions[x], Ids, table, raced, context, stale, quiet)
      BY DEF DeployInv, SessionsOK
    <3>3. \A i \in Ids : quiet[i] \in Nat
      BY IdsNumbered
    <3>4. SessionOK(sessions[x], Ids', table', raced', context', stale', quiet')
      BY <3>2, <3>3, SessionKept
    <3> QED BY <3>1, <3>4
  <2> QED BY <2>1, <2>2
<1>3. q \in SessionState
  BY DEF SessionOK
<1>4. sessions' \in [Session -> SessionState]
  BY <1>1, <1>3 DEF Becomes
<1> QED BY <1>2, <1>4 DEF SessionsOK

Counted == used' \in [deploys : 0 .. MaxDeploys, events : 0 .. MaxEvents]

\* Bounded events are counted.
LEMMA EventCounted ==
    ASSUME DeployInv
    PROVE  (Event => Counted) /\ (UNCHANGED used => Counted)
<1>1. used \in [deploys : 0 .. MaxDeploys, events : 0 .. MaxEvents] /\ MaxEvents \in Nat
  BY DEF DeployInv, TypeOK
<1>2. ASSUME Event PROVE Counted
  <2>1. PICK n : n = used.events + 1
    OBVIOUS
  <2>2. n \in 0 .. MaxEvents
    BY <1>1, <1>2, <2>1 DEF Event
  <2>3. used' = [used EXCEPT !.events = n]
    BY <1>2, <2>1 DEF Event
  <2> QED BY <1>1, <2>2, <2>3 DEF Counted
<1> QED BY <1>1, <1>2 DEF Counted

\* A step that changes only a session.
LEMMA SessionMoves ==
    ASSUME DeployInv, NEW s \in Session, NEW q, Becomes(s, q), Counted,
           SessionOK(q, Ids, table, raced, context, stale, quiet),
           UNCHANGED <<Chain, Backend, now>>
    PROVE  DeployInv'
<1>1. /\ context' = context /\ automations' = automations /\ stale' = stale /\ quiet' = quiet
      /\ table' = table /\ rows' = rows /\ cache' = cache /\ raced' = raced /\ now' = now
      /\ Ids' = Ids
  BY DEF Chain, Backend, Ids
<1>2. Prefix(table, table)
  BY DEF Prefix
<1>3. \A i \in Ids : quiet'[i] \in Nat /\ quiet[i] <= quiet'[i]
  BY <1>1, IdsNumbered
<1>4. SessionsOK' /\ sessions' \in [Session -> SessionState]
  BY <1>1, <1>2, <1>3, StepKeeps
<1>5. TypeOK'
  BY <1>1, <1>4 DEF DeployInv, TypeOK, Counted
<1>6. RowsOK' /\ SlotsOK' /\ QuietNow' /\ CacheOK'
  BY <1>1 DEF DeployInv, RowsOK, OneRowPerAutomation, SlotsOK, QuietNow, CacheOK
<1> QED BY <1>4, <1>5, <1>6 DEF DeployInv

-----------------------------------------------------------------------------
(* findById and the reconciliation.                                        *)

\* Where a request goes from findById.
LEMMA AfterFindCases ==
    ASSUME NEW kind \in Kind, NEW found \in DbRow
    PROVE  /\ AfterFind(kind, found) \in {"alloc", "idle", "status", "remove"}
           /\ AfterFind(kind, found) = "alloc" /\ kind = "update" => found.id # NoId
           /\ AfterFind(kind, found) = "remove" => found.id = NoId \/ found.ownerOnly
BY DEF AfterFind, Kind, DbRow

\* A request goes on with the row it has found.
LEMMA FoundOK ==
    ASSUME NEW ids, NEW t, NEW rc, NEW c, NEW sl, NEW qt,
           NEW q \in SessionState, q.tbl = <<>>, NEW found \in DbRow, found.id \in ids \cup {NoId},
           AfterFind(q.kind, found) # "idle"
    PROVE  SessionOK([q EXCEPT !.pc = AfterFind(q.kind, found), !.found = found, !.cand = NoId],
                     ids, t, rc, c, sl, qt)
<1>1. q.kind \in Kind
  BY DEF SessionState
<1>2. PICK pc \in {"alloc", "status", "remove"} :
         /\ pc = AfterFind(q.kind, found)
         /\ pc = "alloc" /\ q.kind = "update" => found.id # NoId
         /\ pc = "remove" => found.id = NoId \/ found.ownerOnly
  BY <1>1, AfterFindCases
<1>3. PICK y : y = [q EXCEPT !.pc = pc, !.found = found, !.cand = NoId]
  OBVIOUS
<1>4. /\ y \in SessionState
      /\ y.pc = pc /\ y.found = found /\ y.kind = q.kind /\ y.tbl = <<>>
  BY <1>3 DEF SessionState
<1>5. SessionOK(y, ids, t, rc, c, sl, qt)
  BY <1>2, <1>4 DEF SessionOK, CopiesOK, FreshOK, RemovalOK, Allocating, Allocated
<1> QED BY <1>2, <1>3, <1>5

\* A request goes on after the reconciliation, or ends.
LEMMA Continues ==
    ASSUME DeployInv, NEW s \in Session, sessions[s].pc \in {"look", "link"},
           NEW found \in DbRow, found.id \in Ids \cup {NoId}, Continue(s, found)
    PROVE  \E q : Becomes(s, q) /\ SessionOK(q, Ids, table, raced, context, stale, quiet)
<1>1. PICK q : q = sessions[s] /\ SessionOK(q, Ids, table, raced, context, stale, quiet)
  BY DEF DeployInv, SessionsOK
<1>2. q \in SessionState /\ q.tbl = <<>>
  BY <1>1 DEF SessionOK, FreshOK
<1>3. CASE AfterFind(q.kind, found) = "idle"
  <2>1. Becomes(s, Idle)
    BY <1>1, <1>3 DEF Continue, Finish
  <2> QED BY <2>1, IdleOK
<1>4. CASE AfterFind(q.kind, found) # "idle"
  <2>1. PICK y : y = [q EXCEPT !.pc = AfterFind(q.kind, found), !.found = found, !.cand = NoId]
    OBVIOUS
  <2>2. Becomes(s, y)
    BY <1>1, <1>4, <2>1 DEF Continue
  <2>3. SessionOK(y, Ids, table, raced, context, stale, quiet)
    BY <1>2, <1>4, <2>1, FoundOK
  <2> QED BY <2>2, <2>3
<1> QED BY <1>3, <1>4

\* A session ends anywhere without leaving a trace in its copies.
LEMMA AbandonKeeps ==
    ASSUME DeployInv, NEW s \in Session, abandon(s) PROVE DeployInv'
<1>1. Becomes(s, Idle) /\ Event /\ UNCHANGED <<Chain, Backend, now>>
  BY DEF abandon, Finish
<1>2. SessionOK(Idle, Ids, table, raced, context, stale, quiet)
  BY IdleOK
<1> QED BY <1>1, <1>2, EventCounted, SessionMoves

\* findById copies the row as it stands.
LEMMA FindKeeps ==
    ASSUME DeployInv, NEW s \in Session, NEW kind \in Kind \ {"none"}, NEW r \in Row,
           findById(s, kind, r)
    PROVE  DeployInv'
<1>1. rows[r] \in DbRow /\ rows[r].id \in Ids \cup {NoId}
  BY DEF DeployInv, TypeOK, RowsOK
<1>2. PICK st : st = [Idle EXCEPT !.kind = kind, !.row = r, !.found = rows[r]]
  OBVIOUS
<1>3. Idle \in SessionState /\ Idle.tbl = <<>>
  <2>1. SessionOK(Idle, {}, <<>>, FALSE, <<>>, FALSE, <<>>)
    BY IdleOK
  <2> QED BY <2>1 DEF SessionOK, Idle
<1>4. st \in SessionState /\ st.kind = kind /\ st.found = rows[r] /\ st.tbl = <<>> /\ st.cand = NoId
  BY <1>1, <1>2, <1>3 DEF SessionState, Idle
<1>5. \E q : Becomes(s, q) /\ SessionOK(q, Ids, table, raced, context, stale, quiet)
  <2>1. CASE rows[r].id = NoId /\ Graph[r].saved
    <3>1. PICK y : y = [st EXCEPT !.pc = "look"]
      OBVIOUS
    <3>2. y \in SessionState /\ y.pc = "look" /\ y.found = rows[r] /\ y.tbl = <<>>
      BY <1>4, <3>1 DEF SessionState
    <3>3. SessionOK(y, Ids, table, raced, context, stale, quiet)
      BY <1>1, <3>2 DEF SessionOK, CopiesOK, FreshOK, RemovalOK, Allocating, Allocated
    <3>4. Becomes(s, y)
      BY <1>2, <2>1, <3>1 DEF findById
    <3> QED BY <3>3, <3>4
  <2>2. CASE ~(rows[r].id = NoId /\ Graph[r].saved)
    <3>1. PICK y : y = [st EXCEPT !.pc = AfterFind(kind, rows[r])]
      OBVIOUS
    <3>2. Becomes(s, y) /\ AfterFind(kind, rows[r]) # "idle"
      BY <1>2, <2>2, <3>1 DEF findById
    <3>3. PICK pc \in {"alloc", "status", "remove"} :
             /\ pc = AfterFind(kind, rows[r])
             /\ pc = "alloc" /\ kind = "update" => rows[r].id # NoId
             /\ pc = "remove" => rows[r].id = NoId \/ rows[r].ownerOnly
      BY <1>1, <3>2, AfterFindCases
    <3>4. y \in SessionState /\ y.pc = pc /\ y.found = rows[r] /\ y.tbl = <<>> /\ y.kind = kind
      BY <1>4, <3>1, <3>3 DEF SessionState
    <3>5. SessionOK(y, Ids, table, raced, context, stale, quiet)
      BY <1>1, <3>3, <3>4 DEF SessionOK, CopiesOK, FreshOK, RemovalOK, Allocating, Allocated
    <3> QED BY <3>2, <3>5
  <2> QED BY <2>1, <2>2
<1>6. Counted
  <2>1. used \in [deploys : 0 .. MaxDeploys, events : 0 .. MaxEvents] /\ MaxDeploys \in Nat
    BY DEF DeployInv, TypeOK
  <2>2. CASE kind \in {"create", "update"}
    <3>1. PICK n : n = used.deploys + 1
      OBVIOUS
    <3>2. n \in 0 .. MaxDeploys
      BY <2>1, <2>2, <3>1 DEF findById
    <3>3. used' = [used EXCEPT !.deploys = n]
      BY <2>2, <3>1 DEF findById
    <3> QED BY <2>1, <3>2, <3>3 DEF Counted
  <2>3. CASE kind \notin {"create", "update"}
    BY <2>1, <2>3 DEF findById, Counted
  <2> QED BY <2>2, <2>3
<1>7. UNCHANGED <<Chain, Backend, now>>
  BY DEF findById
<1> QED BY <1>5, <1>6, <1>7, SessionMoves

\* The candidate of the reconciliation is an automation of the vault.
LEMMA ReconcileKeeps ==
    ASSUME DeployInv, NEW s \in Session, tryReconcile(s) PROVE DeployInv'
<1>1. PICK q : q = sessions[s] /\ SessionOK(q, Ids, table, raced, context, stale, quiet)
  BY DEF DeployInv, SessionsOK
<1>2. q \in SessionState /\ q.pc = "look" /\ q.tbl = <<>> /\ q.found.id \in Ids \cup {NoId} /\ q.found \in DbRow
  BY <1>1 DEF SessionOK, FreshOK, CopiesOK, tryReconcile, At, SessionState
<1>3. PICK free : free = {i \in Ids \ Linked : Lookalike(Row_(s), automations[i].graph)}
  OBVIOUS
<1>4. UNCHANGED <<Chain, Backend, now>>
  BY DEF tryReconcile
<1>5. CASE /\ free # {} /\ UNCHANGED used
           /\ Becomes(s, [q EXCEPT !.pc = "link", !.cand = CHOOSE i \in free : \A j \in free : i <= j])
  <2>1. free \subseteq Nat /\ free \subseteq Ids
    BY <1>3, IdsNumbered
  <2>2. \E i \in free : \A j \in free : i <= j
    BY <1>5, <2>1, LeastOfSet
  <2>3. PICK cd \in free : cd = CHOOSE i \in free : \A j \in free : i <= j
    BY <2>2, Zenon
  <2>4. PICK y : y = [q EXCEPT !.pc = "link", !.cand = cd]
    OBVIOUS
  <2>5. /\ y \in SessionState /\ y.pc = "link" /\ y.cand = cd /\ y.found = q.found /\ y.tbl = <<>>
        /\ y.kind = q.kind
    BY <1>2, <2>1, <2>4 DEF SessionState
  <2>6. SessionOK(y, Ids, table, raced, context, stale, quiet)
    BY <1>2, <2>1, <2>5 DEF SessionOK, CopiesOK, FreshOK, RemovalOK, Allocating, Allocated
  <2>7. Becomes(s, y)
    BY <1>5, <2>3, <2>4
  <2> QED BY <1>4, <1>5, <2>6, <2>7, EventCounted, SessionMoves
<1>6. CASE Continue(s, q.found) /\ (UNCHANGED used \/ Event)
  <2>1. PICK y : Becomes(s, y) /\ SessionOK(y, Ids, table, raced, context, stale, quiet)
    BY <1>1, <1>2, <1>6, Continues
  <2> QED BY <1>4, <1>6, <2>1, EventCounted, SessionMoves
<1> QED BY <1>1, <1>3, <1>5, <1>6 DEF tryReconcile

-----------------------------------------------------------------------------
(* The Automation table.                                                   *)

\* A step that changes the table's rows and a session.
LEMMA RowsMove ==
    ASSUME DeployInv, NEW s \in Session, NEW q, Becomes(s, q),
           SessionOK(q, Ids, table, raced, context, stale, quiet),
           UNCHANGED <<Chain, table, cache, raced, now, used>>,
           rows' \in [Row -> DbRow], OneRowPerAutomation',
           \A r \in Row : rows'[r].id \in Ids \cup {NoId}
    PROVE  DeployInv'
<1>1. /\ context' = context /\ automations' = automations /\ stale' = stale /\ quiet' = quiet
      /\ table' = table /\ cache' = cache /\ raced' = raced /\ now' = now /\ used' = used
      /\ Ids' = Ids
  BY DEF Chain, Ids
<1>2. Prefix(table, table)
  BY DEF Prefix
<1>3. \A i \in Ids : quiet'[i] \in Nat /\ quiet[i] <= quiet'[i]
  BY <1>1, IdsNumbered
<1>4. SessionsOK' /\ sessions' \in [Session -> SessionState]
  BY <1>1, <1>2, <1>3, StepKeeps
<1>5. TypeOK'
  BY <1>1, <1>4 DEF DeployInv, TypeOK
<1>6. RowsOK' /\ SlotsOK' /\ QuietNow' /\ CacheOK'
  BY <1>1 DEF DeployInv, RowsOK, SlotsOK, QuietNow, CacheOK
<1> QED BY <1>4, <1>5, <1>6 DEF DeployInv

\* The unique index on (vaultId, onChainId) holds when a row is linked.
LEMMA RowLinked ==
    ASSUME DeployInv, NEW r \in Row, NEW d \in DbRow, d.id \in Ids \cup {NoId},
           d.id # NoId => \A q \in Row \ {r} : rows[q].id # d.id,
           rows' = [rows EXCEPT ![r] = d]
    PROVE  /\ rows' \in [Row -> DbRow] /\ rows'[r] = d /\ OneRowPerAutomation'
           /\ \A q \in Row : rows'[q].id \in Ids \cup {NoId}
<1>1. rows \in [Row -> DbRow] /\ \A q \in Row : rows[q].id \in Ids \cup {NoId}
  BY DEF DeployInv, TypeOK, RowsOK
<1>2. rows' \in [Row -> DbRow] /\ rows'[r] = d /\ \A q \in Row \ {r} : rows'[q] = rows[q]
  BY <1>1
<1>3. \A q \in Row : rows'[q].id \in Ids \cup {NoId}
  BY <1>1, <1>2
<1>4. ASSUME NEW x \in Row, NEW q \in Row, x # q, rows'[x].id # NoId
      PROVE  rows'[x].id # rows'[q].id
  BY <1>2, <1>4 DEF DeployInv, RowsOK, OneRowPerAutomation
<1> QED BY <1>2, <1>3, <1>4 DEF OneRowPerAutomation

\* linkDraft writes the candidate only past the unique index.
LEMMA LinkKeeps ==
    ASSUME DeployInv, NEW s \in Session, linkDraft(s) PROVE DeployInv'
<1>1. PICK q : q = sessions[s] /\ SessionOK(q, Ids, table, raced, context, stale, quiet)
  BY DEF DeployInv, SessionsOK
<1>2. /\ q \in SessionState /\ q.pc = "link" /\ q.cand \in Ids /\ q.row \in Row
      /\ q.found.id \in Ids \cup {NoId} /\ q.found \in DbRow
  BY <1>1 DEF SessionOK, CopiesOK, linkDraft, At, SessionState
<1>3. rows \in [Row -> DbRow]
  BY DEF DeployInv, TypeOK
<1>4. UNCHANGED <<Chain, table, cache, raced, now, used>>
  BY DEF linkDraft
<1>5. CASE rows[q.row].there /\ \A x \in Row \ {q.row} : rows[x].id # q.cand
  <2>1. PICK d : d = [rows[q.row] EXCEPT !.id = q.cand]
    OBVIOUS
  <2>2. d \in DbRow /\ d.id = q.cand
    <3>1. q.cand \in Nat /\ rows[q.row] \in DbRow
      BY <1>2, <1>3 DEF SessionState
    <3> QED BY <2>1, <3>1 DEF DbRow
  <2>3. rows' = [rows EXCEPT ![q.row] = d] /\ Continue(s, rows'[q.row])
    BY <1>1, <1>5, <2>1 DEF linkDraft, Row_
  <2>4. /\ rows' \in [Row -> DbRow] /\ rows'[q.row] = d /\ OneRowPerAutomation'
        /\ \A x \in Row : rows'[x].id \in Ids \cup {NoId}
    BY <1>2, <1>5, <2>2, <2>3, RowLinked
  <2>5. Continue(s, d) /\ d.id \in Ids \cup {NoId} /\ sessions[s].pc \in {"look", "link"}
    BY <1>1, <1>2, <2>2, <2>3, <2>4
  <2>6. PICK y : Becomes(s, y) /\ SessionOK(y, Ids, table, raced, context, stale, quiet)
    BY <2>2, <2>5, Continues
  <2> QED BY <1>4, <2>4, <2>6, RowsMove
<1>6. CASE ~(rows[q.row].there /\ \A x \in Row \ {q.row} : rows[x].id # q.cand)
  <2>1. Continue(s, q.found) /\ rows' = rows /\ sessions[s].pc \in {"look", "link"}
    BY <1>1, <1>2, <1>6 DEF linkDraft, Row_
  <2>2. PICK y : Becomes(s, y) /\ SessionOK(y, Ids, table, raced, context, stale, quiet)
    BY <1>2, <2>1, Continues
  <2>3. OneRowPerAutomation' /\ \A x \in Row : rows'[x].id \in Ids \cup {NoId}
    BY <2>1 DEF DeployInv, RowsOK, OneRowPerAutomation
  <2> QED BY <1>3, <1>4, <2>1, <2>2, <2>3, RowsMove
<1> QED BY <1>5, <1>6

\* confirmDeployment writes the id only past the unique index.
LEMMA ConfirmKeeps ==
    ASSUME DeployInv, NEW s \in Session, confirmDeployment(s) PROVE DeployInv'
<1>1. PICK q : q = sessions[s] /\ SessionOK(q, Ids, table, raced, context, stale, quiet)
  BY DEF DeployInv, SessionsOK
<1>2. q \in SessionState /\ q.pc = "confirm" /\ q.id \in Ids /\ q.row \in Row
  BY <1>1 DEF SessionOK, CopiesOK, confirmDeployment, At, SessionState
<1>3. rows \in [Row -> DbRow]
  BY DEF DeployInv, TypeOK
<1>4. UNCHANGED <<Chain, table, cache, raced, now, used>> /\ Becomes(s, Idle)
  BY DEF confirmDeployment, Finish
<1>5. SessionOK(Idle, Ids, table, raced, context, stale, quiet)
  BY IdleOK
<1>6. CASE rows[q.row].there /\ \A x \in Row \ {q.row} : rows[x].id # q.id
  <2>1. PICK d : d = [rows[q.row] EXCEPT !.id = q.id, !.ownerOnly = Graph[q.row].ownerOnly]
    OBVIOUS
  <2>2. Graph[q.row].ownerOnly \in BOOLEAN
    BY <1>2 DEF GraphInfo
  <2>3. d \in DbRow /\ d.id = q.id
    <3>1. q.id \in Nat /\ rows[q.row] \in DbRow
      BY <1>2, <1>3 DEF SessionState
    <3> QED BY <2>1, <2>2, <3>1 DEF DbRow
  <2>4. rows' = [rows EXCEPT ![q.row].id = q.id, ![q.row].ownerOnly = Graph[q.row].ownerOnly]
    BY <1>1, <1>6 DEF confirmDeployment, Row_
  <2>5. rows' = [rows EXCEPT ![q.row] = d]
    BY <1>2, <1>3, <2>1, <2>4
  <2>6. /\ rows' \in [Row -> DbRow] /\ OneRowPerAutomation'
        /\ \A x \in Row : rows'[x].id \in Ids \cup {NoId}
    BY <1>2, <1>6, <2>3, <2>5, RowLinked
  <2> QED BY <1>4, <1>5, <2>6, RowsMove
<1>7. CASE ~(rows[q.row].there /\ \A x \in Row \ {q.row} : rows[x].id # q.id)
  <2>1. rows' = rows
    BY <1>1, <1>7 DEF confirmDeployment, Row_
  <2>2. OneRowPerAutomation' /\ \A x \in Row : rows'[x].id \in Ids \cup {NoId}
    BY <2>1 DEF DeployInv, RowsOK, OneRowPerAutomation
  <2> QED BY <1>3, <1>4, <1>5, <2>1, <2>2, RowsMove
<1> QED BY <1>6, <1>7

\* A deleted row is linked to nothing.
LEMMA RemoveKeeps ==
    ASSUME DeployInv, NEW s \in Session, remove(s) PROVE DeployInv'
<1>1. sessions[s].row \in Row
  BY DEF DeployInv, TypeOK, SessionState
<1>2. PICK d : d = Idle.found
  OBVIOUS
<1>3. d \in DbRow /\ d.id = NoId
  BY <1>2 DEF Idle, DbRow
<1>4. /\ UNCHANGED <<Chain, table, cache, raced, now, used>> /\ Becomes(s, Idle)
      /\ rows' = [rows EXCEPT ![sessions[s].row] = d]
  BY <1>2 DEF remove, Finish, Row_
<1>5. SessionOK(Idle, Ids, table, raced, context, stale, quiet)
  BY IdleOK
<1>6. /\ rows' \in [Row -> DbRow] /\ OneRowPerAutomation'
      /\ \A x \in Row : rows'[x].id \in Ids \cup {NoId}
  BY <1>1, <1>3, <1>4, RowLinked
<1> QED BY <1>4, <1>5, <1>6, RowsMove

-----------------------------------------------------------------------------
(* Slots and the context.                                                  *)

\* The table that is read is the stored one.
LEMMA ReadSlotsKeeps ==
    ASSUME DeployInv, NEW s \in Session, readSlots(s) PROVE DeployInv'
<1>1. PICK q : q = sessions[s] /\ SessionOK(q, Ids, table, raced, context, stale, quiet)
  BY DEF DeployInv, SessionsOK
<1>2. /\ q \in SessionState /\ q.pc = "alloc" /\ q.row \in Row /\ q.found.id \in Ids \cup {NoId}
      /\ q.kind = "update" => q.found.id # NoId
      /\ q.tbl = <<>>
  BY <1>1 DEF SessionOK, CopiesOK, FreshOK, readSlots, At, SessionState, Allocating
<1>3. UNCHANGED <<Chain, Backend, now, used>> /\ table \in Seq(Name)
  BY DEF readSlots, DeployInv, TypeOK
<1>4. CASE Graph[q.row].names = <<>>
  <2>1. PICK y : y = [q EXCEPT !.pc = "context"]
    OBVIOUS
  <2>2. /\ y \in SessionState /\ y.pc = "context" /\ y.found = q.found /\ y.tbl = <<>>
        /\ y.kind = q.kind /\ y.row = q.row
    BY <1>2, <2>1 DEF SessionState
  <2>3. Named(q.row, <<>>) /\ Prefix(<<>>, table)
    BY <1>4 DEF Named, NamesOf, Prefix
  <2>4. SessionOK(y, Ids, table, raced, context, stale, quiet)
    BY <1>2, <2>2, <2>3 DEF SessionOK, CopiesOK, FreshOK, RemovalOK, Allocating, Allocated
  <2>5. Becomes(s, y)
    BY <1>1, <1>4, <2>1 DEF readSlots, Goto, Row_
  <2> QED BY <1>3, <2>4, <2>5, EventCounted, SessionMoves
<1>5. CASE Graph[q.row].names # <<>>
  <2>1. PICK y : y = [q EXCEPT !.tbl = table, !.pc = "store"]
    OBVIOUS
  <2>2. /\ y \in SessionState /\ y.pc = "store" /\ y.found = q.found /\ y.tbl = table
        /\ y.kind = q.kind /\ y.row = q.row
    BY <1>2, <1>3, <2>1 DEF SessionState
  <2>3. Prefix(table, table)
    BY DEF Prefix
  <2>4. SessionOK(y, Ids, table, raced, context, stale, quiet)
    BY <1>2, <2>2, <2>3 DEF SessionOK, CopiesOK, FreshOK, RemovalOK, Allocating, Allocated
  <2>5. Becomes(s, y)
    BY <1>1, <1>5, <2>1 DEF readSlots, Row_
  <2> QED BY <1>3, <2>4, <2>5, EventCounted, SessionMoves
<1> QED BY <1>4, <1>5

\* A table that is written back extends the stored one, or the race is on record.
LEMMA WriteSlotsKeeps ==
    ASSUME DeployInv, NEW s \in Session, writeSlots(s) PROVE DeployInv'
<1>1. PICK q : q = sessions[s] /\ SessionOK(q, Ids, table, raced, context, stale, quiet)
  BY DEF DeployInv, SessionsOK
<1>2. /\ q \in SessionState /\ q.pc = "store" /\ q.row \in Row /\ q.found.id \in Ids \cup {NoId}
      /\ q.kind = "update" => q.found.id # NoId
      /\ q.tbl \in Seq(Name)
  BY <1>1 DEF SessionOK, CopiesOK, FreshOK, writeSlots, At, SessionState, Allocating
<1>3. Graph[q.row].names \in Seq(Name)
  BY <1>2 DEF GraphInfo
<1>4. PICK names \in Seq(Name) : names = Graph[q.row].names
  BY <1>3
<1>5. PICK tbl \in Seq(Name) : tbl = q.tbl
  BY <1>2
<1>6. /\ WithNames(tbl, names) \in Seq(Name)
       /\ Prefix(tbl, WithNames(tbl, names))
       /\ \A i \in DOMAIN names : \E j \in DOMAIN WithNames(tbl, names) :
              WithNames(tbl, names)[j] = names[i]
  BY NamesGiven
<1>7. PICK new : new = WithNames(tbl, names)
  OBVIOUS
<1>8. /\ new = WithNames(q.tbl, Graph[q.row].names)
      /\ new \in Seq(Name) /\ Prefix(q.tbl, new)
      /\ \A i \in DOMAIN Graph[q.row].names : \E j \in DOMAIN new : new[j] = Graph[q.row].names[i]
  BY <1>4, <1>5, <1>6, <1>7
<1>9. Named(q.row, new)
  BY <1>8 DEF Named, NamesOf
<1>10. PICK y : y = [q EXCEPT !.tbl = new, !.pc = "context"]
  OBVIOUS
<1>11. /\ y \in SessionState /\ y.pc = "context" /\ y.found = q.found /\ y.tbl = new
      /\ y.kind = q.kind /\ y.row = q.row
  BY <1>2, <1>8, <1>10 DEF SessionState
<1>12. /\ table' = new /\ (raced' <=> raced \/ q.tbl # table) /\ raced' \in BOOLEAN
      /\ Becomes(s, y)
  BY <1>1, <1>8, <1>10 DEF writeSlots, Row_, DeployInv, TypeOK
<1>13. /\ context' = context /\ automations' = automations /\ stale' = stale /\ quiet' = quiet
      /\ rows' = rows /\ cache' = cache /\ now' = now /\ used' = used /\ Ids' = Ids
  BY DEF writeSlots, Chain, Ids
<1>14. ~raced' => ~raced /\ Prefix(table, new)
  BY <1>8, <1>12
<1>15. Prefix(new, new)
  BY DEF Prefix
<1>16. SessionOK(y, Ids', table', raced', context', stale', quiet')
  BY <1>2, <1>9, <1>11, <1>12, <1>13, <1>15 DEF SessionOK, CopiesOK, FreshOK, RemovalOK, Allocating, Allocated
<1>17. \A i \in Ids : quiet'[i] \in Nat /\ quiet[i] <= quiet'[i]
  BY <1>13, IdsNumbered
<1>18. SessionsOK' /\ sessions' \in [Session -> SessionState]
  BY <1>12, <1>13, <1>14, <1>16, <1>17, StepKeeps
<1>19. TypeOK'
  BY <1>8, <1>12, <1>13, <1>18 DEF DeployInv, TypeOK
<1>20. SlotsOK'
  <2>1. ASSUME ~raced', NEW i \in Ids PROVE SlotsIn(automations[i].slots, table')
    BY <1>12, <1>14, <2>1 DEF DeployInv, SlotsOK, SlotsIn, Prefix
  <2> QED BY <1>13, <2>1 DEF DeployInv, SlotsOK
<1>21. RowsOK' /\ QuietNow' /\ CacheOK'
  BY <1>13 DEF DeployInv, RowsOK, OneRowPerAutomation, QuietNow, CacheOK
<1> QED BY <1>18, <1>19, <1>20, <1>21 DEF DeployInv

\* Without a context transaction all slots exist already.
LEMMA ReadContextKeeps ==
    ASSUME DeployInv, NEW s \in Session, readContext(s) PROVE DeployInv'
<1>1. PICK q : q = sessions[s] /\ SessionOK(q, Ids, table, raced, context, stale, quiet)
  BY DEF DeployInv, SessionsOK
<1>2. /\ q \in SessionState /\ q.pc = "context" /\ q.row \in Row /\ q.found.id \in Ids \cup {NoId}
      /\ q.kind = "update" => q.found.id # NoId
      /\ q.tbl \in Seq(Name) /\ Named(q.row, q.tbl)
      /\ ~raced => Prefix(q.tbl, table)
  BY <1>1 DEF SessionOK, CopiesOK, readContext, At, SessionState, Allocating, Allocated
<1>3. UNCHANGED <<Chain, Backend, now>> /\ context \in Seq(Nat) /\ <<>> \in Seq(Nat)
  BY EmptySeq DEF readContext, DeployInv, TypeOK
<1>4. PICK base \in {context, <<>>} :
         /\ IF base = context THEN UNCHANGED used ELSE Event
         /\ Becomes(s, [sessions[s] EXCEPT !.base = base,
                           !.pc = IF NeedsContextTx(s, base) THEN "setContext" ELSE "send"])
  BY DEF readContext
<1>5. Counted
  BY <1>4, EventCounted
<1>6. PICK pc \in {"setContext", "send"} : pc = IF NeedsContextTx(s, base) THEN "setContext" ELSE "send"
  OBVIOUS
<1>7. PICK y : y = [q EXCEPT !.base = base, !.pc = pc]
  OBVIOUS
<1>8. /\ y \in SessionState /\ y.pc = pc /\ y.found = q.found /\ y.tbl = q.tbl
      /\ y.kind = q.kind /\ y.row = q.row
  BY <1>2, <1>3, <1>7 DEF SessionState
<1>9. Becomes(s, y)
  BY <1>1, <1>4, <1>6, <1>7
<1>10. ASSUME pc = "send" PROVE SlotsFit(SlotsOf(q.tbl, q.row), context)
  <2>1. ~NeedsContextTx(s, base)
    BY <1>6, <1>10
  <2>2. \A p \in SlotsOf(q.tbl, q.row) : ~(p[2] > Len(base))
    BY <1>1, <2>1 DEF NeedsContextTx, Row_
  <2>3. \A p \in SlotsOf(q.tbl, q.row) : p[2] \in Nat \ {0}
    BY <1>2, SlotsTabled
  <2>4. /\ Len(context) \in Nat /\ DOMAIN context = 1 .. Len(context)
        /\ Len(base) \in Nat /\ Len(base) <= Len(context)
    BY <1>3, LenProperties, EmptySeq
  <2> QED BY <2>2, <2>3, <2>4 DEF SlotsFit
<1>11. SessionOK(y, Ids, table, raced, context, stale, quiet)
  BY <1>2, <1>8, <1>10 DEF SessionOK, CopiesOK, FreshOK, RemovalOK, Allocating, Allocated
<1> QED BY <1>3, <1>5, <1>9, <1>11, SessionMoves

\* What setContext writes.
LEMMA ContextWritten ==
    ASSUME DeployInv, NEW s \in Session, setContext(s)
    PROVE  /\ context' \in Seq(Nat)
           /\ DOMAIN sessions[s].base \subseteq DOMAIN context'
           /\ SlotsFit(SlotsOf(sessions[s].tbl, sessions[s].row), context')
           /\ \A i \in DOMAIN sessions[s].base :
                 \/ context'[i] = sessions[s].base[i]
                 \/ \E p \in SlotsOf(sessions[s].tbl, sessions[s].row) :
                       p[2] = i /\ p[1] \in Graph[sessions[s].row].starts
<1>1. PICK q : q = sessions[s] /\ SessionOK(q, Ids, table, raced, context, stale, quiet)
  BY DEF DeployInv, SessionsOK
<1>2. /\ q \in SessionState /\ q.pc = "setContext" /\ q.row \in Row
      /\ q.tbl \in Seq(Name) /\ Named(q.row, q.tbl) /\ q.base \in Seq(Nat)
  BY <1>1 DEF SessionOK, CopiesOK, setContext, At, SessionState, Allocated
<1>3. PICK slots : slots = SlotsOf(q.tbl, q.row)
  OBVIOUS
<1>4. slots \in SUBSET (Name \X (Nat \ {0})) /\ \A p \in slots : p[2] <= Len(q.tbl)
  BY <1>2, <1>3, SlotsTabled
<1>5. PICK m \in Nat : \A p \in slots : p[2] <= m
  BY <1>2, <1>4, LenProperties
<1>6. PICK base \in Seq(Nat) : base = q.base
  BY <1>2
<1>7. PICK starts : starts = Graph[q.row].starts
  OBVIOUS
<1>8. /\ Expanded(base, slots, starts) \in Seq(Nat)
      /\ DOMAIN base \subseteq DOMAIN Expanded(base, slots, starts)
      /\ SlotsFit(slots, Expanded(base, slots, starts))
      /\ \A i \in DOMAIN base :
            \/ Expanded(base, slots, starts)[i] = base[i]
            \/ \E p \in slots : p[2] = i /\ p[1] \in starts
  BY <1>4, <1>5, ExpandedFits
<1>9. context' = Expanded(base, slots, starts)
  BY <1>1, <1>3, <1>6, <1>7 DEF setContext, Row_
<1> QED BY <1>1, <1>3, <1>6, <1>7, <1>8, <1>9

\* A step of a session that writes the context, or loses its write.
LEMMA ContextMoves ==
    ASSUME DeployInv, NEW s \in Session, At(s, "setContext"), Goto(s, "send"),
           UNCHANGED <<automations, quiet, Backend, now>>, Counted,
           context' \in Seq(Nat), stale' \in BOOLEAN,
           ~stale' => /\ ~stale /\ DOMAIN context \subseteq DOMAIN context'
                      /\ SlotsFit(SlotsOf(sessions[s].tbl, sessions[s].row), context')
    PROVE  DeployInv'
<1>1. PICK q : q = sessions[s] /\ SessionOK(q, Ids, table, raced, context, stale, quiet)
  BY DEF DeployInv, SessionsOK
<1>2. /\ q \in SessionState /\ q.pc = "setContext" /\ q.row \in Row /\ q.found.id \in Ids \cup {NoId}
      /\ q.kind = "update" => q.found.id # NoId
      /\ q.tbl \in Seq(Name) /\ Named(q.row, q.tbl)
      /\ ~raced => Prefix(q.tbl, table)
  BY <1>1 DEF SessionOK, CopiesOK, At, SessionState, Allocating, Allocated
<1>3. /\ automations' = automations /\ quiet' = quiet /\ table' = table /\ raced' = raced
      /\ rows' = rows /\ cache' = cache /\ now' = now /\ Ids' = Ids
  BY DEF Backend, Ids
<1>4. PICK y : y = [q EXCEPT !.pc = "send"]
  OBVIOUS
<1>5. /\ y \in SessionState /\ y.pc = "send" /\ y.found = q.found /\ y.tbl = q.tbl
      /\ y.kind = q.kind /\ y.row = q.row
  BY <1>2, <1>4 DEF SessionState
<1>6. Becomes(s, y)
  BY <1>1, <1>4 DEF Goto
<1>7. SessionOK(y, Ids', table', raced', context', stale', quiet')
  BY <1>1, <1>2, <1>3, <1>5 DEF SessionOK, CopiesOK, FreshOK, RemovalOK, Allocating, Allocated
<1>8. \A i \in Ids : quiet'[i] \in Nat /\ quiet[i] <= quiet'[i]
  BY <1>3, IdsNumbered
<1>9. Prefix(table, table)
  BY DEF Prefix
<1>10. SessionsOK' /\ sessions' \in [Session -> SessionState]
  BY <1>3, <1>6, <1>7, <1>8, <1>9, StepKeeps
<1>11. TypeOK'
  BY <1>3, <1>10 DEF DeployInv, TypeOK, Counted
<1>12. SlotsOK'
  <2>1. ASSUME ~stale', NEW i \in Ids PROVE SlotsFit(automations[i].slots, context')
    BY <2>1 DEF DeployInv, SlotsOK, SlotsFit
  <2> QED BY <1>3, <2>1 DEF DeployInv, SlotsOK
<1>13. RowsOK' /\ QuietNow' /\ CacheOK'
  BY <1>3 DEF DeployInv, RowsOK, OneRowPerAutomation, QuietNow, CacheOK
<1> QED BY <1>10, <1>11, <1>12, <1>13 DEF DeployInv

\* A context that is not shorter than the one it replaces loses no slot.
LEMMA SetContextKeeps ==
    ASSUME DeployInv, NEW s \in Session, setContext(s) PROVE DeployInv'
<1>1. /\ context' \in Seq(Nat) /\ DOMAIN sessions[s].base \subseteq DOMAIN context'
      /\ SlotsFit(SlotsOf(sessions[s].tbl, sessions[s].row), context')
  BY ContextWritten
<1>2. context \in Seq(Nat) /\ sessions[s].base \in Seq(Nat) /\ stale \in BOOLEAN
  BY DEF DeployInv, TypeOK, SessionState
<1>3. /\ Len(context) \in Nat /\ DOMAIN context = 1 .. Len(context)
      /\ Len(sessions[s].base) \in Nat /\ DOMAIN sessions[s].base = 1 .. Len(sessions[s].base)
  BY <1>2, LenProperties
<1>4. (stale' <=> stale \/ Len(sessions[s].base) < Len(context)) /\ stale' \in BOOLEAN
  BY <1>2 DEF setContext
<1>5. ~stale' => ~stale /\ DOMAIN context \subseteq DOMAIN context'
  BY <1>1, <1>3, <1>4
<1>6. /\ At(s, "setContext") /\ Goto(s, "send") /\ UNCHANGED <<automations, quiet, Backend, now>>
      /\ UNCHANGED used
  BY DEF setContext
<1> QED BY <1>1, <1>4, <1>5, <1>6, EventCounted, ContextMoves

\* A reverted context transaction is on record.
LEMMA RevertKeeps ==
    ASSUME DeployInv, NEW s \in Session, setContextReverts(s) PROVE DeployInv'
<1>1. /\ At(s, "setContext") /\ Goto(s, "send") /\ UNCHANGED <<automations, quiet, Backend, now>>
      /\ Event /\ stale' = TRUE /\ context' = context
  BY DEF setContextReverts
<1>2. context' \in Seq(Nat)
  BY <1>1 DEF DeployInv, TypeOK
<1> QED BY <1>1, <1>2, EventCounted, ContextMoves

-----------------------------------------------------------------------------
(* The automations.                                                        *)

\* A new automation brings slots of the table that the context holds.
LEMMA CreateKeeps ==
    ASSUME DeployInv, NEW s \in Session, createAutomation(s) PROVE DeployInv'
<1>1. PICK q : q = sessions[s] /\ SessionOK(q, Ids, table, raced, context, stale, quiet)
  BY DEF DeployInv, SessionsOK
<1>2. /\ q \in SessionState /\ q.pc = "send" /\ q.row \in Row /\ q.found.id \in Ids \cup {NoId}
      /\ q.tbl \in Seq(Name) /\ Named(q.row, q.tbl)
      /\ ~raced => Prefix(q.tbl, table)
      /\ ~stale => SlotsFit(SlotsOf(q.tbl, q.row), context)
  BY <1>1 DEF SessionOK, CopiesOK, createAutomation, At, SessionState, Allocated
<1>3. PICK slots : slots = SlotsOf(q.tbl, q.row)
  OBVIOUS
<1>4. slots \in SUBSET (Name \X (Nat \ {0})) /\ SlotsIn(slots, q.tbl)
  BY <1>2, <1>3, SlotsTabled
<1>5. PICK a : a = [active |-> TRUE, ownerOnly |-> Graph[q.row].ownerOnly, graph |-> q.row, slots |-> slots]
  OBVIOUS
<1>6. a \in Automation /\ a.active /\ a.slots = slots
  BY <1>2, <1>4, <1>5 DEF Automation, GraphInfo
<1>7. /\ automations' = Append(automations, a) /\ quiet' = Append(quiet, now)
      /\ Becomes(s, [q EXCEPT !.id = Len(automations'), !.pc = "confirm"])
      /\ context' = context /\ stale' = stale /\ table' = table /\ rows' = rows
      /\ cache' = cache /\ raced' = raced /\ now' = now /\ used' = used
  BY <1>1, <1>3, <1>5 DEF createAutomation, Row_, Backend
<1>8. PICK n \in Nat : n = Len(automations) /\ Ids = 1 .. n
  BY IdsNumbered
<1>9. /\ automations' \in Seq(Automation) /\ Len(automations') = n + 1
      /\ \A i \in 1 .. n : automations'[i] = automations[i]
      /\ automations'[n + 1] = a
  BY <1>6, <1>7, <1>8, AppendProperties DEF DeployInv, TypeOK
<1>10. Ids' = 1 .. n + 1
  BY <1>8, <1>9, LenProperties DEF Ids
<1>11. quiet \in Seq(0 .. now) /\ Len(quiet) = n /\ now \in 0 .. now /\ now \in Nat
  BY <1>8, IdsNumbered
<1>12. /\ quiet' \in Seq(0 .. now) /\ Len(quiet') = n + 1
       /\ \A i \in 1 .. n : quiet'[i] = quiet[i]
       /\ quiet'[n + 1] = now
  BY <1>7, <1>11, AppendProperties
<1>13. quiet' \in [Ids' -> 0 .. now']
  <2>1. quiet' \in [1 .. Len(quiet') -> 0 .. now]
    BY <1>12, LenProperties
  <2> QED BY <1>7, <1>10, <1>12, <2>1
<1>14. PICK y : y = [q EXCEPT !.id = n + 1, !.pc = "confirm"]
  OBVIOUS
<1>15. y \in SessionState /\ y.pc = "confirm" /\ y.id = n + 1 /\ y.found = q.found
  <2>1. PICK k \in Nat : k = n + 1
    OBVIOUS
  <2>2. y = [q EXCEPT !.id = k, !.pc = "confirm"]
    BY <1>14, <2>1
  <2>3. y \in SessionState /\ y.pc = "confirm" /\ y.id = k /\ y.found = q.found
    BY <1>2, <2>2 DEF SessionState
  <2> QED BY <2>1, <2>3
<1>16. Becomes(s, y)
  BY <1>7, <1>9, <1>14
<1>17. Ids \subseteq Ids' /\ n + 1 \in Ids'
  BY <1>8, <1>10
<1>18. SessionOK(y, Ids', table', raced', context', stale', quiet')
  BY <1>2, <1>15, <1>17 DEF SessionOK, CopiesOK, FreshOK, RemovalOK, Allocating, Allocated
<1>19. \A i \in Ids : quiet'[i] \in Nat /\ quiet[i] <= quiet'[i]
  BY <1>8, <1>12, IdsNumbered
<1>20. Prefix(table, table')
  BY <1>7 DEF Prefix
<1>21. SessionsOK' /\ sessions' \in [Session -> SessionState]
  BY <1>7, <1>16, <1>17, <1>18, <1>19, <1>20, StepKeeps
<1>22. TypeOK'
  BY <1>7, <1>9, <1>13, <1>21 DEF DeployInv, TypeOK
<1>23. SlotsOK'
  <2>1. ASSUME ~raced', NEW i \in Ids' PROVE SlotsIn(automations'[i].slots, table')
    <3>1. CASE i \in 1 .. n
      BY <1>7, <1>8, <1>9, <2>1, <3>1 DEF DeployInv, SlotsOK
    <3>2. CASE i = n + 1
      BY <1>2, <1>4, <1>6, <1>7, <1>9, <2>1, <3>2 DEF SlotsIn, Prefix
    <3> QED BY <1>8, <1>10, <3>1, <3>2
  <2>2. ASSUME ~stale', NEW i \in Ids' PROVE SlotsFit(automations'[i].slots, context')
    <3>1. CASE i \in 1 .. n
      BY <1>7, <1>8, <1>9, <2>2, <3>1 DEF DeployInv, SlotsOK
    <3>2. CASE i = n + 1
      BY <1>2, <1>3, <1>6, <1>7, <1>9, <2>2, <3>2
    <3> QED BY <1>8, <1>10, <3>1, <3>2
  <2> QED BY <2>1, <2>2 DEF SlotsOK
<1>24. QuietNow'
  <2>1. ASSUME NEW i \in Ids', ~automations'[i].active PROVE quiet'[i] = now'
    <3>1. i \in 1 .. n
      BY <1>6, <1>8, <1>9, <1>10, <2>1
    <3> QED BY <1>7, <1>8, <1>9, <1>12, <2>1, <3>1 DEF DeployInv, QuietNow
  <2> QED BY <2>1 DEF QuietNow
<1>25. CacheOK'
  <2> SUFFICES ASSUME cache # NoCache
               PROVE  /\ cache.until <= now + CacheTTL
                      /\ DOMAIN cache.statuses \subseteq Ids'
                      /\ \A i \in Ids' :
                            (i \in DOMAIN cache.statuses => cache.statuses[i] = "inactive") =>
                                cache.until <= quiet'[i] + CacheTTL
    BY <1>7 DEF CacheOK
  <2>1. /\ cache.until <= now + CacheTTL /\ DOMAIN cache.statuses \subseteq Ids
        /\ \A i \in Ids :
              (i \in DOMAIN cache.statuses => cache.statuses[i] = "inactive") =>
                  cache.until <= quiet[i] + CacheTTL
    BY DEF DeployInv, CacheOK
  <2>2. ASSUME NEW i \in Ids', i \in DOMAIN cache.statuses => cache.statuses[i] = "inactive"
        PROVE  cache.until <= quiet'[i] + CacheTTL
    <3>1. CASE i \in 1 .. n
      BY <1>8, <1>12, <2>1, <2>2, <3>1
    <3>2. CASE i = n + 1
      BY <1>12, <2>1, <3>2
    <3> QED BY <1>8, <1>10, <3>1, <3>2
  <2> QED BY <1>17, <2>1, <2>2
<1>26. RowsOK'
  BY <1>7, <1>17 DEF DeployInv, RowsOK, OneRowPerAutomation
<1> QED BY <1>21, <1>22, <1>23, <1>24, <1>25, <1>26 DEF DeployInv

\* An automation is replaced by one whose slots are good and which is as active.
LEMMA AutomationReplaced ==
    ASSUME DeployInv, NEW s \in Session, Becomes(s, Idle),
           NEW id \in Ids, NEW a \in Automation, automations' = [automations EXCEPT ![id] = a],
           a.active <=> automations[id].active,
           ~raced => SlotsIn(a.slots, table), ~stale => SlotsFit(a.slots, context),
           UNCHANGED <<context, stale, quiet, Backend, now, used>>
    PROVE  DeployInv'
<1>1. /\ context' = context /\ stale' = stale /\ quiet' = quiet /\ table' = table /\ rows' = rows
      /\ cache' = cache /\ raced' = raced /\ now' = now /\ used' = used
  BY DEF Backend
<1>2. automations' \in Seq(Automation) /\ Len(automations') = Len(automations)
  BY ExceptSeq, IdsNumbered DEF DeployInv, TypeOK
<1>3. /\ Ids' = Ids /\ automations'[id] = a
      /\ \A i \in Ids \ {id} : automations'[i] = automations[i]
  BY DEF Ids
<1>4. SessionOK(Idle, Ids', table', raced', context', stale', quiet')
  BY IdleOK
<1>5. Prefix(table, table') /\ \A i \in Ids : quiet'[i] \in Nat /\ quiet[i] <= quiet'[i]
  BY <1>1, IdsNumbered DEF Prefix
<1>6. SessionsOK' /\ sessions' \in [Session -> SessionState]
  BY <1>1, <1>3, <1>4, <1>5, StepKeeps
<1>7. TypeOK'
  BY <1>1, <1>2, <1>3, <1>6 DEF DeployInv, TypeOK
<1>8. SlotsOK' /\ QuietNow'
  BY <1>1, <1>3 DEF DeployInv, SlotsOK, QuietNow
<1>9. RowsOK' /\ CacheOK'
  BY <1>1, <1>3 DEF DeployInv, RowsOK, OneRowPerAutomation, CacheOK
<1> QED BY <1>6, <1>7, <1>8, <1>9 DEF DeployInv

\* So does an automation whose steps are replaced.
LEMMA UpdateKeeps ==
    ASSUME DeployInv, NEW s \in Session, updateAutomationSteps(s) PROVE DeployInv'
<1>1. PICK q : q = sessions[s] /\ SessionOK(q, Ids, table, raced, context, stale, quiet)
  BY DEF DeployInv, SessionsOK
<1>2. /\ q \in SessionState /\ q.pc = "send" /\ q.row \in Row /\ q.found.id \in Ids
      /\ q.tbl \in Seq(Name) /\ Named(q.row, q.tbl)
      /\ ~raced => Prefix(q.tbl, table)
      /\ ~stale => SlotsFit(SlotsOf(q.tbl, q.row), context)
  BY <1>1 DEF SessionOK, CopiesOK, updateAutomationSteps, At, SessionState, Allocated, Allocating
<1>3. PICK slots : slots = SlotsOf(q.tbl, q.row)
  OBVIOUS
<1>4. slots \in SUBSET (Name \X (Nat \ {0})) /\ SlotsIn(slots, q.tbl)
  BY <1>2, <1>3, SlotsTabled
<1>5. /\ UNCHANGED <<context, stale, quiet, Backend, now, used>> /\ Becomes(s, Idle)
      /\ automations' = IF automations[q.found.id].ownerOnly \/ ~Graph[q.row].ownerOnly
                        THEN [automations EXCEPT ![q.found.id].graph = q.row,
                                                 ![q.found.id].slots = slots]
                        ELSE automations
  BY <1>1, <1>3 DEF updateAutomationSteps, Finish, Row_
<1>6. automations[q.found.id] \in Automation
  BY <1>2, IdsNumbered
<1>7. CASE automations[q.found.id].ownerOnly \/ ~Graph[q.row].ownerOnly
  <2>1. PICK a : a = [automations[q.found.id] EXCEPT !.graph = q.row, !.slots = slots]
    OBVIOUS
  <2>2. a \in Automation /\ a.slots = slots /\ (a.active <=> automations[q.found.id].active)
    BY <1>2, <1>4, <1>6, <2>1 DEF Automation
  <2>3. automations' = [automations EXCEPT ![q.found.id] = a]
    BY <1>2, <1>5, <1>7, <2>1 DEF Ids
  <2>4. ~raced => SlotsIn(a.slots, table)
    BY <1>2, <1>4, <2>2 DEF SlotsIn, Prefix
  <2>5. ~stale => SlotsFit(a.slots, context)
    BY <1>2, <1>3, <2>2
  <2> QED BY <1>2, <1>5, <2>2, <2>3, <2>4, <2>5, AutomationReplaced
<1>8. CASE ~(automations[q.found.id].ownerOnly \/ ~Graph[q.row].ownerOnly)
  <2>1. automations' = automations
    BY <1>5, <1>8
  <2>2. UNCHANGED <<Chain, Backend, now>> /\ UNCHANGED used
    BY <1>5, <2>1 DEF Chain
  <2>3. SessionOK(Idle, Ids, table, raced, context, stale, quiet)
    BY IdleOK
  <2> QED BY <1>5, <2>2, <2>3, EventCounted, SessionMoves
<1> QED BY <1>7, <1>8

-----------------------------------------------------------------------------
(* Statuses.                                                               *)

\* getStatuses answers from a cache that has not run out, or reads: what it
\* reports as inactive, or not at all, was quiet less than CACHE_TTL ago.
LEMMA StatusesRead ==
    ASSUME DeployInv, NEW st, getStatuses(st), UNCHANGED <<Chain, now>>
    PROVE  /\ Counted /\ CacheOK' /\ cache'.statuses \in Seq(Status) /\ cache'.until \in Nat
           /\ \A i \in DOMAIN st : st[i] \in Status
           /\ \A i \in Ids : (i \in DOMAIN st => st[i] = "inactive") => quiet[i] + CacheTTL > now
<1>1. automations' = automations /\ quiet' = quiet /\ now' = now /\ Ids' = Ids
  BY DEF Chain, Ids
<1>2. /\ cache.statuses \in Seq(Status) /\ cache.until \in Nat /\ now \in Nat
      /\ \A i \in Ids : quiet[i] \in Nat
  BY IdsNumbered DEF DeployInv, TypeOK
<1>3. CASE CacheValid
  <2>1. st = cache.statuses /\ cache' = cache /\ used' = used
    BY <1>3 DEF getStatuses
  <2>2. Counted
    BY <2>1, EventCounted
  <2>3. CacheOK'
    BY <1>1, <2>1 DEF DeployInv, CacheOK
  <2>4. \A i \in DOMAIN st : st[i] \in Status
    BY <1>2, <2>1, LenProperties, ElementOfSeq
  <2>5. ASSUME NEW i \in Ids, i \in DOMAIN st => st[i] = "inactive"
        PROVE  quiet[i] + CacheTTL > now
    <3>1. cache.until <= quiet[i] + CacheTTL /\ now < cache.until
      BY <1>3, <2>1, <2>5 DEF DeployInv, CacheOK, CacheValid
    <3> QED BY <1>2, <3>1
  <2> QED BY <1>2, <2>1, <2>2, <2>3, <2>4, <2>5
<1>4. CASE ~CacheValid
  <2>1. /\ st \in Readings /\ (UNCHANGED used \/ Event)
        /\ cache' = IF st = <<>> THEN cache ELSE [statuses |-> st, until |-> now + CacheTTL]
    BY <1>4 DEF getStatuses
  <2>2. Counted
    BY <2>1, EventCounted
  <2>3. /\ st \in [Ids -> Status]
        /\ \A i \in Ids : st[i] = "inactive" => ~automations[i].active
    BY <2>1 DEF Readings
  <2>4. \A i \in Ids : st[i] = "inactive" => quiet[i] = now
    BY <2>3 DEF DeployInv, QuietNow
  <2>5. \A i \in Ids : (i \in DOMAIN st => st[i] = "inactive") => quiet[i] + CacheTTL > now
    BY <1>2, <2>3, <2>4
  <2>6. st \in Seq(Status)
    BY SMTT(30), <2>3, IdsNumbered
  <2>7. CASE st = <<>>
    <3>1. cache' = cache
      BY <2>1, <2>7
    <3>2. CacheOK'
      BY <1>1, <3>1 DEF DeployInv, CacheOK
    <3> QED BY <1>2, <2>2, <2>3, <2>5, <3>1, <3>2
  <2>8. CASE st # <<>>
    <3>1. cache'.statuses = st /\ cache'.until = now + CacheTTL
      BY <2>1, <2>8
    <3>2. CacheOK'
      <4>1. cache'.until <= now' + CacheTTL
        BY <1>1, <1>2, <3>1
      <4>2. DOMAIN cache'.statuses \subseteq Ids'
        BY <1>1, <2>3, <3>1
      <4>3. ASSUME NEW i \in Ids', i \in DOMAIN cache'.statuses => cache'.statuses[i] = "inactive"
            PROVE  cache'.until <= quiet'[i] + CacheTTL
        BY <1>1, <1>2, <2>3, <2>4, <3>1, <4>3
      <4> QED BY <4>1, <4>2, <4>3 DEF CacheOK
    <3>3. now + CacheTTL \in Nat
      BY <1>2
    <3> QED BY <2>2, <2>3, <2>5, <2>6, <3>1, <3>2, <3>3
  <2> QED BY <2>7, <2>8
<1> QED BY <1>3, <1>4

\* The list's poll renews the cache.
LEMMA PollKeeps ==
    ASSUME DeployInv, pollStatuses PROVE DeployInv'
<1>1. PICK st : getStatuses(st)
  BY DEF pollStatuses
<1>2. UNCHANGED <<Chain, table, rows, raced, now, sessions>>
  BY DEF pollStatuses
<1>3. Counted /\ CacheOK' /\ cache'.statuses \in Seq(Status) /\ cache'.until \in Nat
  BY <1>1, <1>2, StatusesRead
<1>4. /\ context' = context /\ automations' = automations /\ stale' = stale /\ quiet' = quiet
      /\ table' = table /\ rows' = rows /\ raced' = raced /\ now' = now /\ sessions' = sessions
      /\ Ids' = Ids
  BY <1>2 DEF Chain, Ids
<1>5. TypeOK'
  BY <1>3, <1>4 DEF DeployInv, TypeOK, Counted
<1>6. RowsOK' /\ SlotsOK' /\ QuietNow' /\ SessionsOK'
  BY <1>4 DEF DeployInv, RowsOK, OneRowPerAutomation, SlotsOK, QuietNow, SessionsOK
<1> QED BY <1>3, <1>5, <1>6 DEF DeployInv

\* The status that a deletion goes by was true less than CACHE_TTL ago.
LEMMA CheckKeeps ==
    ASSUME DeployInv, NEW s \in Session, checkStatus(s) PROVE DeployInv'
<1>1. PICK q : q = sessions[s] /\ SessionOK(q, Ids, table, raced, context, stale, quiet)
  BY DEF DeployInv, SessionsOK
<1>2. q \in SessionState /\ q.pc = "status" /\ q.found.id \in Ids \cup {NoId}
  BY <1>1 DEF SessionOK, CopiesOK, checkStatus, At
<1>3. UNCHANGED <<Chain, table, rows, raced, now>>
  BY DEF checkStatus
<1>4. PICK st :
         /\ getStatuses(st)
         /\ LET status == IF q.found.id \in DOMAIN st THEN st[q.found.id] ELSE "inactive"
            IN  IF status = "active" THEN Finish(s)
                ELSE Becomes(s, [q EXCEPT !.status = status, !.at = now, !.pc = "remove"])
  BY <1>1 DEF checkStatus
<1>5. /\ Counted /\ CacheOK' /\ cache'.statuses \in Seq(Status) /\ cache'.until \in Nat
      /\ \A i \in DOMAIN st : st[i] \in Status
      /\ \A i \in Ids : (i \in DOMAIN st => st[i] = "inactive") => quiet[i] + CacheTTL > now
  BY <1>3, <1>4, StatusesRead
<1>6. PICK status : status = IF q.found.id \in DOMAIN st THEN st[q.found.id] ELSE "inactive"
  OBVIOUS
<1>7. status \in Status /\ now \in Nat
  BY <1>5, <1>6, IdsNumbered DEF Status
<1>8. PICK y : Becomes(s, y) /\ SessionOK(y, Ids, table, raced, context, stale, quiet)
  <2>1. CASE status = "active"
    BY <1>4, <1>6, <2>1, IdleOK DEF Finish
  <2>2. CASE status # "active"
    <3>1. PICK z : z = [q EXCEPT !.status = status, !.at = now, !.pc = "remove"]
      OBVIOUS
    <3>2. /\ z \in SessionState /\ z.pc = "remove" /\ z.status = status /\ z.at = now
          /\ z.found = q.found
      BY <1>2, <1>7, <3>1 DEF SessionState
    <3>3. RemovalOK(z, quiet)
      <4> SUFFICES ASSUME q.found.id # NoId, status # "unread"
                   PROVE  quiet[q.found.id] + CacheTTL > now
        BY <3>2 DEF RemovalOK
      <4>1. status = "inactive" /\ q.found.id \in Ids
        BY <1>2, <1>7, <2>2 DEF Status
      <4> QED BY <1>5, <1>6, <4>1
    <3>4. SessionOK(z, Ids, table, raced, context, stale, quiet)
      BY <1>2, <3>2, <3>3 DEF SessionOK, CopiesOK, FreshOK, Allocating, Allocated
    <3>5. Becomes(s, z)
      BY <1>4, <1>6, <2>2, <3>1
    <3> QED BY <3>4, <3>5
  <2> QED BY <2>1, <2>2
<1>9. /\ context' = context /\ automations' = automations /\ stale' = stale /\ quiet' = quiet
      /\ table' = table /\ rows' = rows /\ raced' = raced /\ now' = now /\ Ids' = Ids
  BY <1>3 DEF Chain, Ids
<1>10. Prefix(table, table') /\ \A i \in Ids : quiet'[i] \in Nat /\ quiet[i] <= quiet'[i]
  BY <1>9, IdsNumbered DEF Prefix
<1>11. SessionsOK' /\ sessions' \in [Session -> SessionState]
  BY <1>8, <1>9, <1>10, StepKeeps
<1>12. TypeOK'
  BY <1>5, <1>9, <1>11 DEF DeployInv, TypeOK, Counted
<1>13. RowsOK' /\ SlotsOK' /\ QuietNow'
  BY <1>9 DEF DeployInv, RowsOK, OneRowPerAutomation, SlotsOK, QuietNow
<1> QED BY <1>5, <1>11, <1>12, <1>13 DEF DeployInv

-----------------------------------------------------------------------------
(* Everybody else.                                                         *)

\* Steps that leave the sessions alone.
LEMMA OthersKeep ==
    ASSUME DeployInv, sessions' = sessions, Ids' = Ids, UNCHANGED Backend, stale' = stale,
           DOMAIN context' = DOMAIN context,
           \A i \in Ids : quiet'[i] \in Nat /\ quiet[i] <= quiet'[i]
    PROVE  SessionsOK' /\ RowsOK'
<1>1. table' = table /\ rows' = rows /\ raced' = raced /\ Prefix(table, table)
  BY DEF Backend, Prefix
<1>2. ASSUME NEW x \in Session
      PROVE  SessionOK(sessions[x], Ids', table', raced', context', stale', quiet')
  <2>1. SessionOK(sessions[x], Ids, table, raced, context, stale, quiet)
    BY DEF DeployInv, SessionsOK
  <2>2. \A i \in Ids : quiet[i] \in Nat
    BY IdsNumbered
  <2> QED BY <1>1, <2>1, <2>2, SessionKept
<1>3. RowsOK'
  BY <1>1 DEF DeployInv, RowsOK, OneRowPerAutomation
<1> QED BY <1>2, <1>3 DEF SessionsOK

\* The cache's promise survives as automations only get quiet later.
LEMMA CacheLater ==
    ASSUME DeployInv, cache' = cache, Ids' = Ids, now' \in Nat, now <= now',
           \A i \in Ids : quiet'[i] \in Nat /\ quiet[i] <= quiet'[i]
    PROVE  CacheOK'
<1> SUFFICES ASSUME cache # NoCache
             PROVE  /\ cache.until <= now' + CacheTTL /\ DOMAIN cache.statuses \subseteq Ids
                    /\ \A i \in Ids :
                          (i \in DOMAIN cache.statuses => cache.statuses[i] = "inactive") =>
                              cache.until <= quiet'[i] + CacheTTL
  BY DEF CacheOK
<1>1. /\ cache.until <= now + CacheTTL /\ DOMAIN cache.statuses \subseteq Ids
      /\ \A i \in Ids :
            (i \in DOMAIN cache.statuses => cache.statuses[i] = "inactive") =>
                cache.until <= quiet[i] + CacheTTL
  BY DEF DeployInv, CacheOK
<1>2. cache.until \in Nat /\ now \in Nat /\ \A i \in Ids : quiet[i] \in Nat
  BY IdsNumbered DEF DeployInv, TypeOK
<1>3. ASSUME NEW i \in Ids, i \in DOMAIN cache.statuses => cache.statuses[i] = "inactive"
      PROVE  cache.until <= quiet'[i] + CacheTTL
  <2>1. PICK a, b \in Nat : a = quiet[i] /\ b = quiet'[i] /\ a <= b
    BY <1>2
  <2>2. cache.until <= a + CacheTTL
    BY <1>1, <1>3, <2>1
  <2> QED BY <1>2, <2>1, <2>2
<1> QED BY <1>1, <1>2, <1>3

\* An automation that is toggled is quiet at that moment.
LEMMA ToggleKeeps ==
    ASSUME DeployInv, NEW id \in Ids, setAutomationActive(id) PROVE DeployInv'
<1>1. /\ context' = context /\ stale' = stale /\ UNCHANGED Backend /\ now' = now
      /\ sessions' = sessions /\ Event /\ quiet' = [quiet EXCEPT ![id] = now]
      /\ automations' = [automations EXCEPT ![id].active = ~@]
      /\ table' = table /\ rows' = rows /\ cache' = cache /\ raced' = raced
  BY DEF setAutomationActive, Backend
<1>2. /\ automations[id] \in Automation /\ quiet \in [Ids -> 0 .. now] /\ now \in Nat
      /\ \A i \in Ids : quiet[i] \in Nat /\ quiet[i] <= now
  BY IdsNumbered
<1>3. PICK a : a = [automations[id] EXCEPT !.active = ~@]
  OBVIOUS
<1>4. a \in Automation /\ a.slots = automations[id].slots
  BY <1>2, <1>3 DEF Automation
<1>5. automations' = [automations EXCEPT ![id] = a]
  BY <1>1, <1>3
<1>6. automations' \in Seq(Automation) /\ Len(automations') = Len(automations)
  BY <1>4, <1>5, ExceptSeq, IdsNumbered DEF DeployInv, TypeOK
<1>7. /\ Ids' = Ids /\ automations'[id] = a
      /\ \A i \in Ids \ {id} : automations'[i] = automations[i]
  BY <1>5 DEF Ids
<1>8. /\ quiet' \in [Ids -> 0 .. now] /\ quiet'[id] = now
      /\ \A i \in Ids \ {id} : quiet'[i] = quiet[i]
  BY <1>1, <1>2
<1>9. \A i \in Ids : quiet'[i] \in Nat /\ quiet[i] <= quiet'[i]
  BY <1>2, <1>8
<1>10. Counted
  BY <1>1, EventCounted
<1>11. TypeOK'
  BY <1>1, <1>6, <1>7, <1>8, <1>10 DEF DeployInv, TypeOK, Counted
<1>12. SessionsOK' /\ RowsOK'
  BY <1>1, <1>7, <1>9, OthersKeep
<1>13. CacheOK'
  BY <1>1, <1>2, <1>7, <1>9, CacheLater
<1>14. SlotsOK'
  BY <1>1, <1>4, <1>7 DEF DeployInv, SlotsOK
<1>15. QuietNow'
  BY <1>1, <1>7, <1>8 DEF DeployInv, QuietNow
<1> QED BY <1>11, <1>12, <1>13, <1>14, <1>15 DEF DeployInv

\* A run moves schedules on and resizes nothing.
LEMMA ExecuteKeeps ==
    ASSUME DeployInv, NEW id \in Ids, executeAutomation(id) PROVE DeployInv'
<1>1. /\ automations' = automations /\ stale' = stale /\ quiet' = quiet /\ UNCHANGED Backend
      /\ now' = now /\ sessions' = sessions /\ Event /\ Ids' = Ids
      /\ table' = table /\ rows' = rows /\ cache' = cache /\ raced' = raced
  BY DEF executeAutomation, Backend, Ids
<1>2. PICK slots : context' = [i \in DOMAIN context |->
                                 IF i \in slots /\ context[i] > 0 THEN context[i] + 1 ELSE context[i]]
  BY DEF executeAutomation
<1>3. context \in Seq(Nat)
  BY DEF DeployInv, TypeOK
<1>4. /\ Len(context) \in Nat /\ DOMAIN context = 1 .. Len(context)
      /\ \A i \in DOMAIN context : context[i] \in Nat
  BY <1>3, LenProperties, ElementOfSeq
<1>5. context' \in [1 .. Len(context) -> Nat] /\ DOMAIN context' = DOMAIN context
  BY <1>2, <1>4
<1>6. context' \in Seq(Nat)
  BY <1>4, <1>5
<1>7. Counted
  BY <1>1, EventCounted
<1>8. TypeOK'
  BY <1>1, <1>6, <1>7 DEF DeployInv, TypeOK, Counted
<1>9. \A i \in Ids : quiet'[i] \in Nat /\ quiet[i] <= quiet'[i]
  BY <1>1, IdsNumbered
<1>10. SessionsOK' /\ RowsOK'
  BY <1>1, <1>5, <1>9, OthersKeep
<1>11. SlotsOK' /\ QuietNow' /\ CacheOK'
  BY <1>1, <1>5 DEF DeployInv, SlotsOK, SlotsFit, QuietNow, CacheOK
<1> QED BY <1>8, <1>10, <1>11 DEF DeployInv

\* Time passes: what is inactive stays quiet.
LEMMA TickKeeps ==
    ASSUME DeployInv, tick PROVE DeployInv'
<1>1. /\ context' = context /\ automations' = automations /\ stale' = stale /\ UNCHANGED Backend
      /\ sessions' = sessions /\ used' = used /\ Ids' = Ids /\ now' = now + 1 /\ now < MaxTime
      /\ table' = table /\ rows' = rows /\ cache' = cache /\ raced' = raced
      /\ quiet' = Quiet(automations, now')
  BY DEF tick, Backend, Ids
<1>2. /\ now \in Nat /\ now' \in Nat /\ now' \in 0 .. MaxTime /\ now <= now'
      /\ \A i \in Ids : quiet[i] \in Nat /\ quiet[i] <= now
  BY <1>1, IdsNumbered
<1>3. quiet' = [i \in Ids |-> IF automations[i].active THEN quiet[i] ELSE now']
  BY <1>1 DEF Quiet, Ids
<1>4. \A i \in Ids : quiet'[i] \in Nat /\ quiet[i] <= quiet'[i] /\ quiet'[i] <= now'
  BY <1>1, <1>2, <1>3
<1>5. quiet' \in [Ids -> 0 .. now']
  BY <1>2, <1>3, <1>4
<1>6. TypeOK'
  BY <1>1, <1>2, <1>5 DEF DeployInv, TypeOK
<1>7. SessionsOK' /\ RowsOK'
  BY <1>1, <1>4, OthersKeep
<1>8. CacheOK'
  BY <1>1, <1>2, <1>4, CacheLater
<1>9. SlotsOK' /\ QuietNow'
  BY <1>1, <1>3 DEF DeployInv, SlotsOK, QuietNow
<1> QED BY <1>6, <1>7, <1>8, <1>9 DEF DeployInv

-----------------------------------------------------------------------------
(* Theorems.                                                               *)

\* The invariant holds of a vault without automations.
LEMMA DeployStarts ==
    ASSUME Init PROVE DeployInv
<1>1. /\ table = <<>> /\ context = <<>> /\ automations = <<>> /\ cache = NoCache /\ now = 0
      /\ sessions = [s \in Session |-> Idle] /\ quiet = <<>>
      /\ rows = [r \in Row |-> [there |-> TRUE, id |-> NoId, ownerOnly |-> FALSE]]
      /\ used = [deploys |-> 0, events |-> 0] /\ raced = FALSE /\ stale = FALSE
  BY DEF Init
<1>2. Ids = {}
  BY <1>1 DEF Ids
<1>3. SessionsOK
  BY <1>1, IdleOK DEF SessionsOK
<1>4. Idle \in SessionState
  <2>1. SessionOK(Idle, {}, <<>>, FALSE, <<>>, FALSE, <<>>)
    BY IdleOK
  <2> QED BY <2>1 DEF SessionOK
<1>5. cache.statuses \in Seq(Status) /\ cache.until \in Nat
  BY <1>1, EmptySeq DEF NoCache
<1>6. used \in [deploys : 0 .. MaxDeploys, events : 0 .. MaxEvents] /\ now \in 0 .. MaxTime
  BY <1>1
<1>7. quiet \in [Ids -> 0 .. now]
  BY <1>1, <1>2
<1>8. rows \in [Row -> DbRow]
  BY <1>1 DEF DbRow
<1>9. TypeOK
  BY <1>1, <1>4, <1>5, <1>6, <1>7, <1>8, EmptySeq DEF TypeOK
<1>10. RowsOK /\ SlotsOK /\ QuietNow /\ CacheOK
  BY <1>1, <1>2 DEF RowsOK, OneRowPerAutomation, SlotsOK, QuietNow, CacheOK
<1> QED BY <1>3, <1>9, <1>10 DEF DeployInv

\* Every step keeps it.
LEMMA DeployStays ==
    ASSUME DeployInv, [Next]_vars PROVE DeployInv'
<1>1. CASE UNCHANGED vars
  <2>1. /\ context' = context /\ automations' = automations /\ stale' = stale /\ quiet' = quiet
        /\ table' = table /\ rows' = rows /\ cache' = cache /\ raced' = raced /\ now' = now
        /\ sessions' = sessions /\ used' = used /\ Ids' = Ids
    BY <1>1 DEF vars, Ids
  <2> QED BY <2>1 DEF DeployInv, TypeOK, RowsOK, OneRowPerAutomation, SlotsOK, QuietNow, CacheOK, SessionsOK
<1>2. CASE \E s \in Session : Request(s) \/ abandon(s)
  <2>1. PICK s \in Session : Request(s) \/ abandon(s)
    BY <1>2
  <2> QED BY <2>1, AbandonKeeps, ReconcileKeeps, LinkKeeps, ReadSlotsKeeps, WriteSlotsKeeps,
             ReadContextKeeps, SetContextKeeps, RevertKeeps, CreateKeeps, UpdateKeeps, ConfirmKeeps,
             CheckKeeps, RemoveKeeps DEF Request
<1>3. CASE \E s \in Session, kind \in Kind \ {"none"}, r \in Row : findById(s, kind, r)
  BY <1>3, FindKeeps
<1>4. CASE \E id \in Ids : setAutomationActive(id) \/ executeAutomation(id)
  BY <1>4, ToggleKeeps, ExecuteKeeps
<1>5. CASE pollStatuses \/ tick
  BY <1>5, PollKeeps, TickKeeps
<1> QED BY <1>1, <1>2, <1>3, <1>4, <1>5 DEF Next

\* It holds throughout.
LEMMA DeployInvariant == Spec => []DeployInv
<1>1. Init => DeployInv
  BY DeployStarts
<1>2. DeployInv /\ [Next]_vars => DeployInv'
  BY DeployStays
<1> QED BY <1>1, <1>2, PTL DEF Spec

\* Two variables share a slot only after two encodings overlapped, and every
\* automation finds its slots in the context unless a context write was lost
\* (allocateSlots, buildExpandedContext, setContext).
THEOREM DeployedSlotsSound == Spec => []SlotsSound
<1>1. DeployInv => SlotsSound
  <2> SUFFICES ASSUME DeployInv PROVE SlotsSound
    OBVIOUS
  <2>1. ASSUME ~raced, NEW i \in Ids, NEW j \in Ids,
               NEW p \in automations[i].slots, NEW q \in automations[j].slots, p[2] = q[2]
        PROVE  p[1] = q[1]
    BY <2>1 DEF DeployInv, SlotsOK, SlotsIn
  <2>2. ASSUME ~stale, NEW i \in Ids, NEW p \in automations[i].slots PROVE p[2] \in DOMAIN context
    BY <2>2 DEF DeployInv, SlotsOK, SlotsFit
  <2> QED BY <2>1, <2>2 DEF SlotsSound
<1> QED BY <1>1, DeployInvariant, PTL

\* However confirmations and reconciliations race, no two rows are linked to one
\* automation (linkDraft, confirmDeployment and the unique index).
THEOREM RowsLinkedOnce == Spec => [](TypeOK /\ OneRowPerAutomation)
<1>1. DeployInv => TypeOK /\ OneRowPerAutomation
  BY DEF DeployInv, RowsOK
<1> QED BY <1>1, DeployInvariant, PTL

\* A public automation's row goes only if the automation was quiet less than
\* CACHE_TTL before the check, or could not be read (getStatuses, remove).
THEOREM DeletionsWereQuiet == Spec => DeletedWasQuiet
<1> DEFINE A == \A s \in Session :
                  At(s, "remove") /\ sessions'[s].pc = "idle" /\ rows' # rows
                  /\ sessions[s].found.id # NoId /\ ~sessions[s].found.ownerOnly =>
                      \/ sessions[s].status = "unread"
                      \/ quiet[sessions[s].found.id] + CacheTTL > sessions[s].at
<1>1. DeployInv => A
  BY DEF DeployInv, SessionsOK, SessionOK, RemovalOK, At
<1>2. DeployInv /\ [Next]_vars => [A]_vars
  BY <1>1
<1>3. DeletedWasQuiet <=> [][A]_vars
  BY DEF DeletedWasQuiet
<1> HIDE DEF A
<1> QED BY <1>2, <1>3, DeployInvariant, PTL DEF Spec

\* A deployment that writes over the context it has read changes only its own
\* start times (buildExpandedContext).
THEOREM DeploysKeepSchedules == Spec => DeployKeepsSchedules
<1> DEFINE A == \A s \in Session :
                  At(s, "setContext") /\ sessions[s].base = context /\ context' # context
                  /\ sessions'[s].pc = "send" =>
                      \A i \in DOMAIN context :
                          \/ i \in DOMAIN context' /\ context'[i] = context[i]
                          \/ \E n \in Graph[Row_(s)].starts : <<n, i>> \in SlotsOf(sessions[s].tbl, Row_(s))
<1>1. DeployInv /\ [Next]_vars => [A]_vars
  <2> SUFFICES ASSUME DeployInv, Next, NEW s \in Session, At(s, "setContext"),
                      sessions[s].base = context, context' # context, sessions'[s].pc = "send",
                      NEW i \in DOMAIN context
               PROVE  \/ i \in DOMAIN context' /\ context'[i] = context[i]
                      \/ \E n \in Graph[Row_(s)].starts : <<n, i>> \in SlotsOf(sessions[s].tbl, Row_(s))
    OBVIOUS
  <2>1. sessions \in [Session -> SessionState] /\ sessions[s].pc = "setContext"
    BY DEF DeployInv, TypeOK, At
  <2>2. ASSUME sessions' = sessions PROVE FALSE
    BY <2>1, <2>2
  <2>3. ~(\E id \in Ids : setAutomationActive(id) \/ executeAutomation(id)) /\ ~pollStatuses /\ ~tick
    BY <2>2 DEF setAutomationActive, executeAutomation, pollStatuses, tick
  <2>4. ASSUME NEW x \in Session, setContext(x) PROVE x = s
    BY <2>1, <2>4 DEF setContext, Goto, Becomes
  <2>5. setContext(s)
    BY <2>3, <2>4 DEF Next, Request, tryReconcile, linkDraft, readSlots, writeSlots, readContext,
       setContextReverts, createAutomation, updateAutomationSteps, confirmDeployment, checkStatus,
       remove, abandon, findById, Chain
  <2>6. /\ DOMAIN context \subseteq DOMAIN context'
        /\ \/ context'[i] = context[i]
           \/ \E p \in SlotsOf(sessions[s].tbl, sessions[s].row) :
                 p[2] = i /\ p[1] \in Graph[sessions[s].row].starts
    BY <2>5, ContextWritten
  <2>7. CASE context'[i] = context[i]
    BY <2>6, <2>7
  <2>8. CASE \E p \in SlotsOf(sessions[s].tbl, sessions[s].row) :
                 p[2] = i /\ p[1] \in Graph[sessions[s].row].starts
    <3>1. PICK p \in SlotsOf(sessions[s].tbl, sessions[s].row) :
                 p[2] = i /\ p[1] \in Graph[sessions[s].row].starts
      BY <2>8
    <3>2. p = <<p[1], i>>
      BY <3>1 DEF SlotsOf
    <3> QED BY <3>1, <3>2 DEF Row_
  <2> QED BY <2>6, <2>7, <2>8
<1>2. DeployKeepsSchedules <=> [][A]_vars
  BY DEF DeployKeepsSchedules
<1> HIDE DEF A
<1> QED BY <1>1, <1>2, DeployInvariant, PTL DEF Spec

---------------------------------------------------------------------------
HIDE DeployAssumption DEF NoId

(* The table of executions.  What it shows may be old, and a read that was   *)
(* overtaken may come late: the invariant follows the newest read.           *)

StoredRow == [kind : RowKind, time : 1 .. MaxRows]

\* What a read may bring.
PageRows == {<<>>} \cup {getExecutions(h, p, f) : h \in Seq(StoredRow), p \in Int, f \in BOOLEAN}

QueryType == [page : Int, filter : BOOLEAN, rows : PageRows, asOf : Int, old : BOOLEAN]
ViewType == [page : Int, filter : BOOLEAN, rows : PageRows, asOf : Int, old : BOOLEAN,
             total : Nat, error : BOOLEAN, loading : BOOLEAN]

HistoryTypes ==
    /\ history \in Seq(StoredRow)
    /\ shownPage \in Int /\ filter \in BOOLEAN
    /\ queries \in Seq(QueryType)
    /\ view \in ViewType
    /\ met \in 0 .. Len(history)

\* What was read is a page of the rows that were stored then.
AnswerOK(x) ==
    /\ x.asOf \in 0 .. Len(history)
    /\ x.rows = getExecutions(First(x.asOf), x.page, x.filter)

AnswersOK ==
    /\ \A i \in DOMAIN queries : queries[i].asOf # Unanswered => AnswerOK(queries[i])
    /\ ~view.old => AnswerOK(view)

\* The newest read is under way, and no newer one was answered before.
Pending == queries # <<>> /\ ~queries[Len(queries)].old

\* It is the read of what the page asks for; of what was stored after it, the page
\* has been told, or is to be, or nobody was.
Newest(x) ==
    /\ x.page = shownPage /\ x.filter = filter
    /\ x.asOf # Unanswered =>
          /\ x.asOf + 1 .. Len(history) \subseteq silent \cup unsent \cup pushes
          /\ socket = "up" => met <= x.asOf

NewestOK ==
    /\ Pending => Newest(queries[Len(queries)])
    /\ ~Pending =>
          /\ \A i \in DOMAIN queries : queries[i].old
          /\ view.old \/ view.error \/ Newest(view)

LiveInv == HistoryTypes /\ AnswersOK /\ NewestOK

---------------------------------------------------------------------------

LEMMA LiveStart == HistoryInit => LiveInv
<1> SUFFICES ASSUME HistoryInit PROVE LiveInv
  OBVIOUS
<1>1. Query(1, FALSE) \in QueryType
  BY DEF Query, QueryType, PageRows, Unanswered
<1>2. view \in ViewType
  BY DEF HistoryInit, ViewType, PageRows
<1>3. HistoryTypes
  <2>0. \A q \in QueryType : <<q>> \in Seq(QueryType)
    OBVIOUS
  <2>1. queries \in Seq(QueryType)
    BY <1>1, <2>0, Zenon DEF HistoryInit
  <2>2. history \in Seq(StoredRow) /\ Len(history) = 0 /\ met = 0
    BY DEF HistoryInit
  <2>3. shownPage \in Int /\ filter \in BOOLEAN
    <3>1. shownPage \in Int
      BY DEF HistoryInit
    <3>2. filter \in BOOLEAN
      BY Zenon DEF HistoryInit
    <3> QED
      BY <3>1, <3>2
  <2> QED
    BY <1>2, <2>1, <2>2, <2>3 DEF HistoryTypes
<1>4. AnswersOK
  BY DEF HistoryInit, AnswersOK, Query, Unanswered
<1>5. NewestOK
  BY DEF HistoryInit, NewestOK, Pending, Newest, Query, Unanswered
<1> QED
  BY <1>3, <1>4, <1>5 DEF LiveInv

\* A row that is added changes none of the first rows.
LEMMA FirstStays ==
    ASSUME history \in Seq(StoredRow), NEW x \in StoredRow, history' = Append(history, x),
           NEW n \in 0 .. Len(history)
    PROVE  First(n)' = First(n)
  BY DEF First

\* A new read asks for what the page shows from now on.
LEMMA ReadsAnew ==
    ASSUME LiveInv, NEW p \in Int, NEW filtered \in BOOLEAN, fetchHistory(p, filtered),
           UNCHANGED history, met' \in 0 .. Len(history)
    PROVE  LiveInv'
<1> DEFINE q == Query(p, filtered)
<1> USE DEF LiveInv, HistoryTypes
<1>1. q \in QueryType /\ q.asOf = Unanswered /\ ~q.old /\ q.page = p /\ q.filter = filtered
  BY DEF Query, QueryType, PageRows, Unanswered
<1>2. queries' = Append(queries, q) /\ shownPage' = p /\ filter' = filtered
  BY DEF fetchHistory
<1> HIDE DEF q
<1>3. view' \in ViewType /\ view'.old = view.old /\ view'.asOf = view.asOf
      /\ view'.rows = view.rows /\ view'.page = view.page /\ view'.filter = view.filter
  BY DEF fetchHistory, ViewType
<1>4. HistoryTypes'
  BY <1>1, <1>2, <1>3
<1>5. AnswersOK'
  <2>1. \A i \in DOMAIN queries' : queries'[i].asOf # Unanswered => i \in DOMAIN queries /\ queries'[i] = queries[i]
    BY <1>1, <1>2
  <2> QED
    BY <1>3, <2>1 DEF AnswersOK, AnswerOK, First
<1>6. queries'[Len(queries')] = q /\ queries' # <<>>
  BY <1>1, <1>2
<1>7. NewestOK'
  BY <1>1, <1>2, <1>6 DEF NewestOK, Pending, Newest
<1> QED
  BY <1>4, <1>5, <1>7

LEMMA persistKeeps ==
    ASSUME LiveInv, NEW kind \in RowKind, NEW time \in 1 .. MaxRows, persist(kind, time)
    PROVE  LiveInv'
<1> USE DEF LiveInv, HistoryTypes
<1> DEFINE x == [kind |-> kind, time |-> time]
<1>1. x \in StoredRow /\ history' = Append(history, x)
  BY DEF StoredRow, persist
<1>2. UNCHANGED <<socket, pushes, shownPage, filter, queries, view, met>>
  BY DEF persist
<1> HIDE DEF x
<1>3. history' \in Seq(StoredRow) /\ Len(history') = Len(history) + 1
  BY <1>1
<1>4. \A n \in 0 .. Len(history) : First(n)' = First(n)
  BY <1>1, FirstStays
<1>5. silent \cup unsent \cup {Len(history')} \subseteq silent' \cup unsent'
  BY DEF persist
<1>6. HistoryTypes'
  BY <1>2, <1>3
<1>7. AnswersOK'
  BY <1>2, <1>3, <1>4 DEF AnswersOK, AnswerOK
<1>8. ASSUME NEW v, v.asOf \in Int, Newest(v), v' = v
      PROVE  Newest(v)'
  BY <1>2, <1>3, <1>5, <1>8 DEF Newest
<1>9. NewestOK'
  <2>1. Pending => queries[Len(queries)] \in QueryType
    BY DEF Pending
  <2>2. Pending => Newest(queries[Len(queries)])'
    BY <1>2, <1>3, <1>5, <2>1 DEF Newest, NewestOK, QueryType
  <2>3. Newest(view) => Newest(view)'
    BY <1>2, <1>3, <1>5 DEF Newest, ViewType
  <2> QED
    BY <1>2, <2>2, <2>3 DEF NewestOK, Pending
<1> QED
  BY <1>6, <1>7, <1>9

\* The page is told, or nobody is: what the newest read lacks stays accounted for.
LEMMA TellingKeeps ==
    ASSUME LiveInv, UNCHANGED <<history, shownPage, filter, queries, view, met>>,
           silent \cup unsent \cup pushes \subseteq silent' \cup unsent' \cup pushes',
           socket' = "up" => socket = "up"
    PROVE  LiveInv'
<1>1. HistoryTypes' /\ AnswersOK'
  BY DEF LiveInv, HistoryTypes, AnswersOK, AnswerOK, First
<1>2. NewestOK'
  BY DEF LiveInv, NewestOK, Pending, Newest
<1> QED
  BY <1>1, <1>2 DEF LiveInv

LEMMA answerKeeps ==
    ASSUME LiveInv, NEW i \in DOMAIN queries, answer(i)
    PROVE  LiveInv'
<1> USE DEF LiveInv, HistoryTypes
<1> DEFINE brought == getExecutions(history, queries[i].page, queries[i].filter)
<1>1. UNCHANGED <<history, silent, unsent, socket, pushes, shownPage, filter, view, met>>
  BY DEF answer
<1>2. queries[i] \in QueryType /\ brought \in PageRows /\ Len(history) \in Int
  <2>1. queries[i] \in QueryType
    OBVIOUS
  <2>2. queries[i].page \in Int /\ queries[i].filter \in BOOLEAN
    BY <2>1 DEF QueryType
  <2>3. brought \in PageRows
    BY <2>2 DEF PageRows
  <2> QED
    BY <2>1, <2>3
<1>3. queries' = [queries EXCEPT ![i] = [queries[i] EXCEPT !.asOf = Len(history), !.rows = brought]]
  BY DEF answer
<1> HIDE DEF brought
<1>4. /\ queries' \in Seq(QueryType) /\ Len(queries') = Len(queries)
      /\ DOMAIN queries' = DOMAIN queries
      /\ \A j \in DOMAIN queries : j # i => queries'[j] = queries[j]
      /\ queries'[i].page = queries[i].page /\ queries'[i].filter = queries[i].filter
      /\ queries'[i].old = queries[i].old
      /\ queries'[i].asOf = Len(history) /\ queries'[i].rows = brought
  <2> DEFINE q == [queries[i] EXCEPT !.asOf = Len(history), !.rows = brought]
  <2>1. /\ q \in QueryType /\ q.page = queries[i].page /\ q.filter = queries[i].filter
        /\ q.old = queries[i].old /\ q.asOf = Len(history) /\ q.rows = brought
    BY <1>2 DEF QueryType
  <2>2. queries' = [queries EXCEPT ![i] = q]
    BY <1>3
  <2> HIDE DEF q
  <2> QED
    BY <2>1, <2>2
<1>5. SubSeq(history, 1, Len(history)) = history
  OBVIOUS
<1>6. HistoryTypes'
  BY <1>1, <1>4
<1>7. AnswersOK'
  <2>1. AnswerOK(queries[i])'
    <3>1. queries'[i].rows = getExecutions(SubSeq(history', 1, queries'[i].asOf), queries'[i].page, queries'[i].filter)
      BY <1>1, <1>4, <1>5, Zenon DEF brought
    <3>2. queries'[i].asOf \in 0 .. Len(history')
      BY <1>1, <1>4
    <3> QED
      BY <3>1, <3>2, Zenon DEF AnswerOK, First
  <2>2. \A j \in DOMAIN queries : AnswerOK(queries[j]) /\ j # i => AnswerOK(queries[j])'
    BY <1>1, <1>4 DEF AnswerOK, First
  <2>3. AnswerOK(view) => AnswerOK(view)'
    BY <1>1 DEF AnswerOK, First
  <2> QED
    BY <1>1, <1>4, <2>1, <2>2, <2>3 DEF AnswersOK
<1>8. NewestOK'
  <2>1. Pending' = Pending /\ (\A j \in DOMAIN queries' : queries'[j].old = queries[j].old)
    BY <1>4 DEF Pending
  <2>2. ASSUME Pending PROVE Newest(queries[Len(queries)])'
    <3>1. CASE i = Len(queries)
      BY <1>1, <1>4, <2>2, <3>1 DEF NewestOK, Newest
    <3>2. CASE i # Len(queries)
      BY <1>1, <1>4, <2>2, <3>2 DEF NewestOK, Newest, Pending
    <3> QED
      BY <3>1, <3>2
  <2>3. Newest(view) => Newest(view)'
    BY <1>1 DEF Newest
  <2> QED
    BY <1>1, <1>4, <2>1, <2>2, <2>3 DEF NewestOK
<1> QED
  BY <1>6, <1>7, <1>8

\* What is left of the reads when the i-th has arrived or failed: those before it are
\* old, the newest of the rest is as it was unless it is the i-th.
LEMMA LeftIs ==
    ASSUME LiveInv, NEW i \in DOMAIN queries, queries' = Left(i), UNCHANGED history
    PROVE  /\ queries' \in Seq(QueryType)
           /\ \A j \in DOMAIN queries' : queries'[j].asOf # Unanswered => AnswerOK(queries[j])'
           /\ Pending' => /\ i # Len(queries) /\ Pending
                          /\ queries'[Len(queries')] = queries[Len(queries)]
           /\ ~Pending' => \A j \in DOMAIN queries' : queries'[j].old
           /\ i # Len(queries) /\ Pending => Pending'
<1> USE DEF LiveInv, HistoryTypes
<1> DEFINE n == Len(queries)
<1>1. n \in Nat /\ n >= 1 /\ i \in 1 .. n
  OBVIOUS
<1>2. /\ DOMAIN queries' = 1 .. n - 1
      /\ \A j \in 1 .. n - 1 : queries'[j] = IF j < i THEN [queries[j] EXCEPT !.old = TRUE] ELSE queries[j + 1]
  BY DEF Left
<1>3. \A j \in 1 .. n : queries[j] \in QueryType
  OBVIOUS
<1>4. ASSUME NEW j \in 1 .. n - 1, j < i
      PROVE  /\ queries'[j] \in QueryType /\ queries'[j].old
             /\ queries'[j].asOf = queries[j].asOf /\ queries'[j].rows = queries[j].rows
             /\ queries'[j].page = queries[j].page /\ queries'[j].filter = queries[j].filter
  <2>1. queries[j] \in QueryType /\ queries'[j] = [queries[j] EXCEPT !.old = TRUE]
    BY <1>1, <1>2, <1>3, <1>4
  <2> QED
    BY <2>1 DEF QueryType
<1>5. ASSUME NEW j \in 1 .. n - 1
      PROVE  \E k \in 1 .. n :
               /\ queries'[j] \in QueryType
               /\ queries'[j].asOf = queries[k].asOf /\ queries'[j].rows = queries[k].rows
               /\ queries'[j].page = queries[k].page /\ queries'[j].filter = queries[k].filter
  <2>1. CASE j < i
    BY <1>1, <1>4, <2>1
  <2>2. CASE ~(j < i)
    <3>1. queries'[j] = queries[j + 1] /\ j + 1 \in 1 .. n
      BY <1>1, <1>2, <2>2
    <3> QED
      BY <1>3, <3>1
  <2> QED
    BY <2>1, <2>2
<1>6. queries' \in Seq(QueryType) /\ Len(queries') = n - 1
  <2>1. queries' \in [1 .. n - 1 -> QueryType]
    BY <1>2, <1>5 DEF Left
  <2> QED
    BY <1>1, <2>1
<1>7. ASSUME NEW j \in DOMAIN queries', queries'[j].asOf # Unanswered
      PROVE  AnswerOK(queries[j])'
  <2>1. PICK k \in 1 .. n :
               /\ queries'[j].asOf = queries[k].asOf /\ queries'[j].rows = queries[k].rows
               /\ queries'[j].page = queries[k].page /\ queries'[j].filter = queries[k].filter
    BY <1>2, <1>5
  <2>2. AnswerOK(queries[k])
    BY <1>7, <2>1 DEF AnswersOK
  <2> QED
    BY <2>1, <2>2 DEF AnswerOK, First
<1>8. CASE i = n
  <2>1. \A j \in DOMAIN queries' : queries'[j].old
    BY <1>1, <1>2, <1>4, <1>8
  <2>2. ~Pending'
    BY <1>6, <2>1 DEF Pending
  <2> QED
    BY <1>6, <1>7, <1>8, <2>1, <2>2
<1>9. CASE i # n
  <2>1. n - 1 \in 1 .. n - 1 /\ queries'[n - 1] = queries[n] /\ queries' # <<>>
    BY <1>1, <1>2, <1>6, <1>9
  <2>2. Pending' <=> ~queries[n].old
    BY <1>6, <2>1 DEF Pending
  <2>3. Pending <=> ~queries[n].old
    BY <1>1 DEF Pending
  <2>4. ASSUME ~Pending, NEW j \in 1 .. n - 1 PROVE queries'[j].old
    <3>1. \A k \in 1 .. n : queries[k].old
      BY <2>4 DEF NewestOK
    <3>2. CASE j < i
      BY <1>4, <3>2
    <3>3. CASE ~(j < i)
      BY <1>1, <1>2, <3>1, <3>3
    <3> QED
      BY <3>2, <3>3
  <2> QED
    BY <1>2, <1>6, <1>7, <1>9, <2>1, <2>2, <2>3, <2>4
<1> QED
  BY <1>8, <1>9

LEMMA arrivesKeeps ==
    ASSUME LiveInv, NEW i \in DOMAIN queries, arrives(i)
    PROVE  LiveInv'
<1> USE DEF LiveInv, HistoryTypes
<1> DEFINE q == queries[i]
<1>1. /\ UNCHANGED <<history, silent, unsent, socket, pushes, shownPage, filter, met>>
      /\ queries' = Left(i) /\ q \in QueryType /\ q.asOf # Unanswered
  BY DEF arrives
<1>2. AnswerOK(q)
  BY <1>1 DEF AnswersOK
<1>3. PICK counted \in q.asOf .. Len(history) :
         view' = [view EXCEPT !.page = q.page, !.filter = q.filter, !.rows = q.rows,
                              !.asOf = q.asOf, !.old = q.old, !.loading = FALSE,
                              !.total = Cardinality(Rows(First(counted), q.filter))]
  BY DEF arrives
<1>4. Cardinality(Rows(First(counted), q.filter)) \in Nat
  <2>1. counted \in 0 .. Len(history)
    BY <1>2 DEF AnswerOK
  <2>2. First(counted) \in Seq(StoredRow) /\ Len(First(counted)) = counted
    BY <2>1 DEF First
  <2>3. Rows(First(counted), q.filter) \subseteq 1 .. counted
    BY <2>2 DEF Rows
  <2>4. IsFiniteSet(1 .. counted)
    BY <2>1, FS_Interval
  <2> QED
    BY <2>3, <2>4, FS_Subset, FS_CardinalityType
<1>5. /\ view' \in ViewType /\ view'.page = q.page /\ view'.filter = q.filter
      /\ view'.rows = q.rows /\ view'.asOf = q.asOf /\ view'.old = q.old
  <2>1. /\ q.page \in Int /\ q.filter \in BOOLEAN /\ q.rows \in PageRows /\ q.asOf \in Int
        /\ q.old \in BOOLEAN
    BY <1>1 DEF QueryType
  <2> QED
    BY <1>3, <1>4, <2>1 DEF ViewType
<1> HIDE DEF q
<1>6. HistoryTypes'
  BY <1>1, <1>5, LeftIs
<1>7. AnswersOK'
  <2>1. AnswerOK(view)'
    BY <1>1, <1>2, <1>5 DEF AnswerOK, First
  <2> QED
    BY <1>1, <2>1, LeftIs DEF AnswersOK
<1>8. NewestOK'
  <2>1. CASE Pending'
    BY <1>1, <2>1, LeftIs DEF NewestOK, Newest
  <2>2. CASE ~Pending' /\ i = Len(queries) /\ Pending
    <3>1. Newest(queries[i])
      BY <2>2 DEF NewestOK
    <3>2. Newest(view)'
      BY <1>1, <1>5, <3>1 DEF Newest, q
    <3> QED
      BY <1>1, <2>2, <3>2, LeftIs DEF NewestOK
  <2>3. CASE ~Pending' /\ ~Pending
    <3>1. q.old
      BY <2>3 DEF NewestOK, q
    <3> QED
      BY <1>1, <1>5, <2>3, <3>1, LeftIs DEF NewestOK
  <2> QED
    BY <1>1, <2>1, <2>2, <2>3, LeftIs
<1> QED
  BY <1>6, <1>7, <1>8

LEMMA failsToLoadKeeps ==
    ASSUME LiveInv, NEW i \in DOMAIN queries, failsToLoad(i)
    PROVE  LiveInv'
<1> USE DEF LiveInv, HistoryTypes
<1>1. /\ UNCHANGED <<history, silent, unsent, socket, pushes, shownPage, filter, met>>
      /\ queries' = Left(i)
  BY DEF failsToLoad
<1>2. /\ view' \in ViewType /\ view'.error /\ view'.page = view.page /\ view'.filter = view.filter
      /\ view'.rows = view.rows /\ view'.asOf = view.asOf /\ view'.old = view.old
  BY DEF failsToLoad, ViewType
<1>3. HistoryTypes'
  BY <1>1, <1>2, LeftIs
<1>4. AnswersOK'
  BY <1>1, <1>2, LeftIs DEF AnswersOK, AnswerOK, First
<1>5. NewestOK'
  BY <1>1, <1>2, LeftIs DEF NewestOK, Newest
<1> QED
  BY <1>3, <1>4, <1>5

LEMMA LiveKeeps == LiveInv /\ [HistoryNext]_historyVars => LiveInv'
<1> SUFFICES ASSUME LiveInv, [HistoryNext]_historyVars PROVE LiveInv'
  OBVIOUS
<1>0. shownPage \in Int /\ filter \in BOOLEAN /\ met \in 0 .. Len(history) /\ Len(history) \in Nat
  BY DEF LiveInv, HistoryTypes
<1>1. ASSUME NEW kind \in RowKind, NEW time \in 1 .. MaxRows, persist(kind, time) PROVE LiveInv'
  BY <1>1, persistKeeps
<1>2. CASE emit
  BY <1>2, TellingKeeps DEF emit
<1>3. CASE onSubscribe
  BY <1>3, TellingKeeps DEF onSubscribe
<1>4. CASE subscribeAndSync
  BY <1>0, <1>4, ReadsAnew DEF subscribeAndSync
<1>5. CASE onDisconnect
  BY <1>5, TellingKeeps DEF onDisconnect
<1>6. CASE onExecution
  BY <1>0, <1>6, ReadsAnew DEF onExecution
<1>7. CASE poll \/ retry
  BY <1>0, <1>7, ReadsAnew DEF poll, retry
<1>8. CASE turnPage
  BY <1>0, <1>8, ReadsAnew DEF turnPage
<1>9. CASE setFilter
  <2>1. (~filter) \in BOOLEAN
    <3>1. CASE filter
      BY <3>1, SMT
    <3>2. CASE ~filter
      BY <3>2, SMT
    <3> QED
      BY <3>1, <3>2
  <2> QED
    <3>1. fetchHistory(1, ~filter) /\ history' = history /\ met' = met
      BY <1>9, Zenon DEF setFilter
    <3>2. 1 \in Int /\ met' \in 0 .. Len(history)
      BY <1>0, <3>1
    <3> QED
      BY <2>1, <3>1, <3>2, ReadsAnew, Zenon
<1>10. ASSUME NEW i \in DOMAIN queries, answer(i) \/ arrives(i) \/ failsToLoad(i) PROVE LiveInv'
  BY <1>10, answerKeeps, arrivesKeeps, failsToLoadKeeps
<1>11. CASE UNCHANGED historyVars
  BY <1>11, TellingKeeps DEF historyVars
<1> QED
  BY <1>1, <1>2, <1>3, <1>4, <1>5, <1>6, <1>7, <1>8, <1>9, <1>10, <1>11 DEF HistoryNext

\* A table at rest shows its page of the rows as they were stored at one instant, and
\* lacks only what nobody was told of (execution-history-table.tsx).
THEOREM TableTellsTruth == HistorySpec => []HistoryTellsTruth
<1>1. LiveInv => HistoryTellsTruth
  <2> SUFFICES ASSUME LiveInv, Settled, ~view.old PROVE
        /\ view.page = shownPage /\ view.filter = filter
        /\ view.rows = getExecutions(First(view.asOf), shownPage, filter)
        /\ view.asOf + 1 .. Len(history) \subseteq silent
        /\ socket = "up" => met <= view.asOf
    BY DEF HistoryTellsTruth
  <2>1. Newest(view) /\ AnswerOK(view)
    BY DEF Settled, LiveInv, NewestOK, Pending, AnswersOK
  <2>2. view.asOf # Unanswered
    BY <2>1 DEF AnswerOK, Unanswered
  <2> QED
    BY <2>1, <2>2 DEF Newest, AnswerOK, Settled
<1> QED
  BY <1>1, LiveStart, LiveKeeps, PTL DEF HistorySpec

---------------------------------------------------------------------------
(* Money through the browser: what a run that nothing crossed has done so far, *)
(* which transactions it waits for, and what the gas card has or is to get.    *)

LedgerType == [wallet : Int, allowance : Nat, minimum : Int, reserve : Int, vault : Int, vaults : Int]

\* The plans of a deposit, each the rest of the next.
Deposit1 == <<"deposit">>
Deposit2 == <<"approve", "deposit">>
Deposit3 == <<"reset", "approve", "deposit">>
DepositPlans == {Deposit1, Deposit2, Deposit3}
Plans == {<<f>> : f \in Form} \cup DepositPlans

RunType ==
    [at : {"sign", "wait", "fetch", "register", "done", "failed"}, form : Form, plan : Plans,
     amount : 0 .. Unlimited, tx : {"none", "sent", "ok", "reverted", "late"}, mounted : BOOLEAN,
     shown : Rates, clear : BOOLEAN, before : LedgerType]
TxType == [what : Form \cup {"reset", "approve"}, amount : 0 .. Unlimited, run : SUBSET Run]
Answers == [reserve : Int, minimum : Int]
ReadType == [by : SUBSET Run, answer : Answers, old : BOOLEAN]

FundingTypes ==
    /\ ledger \in LedgerType /\ rates \in Rates /\ strict \in BOOLEAN
    /\ mempool \in Seq(TxType)
    /\ known.allowance \in Int /\ known.rates \in Rates /\ DOMAIN known = {"allowance", "rates"}
    /\ runs \in [Run -> RunType \cup {NoRun}]
    /\ card \in [data : Answers, loading : BOOLEAN, error : BOOLEAN, doubt : BOOLEAN]
    /\ reads \in Seq(ReadType)

---------------------------------------------------------------------------
(* What a clear run has done so far.                                        *)

\* But for the allowance, the ledger is what it was at the click.
Same(run, l) ==
    /\ l.wallet = run.before.wallet /\ l.minimum = run.before.minimum
    /\ l.reserve = run.before.reserve /\ l.vault = run.before.vault
    /\ l.vaults = run.before.vaults

\* The next transaction will be taken.
Ready(run, l, s) ==
    /\ run.form = "deposit" => run.amount <= l.wallet
    /\ run.plan = Deposit1 => run.amount <= l.allowance
    /\ run.plan = Deposit2 /\ s => l.allowance = 0
    /\ run.form \in {"withdraw", "topUp"} => run.amount <= l.vault

\* The promise of its form, kept.
Kept(run, l) ==
    LET b == run.before IN
    /\ run.form = "deposit" =>
          /\ l.wallet = b.wallet - run.amount
          /\ l.vault = b.vault + run.amount - Fee(run.amount, run.shown.deposit)
    /\ run.form = "withdraw" =>
          /\ l.vault = b.vault - run.amount
          /\ l.wallet = b.wallet + run.amount - Fee(run.amount, run.shown.withdraw)
    /\ run.form = "topUp" => l.vault = b.vault - run.amount /\ l.reserve = b.reserve + run.amount
    /\ run.form = "minimum" => l.minimum = run.amount
    /\ run.form = "create" => l.vaults = b.vaults + 1

\* A transaction of it was mined, and was not the last, or was.
Passed(run, l) ==
    /\ run.plan = Deposit3 => Same(run, l) /\ l.allowance = 0 /\ run.amount <= l.wallet
    /\ run.plan = Deposit2 => Same(run, l) /\ l.allowance = Unlimited /\ run.amount <= l.wallet
    /\ run.plan \notin {Deposit2, Deposit3} => Kept(run, l)

Stage(run, l, s) ==
    /\ run.at = "sign" => run.tx = "none" /\ Same(run, l) /\ Ready(run, l, s)
    /\ run.at = "wait" =>
          \/ run.tx = "sent" /\ Same(run, l) /\ Ready(run, l, s)
          \/ run.tx = "ok" /\ Passed(run, l)
          \/ run.tx = "reverted" /\ run.form = "create" /\ Same(run, l)
    /\ run.at = "failed" => Same(run, l)
    /\ run.at \in {"fetch", "register", "done"} => Kept(run, l)

\* Nothing crossed the run, and the rates are those its form has shown.
ClearOK(run, l, s, rt) ==
    run.clear =>
        /\ run.form \in {"deposit", "withdraw"} => run.shown = rt
        /\ (run.at = "failed" /\ run.tx = "late") \/ Stage(run, l, s)

PlanOK(run) ==
    /\ IF run.form = "deposit" THEN run.plan \in DepositPlans ELSE run.plan = <<run.form>>
    /\ run.at = "register" => run.form = "create"

RunsOK ==
    \A r \in Run : runs[r] # NoRun => PlanOK(runs[r]) /\ ClearOK(runs[r], ledger, strict, rates)

\* A transaction whose receipt somebody waits for is that of the run's plan.
Waits(run, tx) ==
    run.at = "wait" /\ run.tx = "sent" /\ tx.what = run.plan[1] /\ tx.amount = run.amount

MempoolOK(pool, rs) ==
    /\ \A i \in DOMAIN pool : \A r \in pool[i].run : Waits(rs[r], pool[i])
    /\ \A i, j \in DOMAIN pool : i # j => pool[i].run \cap pool[j].run = {}

\* A read of the gas card is asked for by the run that waits for it.
ReadersOK(rds, rs) ==
    /\ \A i \in DOMAIN rds : \A r \in rds[i].by : rds[i].by = {r} /\ rs[r].at = "fetch"
    /\ \A i, j \in DOMAIN rds : i # j => rds[i].by \cap rds[j].by = {}

---------------------------------------------------------------------------
(* What the gas card has, and what is coming.                               *)

\* A run of the card has moved the reserve and is about to read it.
Asks(run) == run.at = "wait" /\ run.tx = "ok" /\ run.mounted /\ OnCard(run.form)
SomeAsks(rs) == \E r \in Run : Asks(rs[r])

\* What the read brings will be right.
Good(q, l) == ~q.old /\ q.answer \in {NotRead, Failed, Reserve(l)}

ReadsOK(rds, rs, l) ==
    \A i \in DOMAIN rds :
        rds[i].old \/ Good(rds[i], l) \/ SomeAsks(rs) \/ \E j \in DOMAIN rds : j > i /\ Good(rds[j], l)

CardOK(c, rds, rs, l) ==
    \/ c.data = NoData \/ c.doubt \/ c.error \/ c.data = Reserve(l)
    \/ SomeAsks(rs) \/ \E j \in DOMAIN rds : Good(rds[j], l)

\* Only the card's page reads, and only its forms are on it.
PageOK ==
    /\ page # "card" => reads = <<>> /\ card.data = NoData
    /\ \A r \in Run : runs[r] # NoRun => (OnCard(runs[r].form) <=> page = "card")

CardInv == ReadersOK(reads, runs) /\ ReadsOK(reads, runs, ledger) /\ CardOK(card, reads, runs, ledger) /\ PageOK

FundsInv == FundingTypes /\ RunsOK /\ MempoolOK(mempool, runs) /\ CardInv

---------------------------------------------------------------------------
(* Facts of the definitions.                                                *)

LEMMA PlanParts ==
    /\ Deposit3[1] = "reset" /\ Tail(Deposit3) = Deposit2 /\ Deposit3 # Deposit2 /\ Deposit3 # Deposit1
    /\ Deposit2[1] = "approve" /\ Tail(Deposit2) = Deposit1 /\ Deposit2 # Deposit1
    /\ Deposit1[1] = "deposit" /\ Tail(Deposit1) = <<>>
    /\ Deposit2 # <<>> /\ Deposit1 # <<>>
    /\ \A f \in Form : <<f>>[1] = f /\ Tail(<<f>>) = <<>> /\ <<f>> # Deposit2 /\ <<f>> # Deposit3
    /\ <<"deposit">> = Deposit1
<1>1. Tail(Deposit3) = Deposit2 /\ Tail(Deposit2) = Deposit1 /\ Tail(Deposit1) = <<>>
  BY DEF Deposit1, Deposit2, Deposit3
<1>2. Len(Deposit1) = 1 /\ Len(Deposit2) = 2 /\ Len(Deposit3) = 3
  BY DEF Deposit1, Deposit2, Deposit3
<1>3. Deposit3[1] = "reset" /\ Deposit2[1] = "approve" /\ Deposit1[1] = "deposit"
  BY DEF Deposit1, Deposit2, Deposit3
<1>4. \A f \in Form : <<f>>[1] = f /\ Tail(<<f>>) = <<>> /\ Len(<<f>>) = 1
  OBVIOUS
<1> QED
  BY <1>1, <1>2, <1>3, <1>4 DEF Deposit1

LEMMA RunIs ==
    ASSUME FundingTypes, NEW r \in Run
    PROVE  /\ runs[r] = NoRun \/ runs[r] \in RunType
           /\ runs[r] # NoRun => runs[r] \in RunType
           /\ runs[r].at # "none" => runs[r] \in RunType /\ runs[r] # NoRun
           /\ runs[r] = NoRun => runs[r].at = "none"
  BY DEF FundingTypes, NoRun

LEMMA NoRunIsNone == \A x \in RunType : x # NoRun
  BY DEF RunType, NoRun

LEMMA FeeIsInt == \A amount \in 0 .. Unlimited, q \in Rates :
                     Fee(amount, q.deposit) \in Int /\ Fee(amount, q.withdraw) \in Int
<1> SUFFICES ASSUME NEW amount \in 0 .. Unlimited, NEW q \in Rates
             PROVE  Fee(amount, q.deposit) \in Int /\ Fee(amount, q.withdraw) \in Int
  OBVIOUS
<1>1. amount \in Int /\ q.deposit \in Int /\ q.withdraw \in Int
  BY FundingAssumption DEF Unlimited
<1>2. \A a, b \in Int : a * b \in Int /\ (a * b) \div 10000 \in Int
  <2>1. \A c \in Int : c \div 10000 \in Int
    OBVIOUS
  <2>2. \A a, b \in Int : a * b \in Int
    OBVIOUS
  <2> QED
    BY <2>1, <2>2
<1> QED
  BY <1>1, <1>2 DEF Fee

---------------------------------------------------------------------------
(* Frames.                                                                  *)

LEMMA OneGoes ==
    ASSUME FundsInv, UNCHANGED <<ledger, strict, rates>>,
           NEW r \in Run, NEW x \in RunType, runs' = [runs EXCEPT ![r] = x],
           PlanOK(x), ClearOK(x, ledger, strict, rates)
    PROVE  runs' \in [Run -> RunType \cup {NoRun}] /\ RunsOK'
<1>1. runs' \in [Run -> RunType \cup {NoRun}]
  BY DEF FundsInv, FundingTypes
<1>2. ASSUME NEW q \in Run, runs'[q] # NoRun
      PROVE  PlanOK(runs'[q]) /\ ClearOK(runs'[q], ledger', strict', rates')
  <2>1. CASE q = r
    <3>1. runs'[q] = x
      BY <2>1 DEF FundsInv, FundingTypes
    <3> QED
      BY <3>1
  <2>2. CASE q # r
    <3>1. runs'[q] = runs[q]
      BY <2>2 DEF FundsInv, FundingTypes
    <3>2. PlanOK(runs[q]) /\ ClearOK(runs[q], ledger, strict, rates)
      BY <1>2, <3>1 DEF FundsInv, RunsOK
    <3> QED
      BY <3>1, <3>2
  <2> QED
    BY <2>1, <2>2
<1> QED
  BY <1>1, <1>2 DEF RunsOK

\* Nothing of a run that waits for its transaction is changed.
LEMMA PoolStays ==
    ASSUME FundsInv, UNCHANGED mempool,
           \A q \in Run : runs[q].at = "wait" /\ runs[q].tx = "sent" =>
              /\ runs'[q].at = "wait" /\ runs'[q].tx = "sent"
              /\ runs'[q].plan = runs[q].plan /\ runs'[q].amount = runs[q].amount
    PROVE  MempoolOK(mempool, runs)'
<1>1. \A i \in DOMAIN mempool : mempool[i].run \subseteq Run
  <2>1. \A i \in DOMAIN mempool : mempool[i] \in TxType
    BY DEF FundsInv, FundingTypes
  <2> QED
    BY <2>1 DEF TxType
<1> QED
  BY <1>1 DEF FundsInv, MempoolOK, Waits

LEMMA CardStays ==
    ASSUME FundsInv, UNCHANGED cardVars, Reserve(ledger)' = Reserve(ledger),
           page' = page \/ (page # "card" /\ page' # "card"),
           \A q \in Run : runs[q].at = "fetch" => runs'[q].at = "fetch",
           \A q \in Run : Asks(runs[q]) => Asks(runs'[q]),
           \A q \in Run : runs'[q] # NoRun => (OnCard(runs'[q].form) <=> page = "card")
    PROVE  CardInv'
<1>1. \A i \in DOMAIN reads : reads[i].by \subseteq Run
  <2>1. \A i \in DOMAIN reads : reads[i] \in ReadType
    BY DEF FundsInv, FundingTypes
  <2> QED
    BY <2>1 DEF ReadType
<1>2. UNCHANGED <<card, reads>>
  BY DEF cardVars
<1>3. ReadersOK(reads, runs)'
  BY <1>1, <1>2 DEF FundsInv, CardInv, ReadersOK
<1>4. SomeAsks(runs) => SomeAsks(runs)'
  BY DEF SomeAsks
<1>5. \A q : Good(q, ledger) => Good(q, ledger')
  BY DEF Good
<1>6. ReadsOK(reads, runs, ledger)' /\ CardOK(card, reads, runs, ledger)'
  BY <1>2, <1>4, <1>5 DEF FundsInv, CardInv, ReadsOK, CardOK
<1>7. PageOK'
  BY <1>2 DEF FundsInv, CardInv, PageOK
<1> QED
  BY <1>3, <1>6, <1>7 DEF CardInv

---------------------------------------------------------------------------
(* Clicks.                                                                  *)

LEMMA PlanIs ==
    ASSUME FundingTypes, NEW form \in Form, NEW amount \in 0 .. Unlimited
    PROVE  /\ form # "deposit" => Plan(form, amount) = <<form>>
           /\ form = "deposit" =>
                /\ Plan(form, amount) \in DepositPlans
                /\ Plan(form, amount) = Deposit1 => amount <= known.allowance
                /\ Plan(form, amount) = Deposit2 /\ strict => known.allowance <= 0
<1>4. known.allowance \in Int /\ amount \in Int
  BY DEF FundingTypes
<1>5. CASE form # "deposit"
  BY <1>5 DEF Plan
<1>6. CASE form = "deposit" /\ ~(known.allowance < amount)
  <2>1. Plan(form, amount) = Deposit1
    BY <1>6 DEF Plan, depositPlan, Deposit1
  <2> QED
    BY <1>4, <1>6, <2>1, PlanParts DEF DepositPlans
<1>7. CASE form = "deposit" /\ known.allowance < amount /\ ~(known.allowance > 0 /\ strict)
  <2>1. Plan(form, amount) = Deposit2
    BY <1>7 DEF Plan, depositPlan, Deposit2
  <2> QED
    BY <1>4, <1>7, <2>1, PlanParts DEF DepositPlans
<1>8. CASE form = "deposit" /\ known.allowance < amount /\ known.allowance > 0 /\ strict
  <2>1. Plan(form, amount) = Deposit3
    BY <1>8 DEF Plan, depositPlan, Deposit3
  <2> QED
    BY <1>4, <1>8, <2>1, PlanParts DEF DepositPlans
<1> QED
  BY <1>5, <1>6, <1>7, <1>8

LEMMA clickKeeps ==
    ASSUME FundsInv, NEW r \in Run, NEW form \in Form, NEW amount \in 0 .. Unlimited,
           click(r, form, amount)
    PROVE  FundsInv'
<1> DEFINE x == [at |-> "sign", form |-> form, plan |-> Plan(form, amount), amount |-> amount,
                 tx |-> "none", mounted |-> TRUE, shown |-> known.rates,
                 clear |-> NothingElse(form, amount), before |-> ledger]
<1>1. /\ runs[r] = NoRun /\ Shown(form)
      /\ runs' = [Clouded(runs) EXCEPT ![r] = x]
      /\ UNCHANGED <<page, ledger, strict, rates, mempool, known, card, reads>>
  BY DEF click, chainVars, cardVars
<1>2. FundingTypes
  BY DEF FundsInv
<1>3. x \in RunType /\ PlanOK(x)
  <2>1. Plan(form, amount) \in Plans
    BY <1>2, PlanIs DEF Plans
  <2>2. NothingElse(form, amount) \in BOOLEAN
    BY DEF NothingElse
  <2>3. known.rates \in Rates /\ ledger \in LedgerType
    BY <1>2 DEF FundingTypes
  <2>4. x \in RunType
    BY <2>1, <2>2, <2>3 DEF RunType
  <2>5. PlanOK(x)
    BY <1>2, PlanIs DEF PlanOK
  <2> QED
    BY <2>4, <2>5
<1>4. ClearOK(x, ledger, strict, rates)
  <2> SUFFICES ASSUME NothingElse(form, amount)
               PROVE  /\ form \in {"deposit", "withdraw"} => known.rates = rates
                      /\ Same(x, ledger) /\ Ready(x, ledger, strict)
    BY DEF ClearOK, Stage
  <2>1. form \in {"deposit", "withdraw"} => known.rates = rates
    BY DEF NothingElse
  <2>2. Same(x, ledger)
    BY DEF Same
  <2>3. Ready(x, ledger, strict)
    <3>1. ledger.allowance \in Nat
      BY <1>2 DEF FundingTypes, LedgerType
    <3>2. form = "deposit" => known.allowance = ledger.allowance /\ amount <= ledger.wallet
      BY DEF NothingElse
    <3>3. form \in {"withdraw", "topUp"} => amount <= ledger.vault
      BY DEF NothingElse
    <3>4. form # "deposit" => Plan(form, amount) # Deposit2 /\
                              (Plan(form, amount) = Deposit1 => FALSE)
      BY <1>2, PlanIs, PlanParts DEF Deposit1
    <3> QED
      BY <1>2, <3>1, <3>2, <3>3, <3>4, PlanIs DEF Ready
  <2> QED
    BY <2>1, <2>2, <2>3
<1> HIDE DEF x
<1>5. ASSUME NEW q \in Run, q # r
      PROVE  \/ runs[q] = NoRun /\ runs'[q] = NoRun
             \/ /\ runs[q] \in RunType /\ runs'[q] \in RunType /\ ~runs'[q].clear
                /\ runs'[q] = [runs[q] EXCEPT !.clear = FALSE]
                /\ runs'[q].at = runs[q].at /\ runs'[q].tx = runs[q].tx
                /\ runs'[q].plan = runs[q].plan /\ runs'[q].amount = runs[q].amount
                /\ runs'[q].form = runs[q].form /\ runs'[q].mounted = runs[q].mounted
  <2>1. runs'[q] = IF runs[q] = NoRun THEN NoRun ELSE [runs[q] EXCEPT !.clear = FALSE]
    BY <1>1, <1>5 DEF Clouded
  <2>2. runs[q] = NoRun \/ runs[q] \in RunType
    BY <1>2, RunIs
  <2>3. CASE runs[q] = NoRun
    BY <2>1, <2>3
  <2>4. CASE runs[q] # NoRun
    <3>1. runs'[q] = [runs[q] EXCEPT !.clear = FALSE] /\ runs[q] \in RunType
      BY <2>1, <2>2, <2>4
    <3> QED
      BY <3>1 DEF RunType
  <2> QED
    BY <2>3, <2>4
<1>6. runs'[r] = x /\ DOMAIN runs' = Run
  BY <1>1 DEF Clouded
<1>7. runs' \in [Run -> RunType \cup {NoRun}]
  <2>1. \A q \in Run : runs'[q] \in RunType \cup {NoRun}
    BY <1>3, <1>5, <1>6
  <2>2. runs' = [q \in Run |-> runs'[q]]
    BY <1>1 DEF Clouded
  <2> QED
    BY <2>1, <2>2
<1>8. FundingTypes'
  BY <1>1, <1>2, <1>7 DEF FundingTypes
<1>9. RunsOK'
  <2>1. ASSUME NEW q \in Run, runs'[q] # NoRun
        PROVE  PlanOK(runs'[q]) /\ ClearOK(runs'[q], ledger', strict', rates')
    <3>1. CASE q = r
      BY <1>1, <1>3, <1>4, <1>6, <3>1
    <3>2. CASE q # r
      <4>1. runs[q] # NoRun /\ ~runs'[q].clear /\ runs'[q].plan = runs[q].plan /\ runs'[q].form = runs[q].form /\ runs'[q].at = runs[q].at
        BY <1>5, <2>1, <3>2, NoRunIsNone
      <4> QED
        BY <4>1 DEF FundsInv, RunsOK, PlanOK, ClearOK
    <3> QED
      BY <3>1, <3>2
  <2> QED
    BY <2>1 DEF RunsOK
<1>10. runs[r].at = "none"
  BY <1>1 DEF NoRun
<1>11. MempoolOK(mempool, runs)'
  <2>1. \A q \in Run : runs[q].at = "wait" => q # r /\ runs[q] # NoRun
    BY <1>10, <1>2, RunIs
  <2> QED
    BY <1>1, <1>5, <2>1, PoolStays
<1>12. CardInv'
  <2>1. \A q \in Run : runs[q].at \in {"wait", "fetch"} => q # r /\ runs[q] # NoRun
    BY <1>10, <1>2, RunIs
  <2>2. \A q \in Run : runs[q].at = "fetch" => runs'[q].at = "fetch"
    BY <1>5, <2>1
  <2>3. \A q \in Run : Asks(runs[q]) => Asks(runs'[q])
    BY <1>5, <2>1 DEF Asks
  <2>4. OnCard(x.form) <=> page = "card"
    BY <1>1 DEF x, Shown, OnCard
  <2>5. \A q \in Run : runs'[q] # NoRun => (OnCard(runs'[q].form) <=> page = "card")
    <3> SUFFICES ASSUME NEW q \in Run, runs'[q] # NoRun
                 PROVE  OnCard(runs'[q].form) <=> page = "card"
      OBVIOUS
    <3>1. CASE q = r
      BY <1>6, <2>4, <3>1
    <3>2. CASE q # r
      <4>1. runs[q] # NoRun /\ runs'[q].form = runs[q].form
        BY <1>5, <3>2, NoRunIsNone, Zenon
      <4> QED
        BY <4>1 DEF FundsInv, CardInv, PageOK
    <3> QED
      BY <3>1, <3>2
  <2> QED
    BY <1>1, <2>2, <2>3, <2>5, CardStays DEF cardVars
<1> QED
  BY <1>8, <1>9, <1>11, <1>12 DEF FundsInv

---------------------------------------------------------------------------
(* Transactions.                                                            *)

LEMMA signKeeps ==
    ASSUME FundsInv, NEW r \in Run, sign(r)
    PROVE  FundsInv'
<1> DEFINE x == [runs[r] EXCEPT !.at = "wait", !.tx = "sent"]
           t == [what |-> runs[r].plan[1], amount |-> runs[r].amount, run |-> {r}]
<1>1. /\ runs[r].at = "sign"
      /\ runs' = [runs EXCEPT ![r] = x] /\ mempool' = Append(mempool, t)
      /\ UNCHANGED <<page, ledger, strict, rates, known, card, reads>>
  BY DEF sign, Goes, cardVars
<1>2. FundingTypes
  BY DEF FundsInv
<1>3. runs[r] \in RunType /\ runs[r] # NoRun
  BY <1>1, <1>2, RunIs
<1>4. /\ x \in RunType /\ x.at = "wait" /\ x.tx = "sent" /\ x.plan = runs[r].plan
      /\ x.amount = runs[r].amount /\ x.form = runs[r].form /\ x.clear = runs[r].clear
      /\ x.shown = runs[r].shown /\ x.before = runs[r].before /\ x.mounted = runs[r].mounted
  BY <1>3 DEF RunType
<1>5. t \in TxType /\ t.run = {r} /\ Waits(x, t)
  <2>1. runs[r].plan \in Plans /\ runs[r].amount \in 0 .. Unlimited
    BY <1>3 DEF RunType
  <2>2. runs[r].plan[1] \in Form \cup {"reset", "approve"}
    BY <2>1, PlanParts DEF Plans, DepositPlans, Form
  <2>3. t \in TxType
    BY <2>1, <2>2 DEF TxType
  <2> QED
    BY <1>4, <2>3 DEF Waits
<1> HIDE DEF x, t
<1>6. PlanOK(x) /\ ClearOK(x, ledger, strict, rates)
  <2>1. PlanOK(runs[r]) /\ ClearOK(runs[r], ledger, strict, rates)
    BY <1>3 DEF FundsInv, RunsOK
  <2>2. PlanOK(x)
    BY <1>4, <2>1 DEF PlanOK
  <2>3. ClearOK(x, ledger, strict, rates)
    <3> SUFFICES ASSUME x.clear
                 PROVE  /\ x.form \in {"deposit", "withdraw"} => x.shown = rates
                        /\ Same(x, ledger) /\ Ready(x, ledger, strict)
      <4>1. ASSUME Same(x, ledger), Ready(x, ledger, strict) PROVE Stage(x, ledger, strict)
        BY <1>4, <4>1 DEF Stage
      <4> QED
        BY <4>1, Zenon DEF ClearOK
    <3>1. /\ runs[r].form \in {"deposit", "withdraw"} => runs[r].shown = rates
          /\ Stage(runs[r], ledger, strict)
      BY <1>1, <1>4, <2>1 DEF ClearOK
    <3>2. Same(runs[r], ledger) /\ Ready(runs[r], ledger, strict)
      BY <1>1, <3>1 DEF Stage
    <3> QED
      BY <1>4, <3>1, <3>2 DEF Same, Ready
  <2> QED
    BY <2>2, <2>3
<1>7. runs' \in [Run -> RunType \cup {NoRun}] /\ RunsOK'
  BY <1>1, <1>4, <1>6, OneGoes
<1>8. FundingTypes'
  BY <1>1, <1>2, <1>5, <1>7 DEF FundingTypes
<1>9. runs'[r] = x /\ \A q \in Run : q # r => runs'[q] = runs[q]
  BY <1>1, <1>2 DEF FundingTypes
<1>10. MempoolOK(mempool, runs)'
  <2> DEFINE n == Len(mempool)
  <2>1. /\ n \in Nat /\ DOMAIN mempool' = 1 .. n + 1 /\ mempool'[n + 1] = t
        /\ DOMAIN mempool = 1 .. n /\ \A i \in 1 .. n : mempool'[i] = mempool[i]
    BY <1>1, <1>2, <1>5 DEF FundingTypes
  <2>2. \A i \in 1 .. n : mempool[i].run \subseteq Run
    <3>1. \A i \in 1 .. n : mempool[i] \in TxType
      BY <1>2, <2>1 DEF FundingTypes
    <3> QED
      BY <3>1 DEF TxType
  <2>3. \A i \in 1 .. n : \A q \in mempool[i].run : Waits(runs[q], mempool[i]) /\ q # r
    BY <1>1, <2>1 DEF FundsInv, MempoolOK, Waits
  <2> HIDE DEF n
  <2>4. \A i \in DOMAIN mempool' : \A q \in mempool'[i].run : Waits(runs'[q], mempool'[i])
    BY <1>5, <1>9, <2>1, <2>2, <2>3
  <2>5. \A i, j \in 1 .. n : i # j => mempool[i].run \cap mempool[j].run = {}
    BY <2>1 DEF FundsInv, MempoolOK
  <2>6. \A i, j \in DOMAIN mempool' : i # j => mempool'[i].run \cap mempool'[j].run = {}
    BY <1>5, <2>1, <2>3, <2>5
  <2> QED
    BY <2>4, <2>6 DEF MempoolOK
<1>11. CardInv'
  <2>1. \A q \in Run : runs[q].at = "fetch" => runs'[q].at = "fetch"
    BY <1>1, <1>9
  <2>2. \A q \in Run : Asks(runs[q]) => Asks(runs'[q])
    BY <1>1, <1>9 DEF Asks
  <2>3. \A q \in Run : runs'[q] # NoRun => (OnCard(runs'[q].form) <=> page = "card")
    BY <1>3, <1>4, <1>9 DEF FundsInv, CardInv, PageOK
  <2> QED
    BY <1>1, <2>1, <2>2, <2>3, CardStays DEF cardVars
<1> QED
  BY <1>7, <1>8, <1>10, <1>11 DEF FundsInv

\* The wallet refuses, or a receipt does not come.
LEMMA OneFails ==
    ASSUME FundsInv, NEW r \in Run, NEW tx \in {"none", "sent", "ok", "reverted", "late"},
           \/ runs[r].at = "sign" /\ tx = runs[r].tx /\ UNCHANGED mempool
           \/ /\ runs[r].at = "wait" /\ runs[r].tx = "sent" /\ tx = "late"
              /\ mempool' = [i \in DOMAIN mempool |-> [mempool[i] EXCEPT !.run = @ \ {r}]],
           runs' = [runs EXCEPT ![r] = [runs[r] EXCEPT !.at = "failed", !.tx = tx]],
           UNCHANGED <<page, ledger, strict, rates, known, card, reads>>
    PROVE  FundsInv'
<1> DEFINE x == [runs[r] EXCEPT !.at = "failed", !.tx = tx]
<1>1. FundingTypes
  BY DEF FundsInv
<1>2. runs[r] \in RunType /\ runs[r] # NoRun
  BY <1>1, RunIs
<1>3. /\ x \in RunType /\ x.at = "failed" /\ x.tx = tx /\ x.plan = runs[r].plan
      /\ x.amount = runs[r].amount /\ x.form = runs[r].form /\ x.clear = runs[r].clear
      /\ x.shown = runs[r].shown /\ x.before = runs[r].before /\ x.mounted = runs[r].mounted
  BY <1>2 DEF RunType
<1>4. runs' = [runs EXCEPT ![r] = x]
  OBVIOUS
<1> HIDE DEF x
<1>5. PlanOK(x) /\ ClearOK(x, ledger, strict, rates)
  <2>1. PlanOK(runs[r]) /\ ClearOK(runs[r], ledger, strict, rates)
    BY <1>2 DEF FundsInv, RunsOK
  <2>2. PlanOK(x)
    BY <1>3, <2>1 DEF PlanOK
  <2>3. ASSUME x.clear
        PROVE  /\ x.form \in {"deposit", "withdraw"} => x.shown = rates
               /\ Same(x, ledger)
    <3>1. /\ runs[r].form \in {"deposit", "withdraw"} => runs[r].shown = rates
          /\ Stage(runs[r], ledger, strict)
      BY <1>3, <2>1, <2>3 DEF ClearOK
    <3>2. Same(runs[r], ledger)
      BY <3>1 DEF Stage
    <3> QED
      BY <1>3, <3>1, <3>2 DEF Same
  <2>4. Same(x, ledger) => Stage(x, ledger, strict)
    BY <1>3 DEF Stage
  <2>5. ClearOK(x, ledger, strict, rates)
    BY <2>3, <2>4, Zenon DEF ClearOK
  <2> QED
    BY <2>2, <2>5
<1>6. runs' \in [Run -> RunType \cup {NoRun}] /\ RunsOK'
  BY <1>3, <1>4, <1>5, OneGoes
<1>7. runs'[r] = x /\ \A q \in Run : q # r => runs'[q] = runs[q]
  BY <1>1, <1>4 DEF FundingTypes
<1>8. \A i \in DOMAIN mempool : mempool[i] \in TxType /\ mempool[i].run \subseteq Run
  <2>1. \A i \in DOMAIN mempool : mempool[i] \in TxType
    BY <1>1 DEF FundingTypes
  <2> QED
    BY <2>1 DEF TxType
<1>9. /\ mempool' \in Seq(TxType) /\ DOMAIN mempool' = DOMAIN mempool
      /\ \A i \in DOMAIN mempool :
            /\ mempool'[i].run \subseteq mempool[i].run \ {r}
            /\ mempool'[i].what = mempool[i].what /\ mempool'[i].amount = mempool[i].amount
  <2>1. CASE UNCHANGED mempool /\ runs[r].at = "sign"
    <3>1. \A i \in DOMAIN mempool : r \notin mempool[i].run
      BY <2>1 DEF FundsInv, MempoolOK, Waits
    <3> QED
      BY <1>1, <2>1, <3>1 DEF FundingTypes
  <2>2. CASE mempool' = [i \in DOMAIN mempool |-> [mempool[i] EXCEPT !.run = @ \ {r}]]
    <3>1. ASSUME NEW i \in DOMAIN mempool
          PROVE  /\ mempool'[i] \in TxType /\ mempool'[i].run = mempool[i].run \ {r}
                 /\ mempool'[i].what = mempool[i].what /\ mempool'[i].amount = mempool[i].amount
      <4>1. mempool'[i] = [mempool[i] EXCEPT !.run = mempool[i].run \ {r}]
        BY <2>2
      <4> QED
        BY <1>8, <4>1 DEF TxType
    <3>2. DOMAIN mempool = 1 .. Len(mempool) /\ Len(mempool) \in Nat
      BY <1>1 DEF FundingTypes
    <3>3. mempool' \in [1 .. Len(mempool) -> TxType]
      BY <2>2, <3>1, <3>2
    <3> QED
      BY <3>1, <3>2, <3>3
  <2> QED
    BY <2>1, <2>2
<1>10. FundingTypes'
  BY <1>1, <1>6, <1>9 DEF FundingTypes
<1>11. MempoolOK(mempool, runs)'
  <2>1. \A i \in DOMAIN mempool' : \A q \in mempool'[i].run : Waits(runs'[q], mempool'[i])
    <3> SUFFICES ASSUME NEW i \in DOMAIN mempool', NEW q \in mempool'[i].run
                 PROVE  Waits(runs'[q], mempool'[i])
      OBVIOUS
    <3>1. i \in DOMAIN mempool /\ q \in mempool[i].run /\ q # r /\ q \in Run
      BY <1>8, <1>9
    <3>2. Waits(runs[q], mempool[i])
      BY <3>1 DEF FundsInv, MempoolOK
    <3> QED
      BY <1>7, <1>9, <3>1, <3>2 DEF Waits
  <2>2. \A i, j \in DOMAIN mempool : i # j => mempool[i].run \cap mempool[j].run = {}
    BY DEF FundsInv, MempoolOK
  <2>3. \A i, j \in DOMAIN mempool' : i # j => mempool'[i].run \cap mempool'[j].run = {}
    BY <1>9, <2>2
  <2> QED
    BY <2>1, <2>3 DEF MempoolOK
<1>12. CardInv'
  <2>1. \A q \in Run : runs[q].at = "fetch" => runs'[q].at = "fetch"
    BY <1>7
  <2>2. \A q \in Run : Asks(runs[q]) => Asks(runs'[q])
    BY <1>7 DEF Asks
  <2>3. \A q \in Run : runs'[q] # NoRun => (OnCard(runs'[q].form) <=> page = "card")
    BY <1>2, <1>3, <1>7 DEF FundsInv, CardInv, PageOK
  <2> QED
    BY <2>1, <2>2, <2>3, CardStays DEF cardVars
<1> QED
  BY <1>6, <1>10, <1>11, <1>12 DEF FundsInv

LEMMA rejectKeeps ==
    ASSUME FundsInv, NEW r \in Run, reject(r)
    PROVE  FundsInv'
<1>1. /\ runs[r].at = "sign" /\ runs' = [runs EXCEPT ![r] = [runs[r] EXCEPT !.at = "failed"]]
      /\ UNCHANGED <<page, ledger, strict, rates, mempool, known, card, reads>>
  BY DEF reject, Goes, chainVars, cardVars
<1>2. runs[r] \in RunType
  BY <1>1, RunIs DEF FundsInv
<1>3. /\ runs[r].tx \in {"none", "sent", "ok", "reverted", "late"}
      /\ [runs[r] EXCEPT !.at = "failed"] = [runs[r] EXCEPT !.at = "failed", !.tx = runs[r].tx]
  BY <1>2 DEF RunType
<1> QED
  BY <1>1, <1>3, OneFails

LEMMA timeoutKeeps ==
    ASSUME FundsInv, NEW r \in Run, timeout(r)
    PROVE  FundsInv'
<1>1. /\ runs[r].at = "wait" /\ runs[r].tx = "sent"
      /\ runs' = [runs EXCEPT ![r] = [runs[r] EXCEPT !.at = "failed", !.tx = "late"]]
      /\ mempool' = [i \in DOMAIN mempool |-> [mempool[i] EXCEPT !.run = @ \ {r}]]
      /\ UNCHANGED <<page, ledger, strict, rates, known, card, reads>>
  BY DEF timeout, Goes, cardVars
<1> QED
  BY <1>1, OneFails

---------------------------------------------------------------------------
(* A transaction is mined.                                                  *)

\* Of a run that waits, and that nothing crossed, the transaction is taken, and the
\* ledger becomes what the run promises after it.
LEMMA TakenAsReady ==
    ASSUME FundingTypes, NEW run \in RunType, PlanOK(run), run.at = "wait", run.tx = "sent",
           run.clear, ClearOK(run, ledger, strict, rates),
           NEW ok \in BOOLEAN, Taken(run.plan[1], run.amount, ok)
    PROVE  LET l == IF ok THEN Paid(run.plan[1], run.amount, ledger) ELSE ledger IN
           /\ run.form # "create" => ok
           /\ ok => Passed(run, l)
           /\ ~ok => Same(run, l)
<1>1. Same(run, ledger) /\ Ready(run, ledger, strict)
  BY DEF ClearOK, Stage
<1>2. run.form \in {"deposit", "withdraw"} => run.shown = rates
  BY DEF ClearOK
<1>3. /\ ledger \in LedgerType /\ run.amount \in Int /\ run.form \in Form
      /\ run.before \in LedgerType /\ run.amount <= Unlimited
  <2>1. run.amount \in 0 .. Unlimited /\ run.form \in Form /\ run.before \in LedgerType
    BY DEF RunType
  <2>2. ledger \in LedgerType
    BY DEF FundingTypes
  <2> QED
    BY <2>1, <2>2 DEF Unlimited
<1>4. CASE run.plan = Deposit3
  <2>1. run.form = "deposit" /\ run.plan[1] = "reset" /\ ok
    BY <1>4, PlanParts DEF PlanOK, Taken, DepositPlans, Deposit1
  <2>2. Paid(run.plan[1], run.amount, ledger) = [ledger EXCEPT !.allowance = 0]
    BY <2>1 DEF Paid
  <2>3. Passed(run, [ledger EXCEPT !.allowance = 0])
    BY <1>1, <1>3, <1>4, <2>1, PlanParts DEF Passed, Same, Ready, LedgerType
  <2> QED
    BY <2>1, <2>2, <2>3
<1>5. CASE run.plan = Deposit2
  <2>1. run.form = "deposit" /\ run.plan[1] = "approve" /\ ok
    <3>1. run.form = "deposit" /\ run.plan[1] = "approve"
      BY <1>3, <1>5, PlanParts DEF PlanOK
    <3>2. strict => ledger.allowance = 0
      BY <1>1, <1>5 DEF Ready
    <3> QED
      BY <3>1, <3>2 DEF Taken
  <2>2. Paid(run.plan[1], run.amount, ledger) = [ledger EXCEPT !.allowance = Unlimited]
    BY <2>1 DEF Paid
  <2>3. Passed(run, [ledger EXCEPT !.allowance = Unlimited])
    BY <1>1, <1>3, <1>5, <2>1, PlanParts DEF Passed, Same, Ready, LedgerType
  <2> QED
    BY <2>1, <2>2, <2>3
<1>6. CASE run.plan \notin {Deposit2, Deposit3}
  <2>1. run.plan = <<run.form>> /\ run.plan[1] = run.form
    BY <1>3, <1>6, PlanParts DEF PlanOK, DepositPlans
  <2>2. \A l : Kept(run, l) => Passed(run, l)
    BY <1>6 DEF Passed
  <2>3. CASE run.form = "deposit"
    <3>1. run.plan = Deposit1
      BY <1>6, <2>3 DEF PlanOK, DepositPlans
    <3>2. ok
      BY <1>1, <2>1, <2>3, <3>1 DEF Taken, Ready
    <3> DEFINE l == Paid("deposit", run.amount, ledger)
    <3>3. /\ l.wallet = ledger.wallet - run.amount
          /\ l.vault = ledger.vault + run.amount - Fee(run.amount, rates.deposit)
      BY <1>3 DEF Paid, LedgerType
    <3>4. Kept(run, l)
      BY <1>1, <1>2, <2>3, <3>3 DEF Kept, Same
    <3> QED
      BY <2>1, <2>2, <2>3, <3>2, <3>4
  <2>4. CASE run.form = "withdraw"
    <3>1. ok
      BY <1>1, <2>1, <2>4 DEF Taken, Ready
    <3> DEFINE l == Paid("withdraw", run.amount, ledger)
    <3>2. /\ l.vault = ledger.vault - run.amount
          /\ l.wallet = ledger.wallet + run.amount - Fee(run.amount, rates.withdraw)
      BY <1>3 DEF Paid, LedgerType
    <3>3. Kept(run, l)
      BY <1>1, <1>2, <2>4, <3>2 DEF Kept, Same
    <3> QED
      BY <2>1, <2>2, <2>4, <3>1, <3>3
  <2>5. CASE run.form = "topUp"
    <3>1. ok
      BY <1>1, <2>1, <2>5 DEF Taken, Ready
    <3> DEFINE l == Paid("topUp", run.amount, ledger)
    <3>2. l.vault = ledger.vault - run.amount /\ l.reserve = ledger.reserve + run.amount
      BY <1>3 DEF Paid, LedgerType
    <3>3. Kept(run, l)
      BY <1>1, <2>5, <3>2 DEF Kept, Same
    <3> QED
      BY <2>1, <2>2, <2>5, <3>1, <3>3
  <2>6. CASE run.form = "minimum"
    <3>1. ok
      BY <2>1, <2>6 DEF Taken
    <3> DEFINE l == Paid("minimum", run.amount, ledger)
    <3>2. l.minimum = run.amount
      BY <1>3 DEF Paid, LedgerType
    <3>3. Kept(run, l)
      BY <2>6, <3>2 DEF Kept
    <3> QED
      BY <2>1, <2>2, <2>6, <3>1, <3>3
  <2>7. CASE run.form = "create"
    <3> DEFINE l == Paid("create", run.amount, ledger)
    <3>1. l.vaults = ledger.vaults + 1
      BY <1>3 DEF Paid, LedgerType
    <3>2. Kept(run, l)
      BY <1>1, <2>7, <3>1 DEF Kept, Same
    <3> QED
      BY <1>1, <2>1, <2>2, <2>7, <3>2
  <2> QED
    BY <1>3, <2>3, <2>4, <2>5, <2>6, <2>7 DEF Form
<1> QED
  BY <1>4, <1>5, <1>6

\* What is paid leaves a ledger; an allowance is never below 0.
LEMMA PaidIsLedger ==
    ASSUME FundingTypes, NEW what \in Form \cup {"reset", "approve"}, NEW amount \in 0 .. Unlimited,
           Taken(what, amount, TRUE)
    PROVE  Paid(what, amount, ledger) \in LedgerType
<1>1. /\ ledger \in LedgerType /\ amount \in Int /\ ledger.wallet \in Int /\ ledger.allowance \in Nat
      /\ ledger.minimum \in Int /\ ledger.reserve \in Int /\ ledger.vault \in Int
      /\ ledger.vaults \in Int /\ Unlimited \in Nat
  BY DEF FundingTypes, LedgerType, Unlimited
<1>2. Fee(amount, rates.deposit) \in Int /\ Fee(amount, rates.withdraw) \in Int
  BY FeeIsInt DEF FundingTypes
<1>3. CASE what = "deposit"
  <2>1. amount <= ledger.allowance
    BY <1>3 DEF Taken
  <2>2. (IF ledger.allowance = Unlimited THEN ledger.allowance ELSE ledger.allowance - amount) \in Nat
    BY <1>1, <2>1
  <2>3. ledger.wallet - amount \in Int /\ ledger.vault + amount - Fee(amount, rates.deposit) \in Int
    BY <1>1, <1>2
  <2>4. Paid(what, amount, ledger) =
          [ledger EXCEPT !.wallet = ledger.wallet - amount,
             !.vault = ledger.vault + amount - Fee(amount, rates.deposit),
             !.allowance = IF ledger.allowance = Unlimited THEN ledger.allowance
                           ELSE ledger.allowance - amount]
    BY <1>3 DEF Paid
  <2> QED
    BY <1>1, <2>2, <2>3, <2>4 DEF LedgerType
<1>4. CASE what = "withdraw"
  <2>1. ledger.vault - amount \in Int /\ ledger.wallet + amount - Fee(amount, rates.withdraw) \in Int
    BY <1>1, <1>2
  <2> QED
    BY <1>1, <1>4, <2>1 DEF Paid, LedgerType
<1>5. CASE what \in {"topUp", "minimum"}
  <2>1. ledger.vault - amount \in Int /\ ledger.reserve + amount \in Int
    BY <1>1
  <2> QED
    BY <1>1, <1>5, <2>1 DEF Paid, LedgerType
<1>6. CASE what \in {"reset", "approve", "create"}
  <2>1. ledger.vaults + 1 \in Int /\ 0 \in Nat
    BY <1>1
  <2> QED
    BY <1>1, <1>6, <2>1 DEF Paid, LedgerType
<1> QED
  BY <1>3, <1>4, <1>5, <1>6 DEF Form

\* A run that something crossed is otherwise as it was.
LEMMA CrossedIs ==
    \A x \in RunType :
       LET c == [x EXCEPT !.clear = FALSE] IN
       /\ c \in RunType /\ c # NoRun /\ ~c.clear
       /\ c.at = x.at /\ c.tx = x.tx /\ c.plan = x.plan /\ c.amount = x.amount
       /\ c.form = x.form /\ c.mounted = x.mounted
  BY NoRunIsNone DEF RunType

\* The reserve may have moved, and the card is not told.
LEMMA UnseenKeeps ==
    ASSUME FundsInv, unseen, UNCHANGED page,
           \A q \in Run : runs[q].at = "fetch" => runs'[q].at = "fetch",
           \A q \in Run : Asks(runs[q]) => Asks(runs'[q]),
           \A q \in Run : runs'[q] # NoRun => (OnCard(runs'[q].form) <=> page = "card")
    PROVE  /\ card' \in [data : Answers, loading : BOOLEAN, error : BOOLEAN, doubt : BOOLEAN]
           /\ reads' \in Seq(ReadType)
           /\ CardInv'
<1> DEFINE moved == Reserve(ledger') # Reserve(ledger)
<1>1. /\ card' = [card EXCEPT !.doubt = card.doubt \/ moved]
      /\ reads' = [i \in DOMAIN reads |->
            [reads[i] EXCEPT !.old = reads[i].old \/ (moved /\ reads[i].answer # NotRead)]]
  BY DEF unseen
<1>2. /\ card \in [data : Answers, loading : BOOLEAN, error : BOOLEAN, doubt : BOOLEAN]
      /\ reads \in Seq(ReadType)
  BY DEF FundsInv, FundingTypes
<1>3. moved \in BOOLEAN
  OBVIOUS
<1> HIDE DEF moved
<1>4. /\ card' \in [data : Answers, loading : BOOLEAN, error : BOOLEAN, doubt : BOOLEAN]
      /\ card'.data = card.data /\ card'.error = card.error /\ (card'.doubt <=> card.doubt \/ moved)
  BY <1>1, <1>2, <1>3
<1>5. ASSUME NEW i \in DOMAIN reads
      PROVE  /\ reads'[i] \in ReadType /\ reads'[i].by = reads[i].by /\ reads'[i].answer = reads[i].answer
             /\ reads'[i].old <=> reads[i].old \/ (moved /\ reads[i].answer # NotRead)
             /\ reads[i] \in ReadType /\ reads[i].by \subseteq Run
  <2>1. reads[i] \in ReadType
    BY <1>2
  <2>2. reads'[i] = [reads[i] EXCEPT !.old = reads[i].old \/ (moved /\ reads[i].answer # NotRead)]
    BY <1>1
  <2>3. (reads[i].old \/ (moved /\ reads[i].answer # NotRead)) \in BOOLEAN
    OBVIOUS
  <2> QED
    BY <2>1, <2>2, <2>3 DEF ReadType
<1>6. DOMAIN reads' = DOMAIN reads /\ reads' \in Seq(ReadType)
  <2>1. DOMAIN reads = 1 .. Len(reads) /\ Len(reads) \in Nat
    BY <1>2
  <2>2. reads' \in [1 .. Len(reads) -> ReadType]
    BY <1>1, <1>5, <2>1
  <2> QED
    BY <2>1, <2>2
<1>7. ReadersOK(reads, runs)'
  BY <1>5, <1>6 DEF FundsInv, CardInv, ReadersOK
<1>8. SomeAsks(runs) => SomeAsks(runs)'
  BY DEF SomeAsks
<1>9. ReadsOK(reads, runs, ledger)' /\ CardOK(card, reads, runs, ledger)'
  <2>1. CASE moved
    <3>1. \A i \in DOMAIN reads' : reads'[i].old \/ Good(reads'[i], ledger')
      BY <1>5, <1>6, <2>1 DEF Good
    <3> QED
      BY <1>4, <2>1, <3>1 DEF ReadsOK, CardOK
  <2>2. CASE ~moved
    <3>1. \A i \in DOMAIN reads : (reads'[i].old <=> reads[i].old) /\
             (Good(reads[i], ledger) => Good(reads'[i], ledger'))
      BY <1>5, <2>2 DEF Good, moved
    <3>2. ReadsOK(reads, runs, ledger)'
      BY <1>6, <1>8, <3>1 DEF FundsInv, CardInv, ReadsOK
    <3>3. CardOK(card, reads, runs, ledger)'
      BY <1>4, <1>6, <1>8, <2>2, <3>1 DEF FundsInv, CardInv, CardOK, moved
    <3> QED
      BY <3>2, <3>3
  <2> QED
    BY <2>1, <2>2
<1>10. PageOK'
  <2>1. reads = <<>> => reads' = <<>>
    BY <1>2, <1>6
  <2> QED
    BY <1>4, <2>1 DEF FundsInv, CardInv, PageOK
<1> QED
  BY <1>4, <1>6, <1>7, <1>9, <1>10 DEF CardInv

LEMMA mineKeeps ==
    ASSUME FundsInv, mine
    PROVE  FundsInv'
<1> DEFINE tx == Head(mempool)
           n == Len(mempool)
<1>1. FundingTypes
  BY DEF FundsInv
<1>2. PICK ok \in BOOLEAN :
         /\ Taken(tx.what, tx.amount, ok)
         /\ ledger' = IF ok THEN Paid(tx.what, tx.amount, ledger) ELSE ledger
         /\ runs' = [r \in Run |->
              IF r \in tx.run THEN [runs[r] EXCEPT !.tx = IF ok THEN "ok" ELSE "reverted"]
              ELSE IF runs[r] # NoRun THEN [runs[r] EXCEPT !.clear = FALSE] ELSE NoRun]
         /\ IF \E r \in tx.run : runs[r].mounted THEN UNCHANGED cardVars ELSE unseen
  BY DEF mine
<1>3. mempool # <<>> /\ mempool' = Tail(mempool) /\ UNCHANGED <<page, strict, rates, known>>
  BY DEF mine
<1>4. /\ n \in Nat /\ n >= 1 /\ tx = mempool[1] /\ tx \in TxType
      /\ DOMAIN mempool = 1 .. n /\ \A i \in 1 .. n : mempool[i] \in TxType
      /\ mempool' \in Seq(TxType) /\ DOMAIN mempool' = 1 .. n - 1
      /\ \A i \in 1 .. n - 1 : mempool'[i] = mempool[i + 1]
  BY <1>1, <1>3 DEF FundingTypes
<1>5. tx.run \subseteq Run /\ tx.what \in Form \cup {"reset", "approve"} /\ tx.amount \in 0 .. Unlimited
  BY <1>4 DEF TxType
<1>6. \A r \in tx.run : Waits(runs[r], tx)
  BY <1>4 DEF FundsInv, MempoolOK
<1> HIDE DEF tx, n
<1>7. ledger' \in LedgerType
  <2>1. CASE ok
    BY <1>1, <1>2, <1>5, <2>1, PaidIsLedger
  <2>2. CASE ~ok
    BY <1>1, <1>2, <2>2 DEF FundingTypes
  <2> QED
    BY <2>1, <2>2
<1>8. ASSUME NEW r \in tx.run
      PROVE  /\ r \in Run /\ runs[r] \in RunType /\ runs[r] # NoRun /\ runs'[r] \in RunType
             /\ runs[r].at = "wait" /\ runs[r].tx = "sent"
             /\ runs'[r].at = "wait" /\ runs'[r].tx = (IF ok THEN "ok" ELSE "reverted")
             /\ runs'[r].plan = runs[r].plan /\ runs'[r].form = runs[r].form
             /\ runs'[r].mounted = runs[r].mounted /\ runs'[r].clear = runs[r].clear
             /\ runs'[r].shown = runs[r].shown /\ runs'[r].before = runs[r].before
             /\ runs'[r].amount = runs[r].amount
  <2>1. r \in Run /\ runs[r].at = "wait" /\ runs[r].tx = "sent"
    BY <1>5, <1>6 DEF Waits
  <2>2. runs[r] \in RunType /\ runs[r] # NoRun
    BY <1>1, <2>1, RunIs
  <2>3. runs'[r] = [runs[r] EXCEPT !.tx = IF ok THEN "ok" ELSE "reverted"]
    BY <1>2, <2>1
  <2>4. (IF ok THEN "ok" ELSE "reverted") \in {"ok", "reverted"}
    OBVIOUS
  <2> QED
    BY <2>1, <2>2, <2>3, <2>4 DEF RunType
<1>9. ASSUME NEW r \in Run \ tx.run
      PROVE  \/ runs[r] = NoRun /\ runs'[r] = NoRun
             \/ /\ runs[r] \in RunType /\ runs'[r] \in RunType /\ ~runs'[r].clear
                /\ runs[r] # NoRun
                /\ runs'[r].at = runs[r].at /\ runs'[r].tx = runs[r].tx
                /\ runs'[r].plan = runs[r].plan /\ runs'[r].amount = runs[r].amount
                /\ runs'[r].form = runs[r].form /\ runs'[r].mounted = runs[r].mounted
  <2>1. runs'[r] = IF runs[r] # NoRun THEN [runs[r] EXCEPT !.clear = FALSE] ELSE NoRun
    BY <1>2
  <2>2. CASE runs[r] = NoRun
    BY <2>1, <2>2
  <2>3. CASE runs[r] # NoRun
    <3>1. runs[r] \in RunType /\ runs'[r] = [runs[r] EXCEPT !.clear = FALSE]
      BY <1>1, <2>1, <2>3, RunIs
    <3> QED
      BY <2>3, <3>1, CrossedIs
  <2> QED
    BY <2>2, <2>3
<1>10. FundingTypes'
  <2>1. runs' \in [Run -> RunType \cup {NoRun}]
    <3>1. \A r \in Run : runs'[r] \in RunType \cup {NoRun}
      BY <1>8, <1>9
    <3>2. runs' = [r \in Run |-> runs'[r]]
      BY <1>2
    <3> QED
      BY <3>1, <3>2
  <2>2. /\ card' \in [data : Answers, loading : BOOLEAN, error : BOOLEAN, doubt : BOOLEAN]
        /\ reads' \in Seq(ReadType)
    <3>1. CASE UNCHANGED cardVars
      BY <1>1, <3>1 DEF cardVars, FundingTypes
    <3>2. CASE unseen
      <4>1. \A q \in Run : runs[q].at = "fetch" => runs'[q].at = "fetch"
        BY <1>8, <1>9
      <4>2. \A q \in Run : Asks(runs[q]) => Asks(runs'[q])
        BY <1>8, <1>9 DEF Asks
      <4>3. \A q \in Run : runs'[q] # NoRun => (OnCard(runs'[q].form) <=> page = "card")
        BY <1>8, <1>9 DEF FundsInv, CardInv, PageOK
      <4> QED
        BY <1>3, <3>2, <4>1, <4>2, <4>3, UnseenKeeps
    <3> QED
      BY <1>2, <3>1, <3>2
  <2> QED
    BY <1>1, <1>3, <1>4, <1>7, <2>1, <2>2 DEF FundingTypes
<1>11. RunsOK'
  <2>1. ASSUME NEW r \in tx.run
        PROVE  PlanOK(runs'[r]) /\ ClearOK(runs'[r], ledger', strict', rates')
    <3>1. PlanOK(runs[r]) /\ ClearOK(runs[r], ledger, strict, rates)
      BY <1>8 DEF FundsInv, RunsOK
    <3>2. PlanOK(runs'[r])
      BY <1>8, <3>1 DEF PlanOK
    <3>3. ASSUME runs[r].clear
          PROVE  /\ runs[r].form \in {"deposit", "withdraw"} => runs[r].shown = rates
                 /\ runs[r].form # "create" => ok
                 /\ ok => Passed(runs[r], ledger')
                 /\ ~ok => Same(runs[r], ledger')
      <4>1. tx.what = runs[r].plan[1] /\ tx.amount = runs[r].amount
        BY <1>6 DEF Waits
      <4>2. Taken(runs[r].plan[1], runs[r].amount, ok)
        BY <1>2, <4>1
      <4>3. ledger' = IF ok THEN Paid(runs[r].plan[1], runs[r].amount, ledger) ELSE ledger
        BY <1>2, <4>1
      <4>4. runs[r].form \in {"deposit", "withdraw"} => runs[r].shown = rates
        BY <3>1, <3>3 DEF ClearOK
      <4> QED
        BY <1>1, <1>8, <3>1, <3>3, <4>2, <4>3, <4>4, TakenAsReady
    <3>4. ASSUME runs'[r].clear
          PROVE  /\ runs'[r].form \in {"deposit", "withdraw"} => runs'[r].shown = rates'
                 /\ Stage(runs'[r], ledger', strict')
      <4>1. runs[r].clear
        BY <1>8, <3>4
      <4>2. ok => Passed(runs'[r], ledger')
        BY <1>8, <3>3, <4>1 DEF Passed, Same, Kept
      <4>3. ~ok => Same(runs'[r], ledger')
        BY <1>8, <3>3, <4>1 DEF Same
      <4> QED
        BY <1>3, <1>8, <3>3, <4>1, <4>2, <4>3 DEF Stage
    <3> QED
      BY <3>2, <3>4 DEF ClearOK
  <2>2. ASSUME NEW r \in Run \ tx.run, runs'[r] # NoRun
        PROVE  PlanOK(runs'[r]) /\ ClearOK(runs'[r], ledger', strict', rates')
    <3>1. runs[r] # NoRun /\ ~runs'[r].clear /\ runs'[r].plan = runs[r].plan /\ runs'[r].form = runs[r].form /\ runs'[r].at = runs[r].at
      BY <1>9, <2>2
    <3> QED
      BY <3>1 DEF FundsInv, RunsOK, PlanOK, ClearOK
  <2> QED
    BY <2>1, <2>2 DEF RunsOK
<1>12. MempoolOK(mempool, runs)'
  <2>1. \A i \in 1 .. n - 1 : i + 1 \in 1 .. n /\ i + 1 # 1
    BY <1>4
  <2>2. \A i, j \in 1 .. n : i # j => mempool[i].run \cap mempool[j].run = {}
    BY <1>4 DEF FundsInv, MempoolOK
  <2>3. \A i \in 1 .. n : mempool[i].run \subseteq Run /\ \A q \in mempool[i].run : Waits(runs[q], mempool[i])
    BY <1>4 DEF FundsInv, MempoolOK, TxType
  <2>4. ASSUME NEW i \in 1 .. n - 1, NEW q \in mempool'[i].run PROVE Waits(runs'[q], mempool'[i])
    <3>1. mempool'[i] = mempool[i + 1] /\ i + 1 \in 1 .. n /\ i + 1 # 1 /\ 1 \in 1 .. n
      BY <1>4, <2>1
    <3>2. q \in Run \ tx.run /\ Waits(runs[q], mempool[i + 1])
      BY <1>4, <2>2, <2>3, <2>4, <3>1
    <3>3. runs[q].at = "wait"
      BY <3>2 DEF Waits
    <3>4. runs[q] # NoRun
      BY <1>1, <3>2, <3>3, RunIs
    <3> QED
      BY <1>9, <3>1, <3>2, <3>4 DEF Waits
  <2>5. ASSUME NEW i \in 1 .. n - 1, NEW j \in 1 .. n - 1, i # j
        PROVE  mempool'[i].run \cap mempool'[j].run = {}
    <3>1. i + 1 \in 1 .. n /\ j + 1 \in 1 .. n /\ i + 1 # j + 1
      BY <1>4, <2>5
    <3>2. mempool[i + 1].run \cap mempool[j + 1].run = {}
      BY <2>2, <3>1
    <3> QED
      BY <1>4, <3>2
  <2> QED
    BY <1>4, <2>4, <2>5 DEF MempoolOK
<1>13. CardInv'
  <2>1. \A q \in Run : runs[q].at = "fetch" => runs'[q].at = "fetch"
    BY <1>8, <1>9
  <2>2. \A q \in Run : Asks(runs[q]) => Asks(runs'[q])
    BY <1>8, <1>9 DEF Asks
  <2>3. \A q \in Run : runs'[q] # NoRun => (OnCard(runs'[q].form) <=> page = "card")
    BY <1>8, <1>9 DEF FundsInv, CardInv, PageOK
  <2>4. CASE unseen
    BY <1>3, <2>1, <2>2, <2>3, <2>4, UnseenKeeps
  <2>5. CASE UNCHANGED cardVars /\ ~ok
    BY <1>2, <1>3, <2>1, <2>2, <2>3, <2>5, CardStays
  <2>6. CASE UNCHANGED cardVars /\ ok /\ \E r \in tx.run : runs[r].mounted
    <3>1. PICK r \in tx.run : runs[r].mounted
      BY <2>6
    <3>2. page' = page /\ card' = card /\ reads' = reads
      BY <1>3, <2>6 DEF cardVars
    <3>3. ReadersOK(reads, runs)'
      <4>1. \A i \in DOMAIN reads : reads[i] \in ReadType
        BY <1>1 DEF FundingTypes
      <4>2. \A i \in DOMAIN reads : reads[i].by \subseteq Run
        BY <4>1 DEF ReadType
      <4> QED
        BY <2>1, <3>2, <4>2 DEF FundsInv, CardInv, ReadersOK
    <3>4. PageOK'
      BY <2>3, <3>2 DEF FundsInv, CardInv, PageOK
    <3>5. CASE page # "card"
      <4>1. reads' = <<>> /\ card'.data = NoData
        BY <3>2, <3>5 DEF FundsInv, CardInv, PageOK
      <4> QED
        BY <3>3, <3>4, <4>1 DEF CardInv, ReadsOK, CardOK
    <3>6. CASE page = "card"
      <4>1. OnCard(runs[r].form)
        BY <1>8, <3>1, <3>6 DEF FundsInv, CardInv, PageOK
      <4>2. Asks(runs'[r])
        BY <1>8, <2>6, <3>1, <4>1 DEF Asks
      <4>3. SomeAsks(runs)'
        BY <1>8, <4>2 DEF SomeAsks
      <4> QED
        BY <3>3, <3>4, <4>3 DEF CardInv, ReadsOK, CardOK
    <3> QED
      BY <3>5, <3>6
  <2> QED
    BY <1>2, <2>4, <2>5, <2>6
<1> QED
  BY <1>10, <1>11, <1>12, <1>13 DEF FundsInv

\* Others move the ledger or the rates: every run is crossed.
LEMMA othersKeep ==
    ASSUME FundsInv, others
    PROVE  FundsInv'
<1>1. /\ \/ ledger' = [ledger EXCEPT !.reserve = ledger.reserve - 1] /\ UNCHANGED rates
         \/ ledger' = [ledger EXCEPT !.vault = ledger.vault - 1] /\ UNCHANGED rates
         \/ rates' \in Rates /\ UNCHANGED ledger
      /\ runs' = Clouded(runs) /\ unseen
      /\ UNCHANGED <<page, strict, mempool, known>>
  BY DEF others
<1>2. FundingTypes
  BY DEF FundsInv
<1>3. ledger' \in LedgerType /\ rates' \in Rates
  <2>1. /\ ledger \in LedgerType /\ ledger.reserve - 1 \in Int /\ ledger.vault - 1 \in Int
        /\ rates \in Rates
    BY <1>2 DEF FundingTypes, LedgerType
  <2> QED
    BY <1>1, <2>1 DEF LedgerType
<1>4. ASSUME NEW r \in Run
      PROVE  \/ runs[r] = NoRun /\ runs'[r] = NoRun
             \/ /\ runs[r] \in RunType /\ runs'[r] \in RunType /\ ~runs'[r].clear
                /\ runs[r] # NoRun
                /\ runs'[r].at = runs[r].at /\ runs'[r].tx = runs[r].tx
                /\ runs'[r].plan = runs[r].plan /\ runs'[r].amount = runs[r].amount
                /\ runs'[r].form = runs[r].form /\ runs'[r].mounted = runs[r].mounted
  <2>1. runs'[r] = IF runs[r] = NoRun THEN NoRun ELSE [runs[r] EXCEPT !.clear = FALSE]
    BY <1>1 DEF Clouded
  <2>2. CASE runs[r] = NoRun
    BY <2>1, <2>2
  <2>3. CASE runs[r] # NoRun
    <3>1. runs[r] \in RunType /\ runs'[r] = [runs[r] EXCEPT !.clear = FALSE]
      BY <1>2, <2>1, <2>3, RunIs
    <3> QED
      BY <2>3, <3>1, CrossedIs
  <2> QED
    BY <2>2, <2>3
<1>5. runs' \in [Run -> RunType \cup {NoRun}]
  <2>1. \A r \in Run : runs'[r] \in RunType \cup {NoRun}
    BY <1>4
  <2>2. runs' = [r \in Run |-> runs'[r]]
    BY <1>1 DEF Clouded
  <2> QED
    BY <2>1, <2>2
<1>6. RunsOK'
  BY <1>4 DEF FundsInv, RunsOK, PlanOK, ClearOK
<1>7. MempoolOK(mempool, runs)'
  <2>1. \A q \in Run : runs[q].at = "wait" => runs[q] # NoRun
    BY <1>2, RunIs
  <2> QED
    BY <1>1, <1>4, <2>1, PoolStays
<1>8. /\ card' \in [data : Answers, loading : BOOLEAN, error : BOOLEAN, doubt : BOOLEAN]
      /\ reads' \in Seq(ReadType) /\ CardInv'
  <2>1. \A q \in Run : runs[q].at = "fetch" => runs'[q].at = "fetch"
    BY <1>4
  <2>2. \A q \in Run : Asks(runs[q]) => Asks(runs'[q])
    <3>1. \A q \in Run : Asks(runs[q]) => runs[q] # NoRun
      BY <1>2, RunIs DEF Asks
    <3> QED
      BY <1>4, <3>1 DEF Asks
  <2>3. \A q \in Run : runs'[q] # NoRun => (OnCard(runs'[q].form) <=> page = "card")
    BY <1>4 DEF FundsInv, CardInv, PageOK
  <2> QED
    BY <1>1, <2>1, <2>2, <2>3, UnseenKeeps
<1>9. FundingTypes'
  BY <1>1, <1>2, <1>3, <1>5, <1>8 DEF FundingTypes
<1> QED
  BY <1>6, <1>7, <1>8, <1>9 DEF FundsInv

---------------------------------------------------------------------------
(* Receipts.                                                                *)

\* One run goes on, and the card, if it changes, asks.
LEMMA OneMoves ==
    ASSUME FundsInv, NEW r \in Run, NEW x \in RunType, runs' = [runs EXCEPT ![r] = x],
           UNCHANGED <<ledger, strict, rates, mempool, known>>,
           PlanOK(x), ClearOK(x, ledger, strict, rates),
           runs[r].at \in {"sign", "wait", "fetch", "register", "done", "failed"},
           ~(runs[r].at = "wait" /\ runs[r].tx = "sent")
    PROVE  /\ runs' \in [Run -> RunType \cup {NoRun}] /\ RunsOK' /\ MempoolOK(mempool, runs)'
           /\ runs'[r] = x /\ \A q \in Run \ {r} : runs'[q] = runs[q]
<1>1. runs' \in [Run -> RunType \cup {NoRun}] /\ RunsOK'
  BY OneGoes
<1>2. runs'[r] = x /\ \A q \in Run \ {r} : runs'[q] = runs[q]
  BY DEF FundsInv, FundingTypes
<1>3. MempoolOK(mempool, runs)'
  BY <1>2, PoolStays
<1> QED
  BY <1>1, <1>2, <1>3

\* A read is added to those under way.
LEMMA AsksAgain ==
    ASSUME FundsInv, page = "card", UNCHANGED <<page, ledger>>, NEW by \in SUBSET Run,
           reads' = Append(reads, Read(by)),
           card' = [card EXCEPT !.loading = TRUE, !.error = FALSE],
           \A q \in by : by = {q} /\ runs[q].at # "fetch" /\ runs'[q].at = "fetch",
           \A q \in Run : runs[q].at = "fetch" => runs'[q].at = "fetch",
           \A q \in Run : runs'[q] # NoRun => OnCard(runs'[q].form)
    PROVE  /\ card' \in [data : Answers, loading : BOOLEAN, error : BOOLEAN, doubt : BOOLEAN]
           /\ reads' \in Seq(ReadType)
           /\ CardInv'
<1> DEFINE n == Len(reads)
           q0 == Read(by)
<1>1. card \in [data : Answers, loading : BOOLEAN, error : BOOLEAN, doubt : BOOLEAN] /\ reads \in Seq(ReadType)
  BY DEF FundsInv, FundingTypes
<1>2. q0 \in ReadType /\ q0.by = by /\ q0.answer = NotRead /\ ~q0.old
  BY DEF Read, ReadType, Answers, NotRead
<1> HIDE DEF q0
<1>3. /\ n \in Nat /\ reads' \in Seq(ReadType) /\ DOMAIN reads = 1 .. n /\ DOMAIN reads' = 1 .. n + 1
      /\ reads'[n + 1] = q0 /\ \A i \in 1 .. n : reads'[i] = reads[i]
  BY <1>1, <1>2 DEF q0
<1> HIDE DEF n
<1>4. card' \in [data : Answers, loading : BOOLEAN, error : BOOLEAN, doubt : BOOLEAN]
  BY <1>1
<1>5. Good(q0, ledger')
  BY <1>2 DEF Good
<1>6. n + 1 \in 1 .. n + 1 /\ \A i \in 1 .. n + 1 : i = n + 1 \/ (i \in 1 .. n /\ n + 1 > i)
  BY <1>3
<1>7. ReadsOK(reads, runs, ledger)' /\ CardOK(card, reads, runs, ledger)'
  BY <1>3, <1>5, <1>6 DEF ReadsOK, CardOK
<1>8. ReadersOK(reads, runs)'
  <2>1. \A i \in 1 .. n : reads[i].by \subseteq Run
    <3>1. \A i \in 1 .. n : reads[i] \in ReadType
      BY <1>1, <1>3
    <3> QED
      BY <3>1 DEF ReadType
  <2>2. \A i \in 1 .. n : \A q \in reads[i].by : reads[i].by = {q} /\ runs[q].at = "fetch"
    BY <1>3 DEF FundsInv, CardInv, ReadersOK
  <2>3. \A i \in DOMAIN reads' : \A q \in reads'[i].by : reads'[i].by = {q} /\ runs'[q].at = "fetch"
    BY <1>2, <1>3, <1>6, <2>1, <2>2
  <2>4. \A i, j \in 1 .. n : i # j => reads[i].by \cap reads[j].by = {}
    BY <1>3 DEF FundsInv, CardInv, ReadersOK
  <2>5. \A i \in 1 .. n : reads[i].by \cap by = {}
    BY <2>2
  <2>6. \A i, j \in DOMAIN reads' : i # j => reads'[i].by \cap reads'[j].by = {}
    BY <1>2, <1>3, <1>6, <2>4, <2>5
  <2> QED
    BY <2>3, <2>6 DEF ReadersOK
<1>9. PageOK'
  BY DEF PageOK
<1> QED
  BY <1>3, <1>4, <1>7, <1>8, <1>9 DEF CardInv

LEMMA registeredKeeps ==
    ASSUME FundsInv, NEW r \in Run, registered(r)
    PROVE  FundsInv'
<1> DEFINE x == [runs[r] EXCEPT !.at = "done"]
<1>1. /\ runs[r].at = "register" /\ runs' = [runs EXCEPT ![r] = x]
      /\ page' \in {"deposit", "done"}
      /\ UNCHANGED <<ledger, strict, rates, mempool, known, card, reads>>
  BY DEF registered, Goes, chainVars, cardVars
<1>2. FundingTypes
  BY DEF FundsInv
<1>3. runs[r] \in RunType /\ runs[r] # NoRun
  BY <1>1, <1>2, RunIs
<1>4. /\ x \in RunType /\ x.at = "done" /\ x.tx = runs[r].tx /\ x.plan = runs[r].plan
      /\ x.amount = runs[r].amount /\ x.form = runs[r].form /\ x.clear = runs[r].clear
      /\ x.shown = runs[r].shown /\ x.before = runs[r].before
  BY <1>3 DEF RunType
<1> HIDE DEF x
<1>5. PlanOK(runs[r]) /\ ClearOK(runs[r], ledger, strict, rates)
  BY <1>3 DEF FundsInv, RunsOK
<1>6. PlanOK(x) /\ ClearOK(x, ledger, strict, rates)
  <2>1. PlanOK(x)
    BY <1>4, <1>5 DEF PlanOK
  <2>2. ASSUME x.clear
        PROVE  /\ x.form \in {"deposit", "withdraw"} => x.shown = rates
               /\ Stage(x, ledger, strict)
    <3>1. /\ runs[r].form \in {"deposit", "withdraw"} => runs[r].shown = rates
          /\ Stage(runs[r], ledger, strict)
      BY <1>1, <1>4, <1>5, <2>2 DEF ClearOK
    <3>2. Kept(runs[r], ledger)
      BY <1>1, <3>1 DEF Stage
    <3>3. Kept(x, ledger)
      BY <1>4, <3>2 DEF Kept
    <3> QED
      BY <1>4, <3>1, <3>3 DEF Stage
  <2> QED
    BY <2>1, <2>2, Zenon DEF ClearOK
<1>7. /\ runs' \in [Run -> RunType \cup {NoRun}] /\ RunsOK' /\ MempoolOK(mempool, runs)'
      /\ runs'[r] = x /\ \A q \in Run \ {r} : runs'[q] = runs[q]
  BY <1>1, <1>4, <1>6, OneMoves
<1>8. FundingTypes'
  BY <1>1, <1>2, <1>7 DEF FundingTypes
<1>9. CardInv'
  <2>1. page # "card"
    <3>1. runs[r].form = "create"
      BY <1>1, <1>5 DEF PlanOK
    <3> QED
      BY <1>3, <3>1 DEF FundsInv, CardInv, PageOK, OnCard
  <2>2. \A q \in Run : runs[q].at = "fetch" => runs'[q].at = "fetch"
    BY <1>1, <1>7
  <2>3. \A q \in Run : Asks(runs[q]) => Asks(runs'[q])
    BY <1>1, <1>7 DEF Asks
  <2>4. \A q \in Run : runs'[q] # NoRun => (OnCard(runs'[q].form) <=> page = "card")
    BY <1>3, <1>4, <1>7 DEF FundsInv, CardInv, PageOK
  <2>5. UNCHANGED cardVars /\ Reserve(ledger)' = Reserve(ledger)
    BY <1>1 DEF cardVars
  <2>6. page' = page \/ (page # "card" /\ page' # "card")
    BY <1>1, <2>1
  <2> QED
    BY <2>2, <2>3, <2>4, <2>5, <2>6, CardStays
<1> QED
  BY <1>7, <1>8, <1>9 DEF FundsInv

\* The next transaction of a deposit; the end of a run, well or not; a read of the
\* card that will show it.
LEMMA receiptKeeps ==
    ASSUME FundsInv, NEW r \in Run, receipt(r)
    PROVE  FundsInv'
<1> DEFINE run == runs[r]
<1>1. /\ run.at = "wait" /\ run.tx \in {"ok", "reverted"}
      /\ UNCHANGED <<ledger, strict, rates, mempool, known>>
  BY DEF receipt, chainVars
<1>2. FundingTypes
  BY DEF FundsInv
<1>3. run \in RunType /\ run # NoRun
  BY <1>1, <1>2, RunIs
<1>4. PlanOK(run) /\ ClearOK(run, ledger, strict, rates)
  BY <1>3 DEF FundsInv, RunsOK
<1>5. ASSUME run.clear
      PROVE  /\ run.form \in {"deposit", "withdraw"} => run.shown = rates
             /\ run.tx = "ok" => Passed(run, ledger)
             /\ run.tx = "reverted" => run.form = "create" /\ Same(run, ledger)
  BY <1>1, <1>4, <1>5 DEF ClearOK, Stage
<1>6. run.plan \in Plans /\ run.form \in Form
  BY <1>3 DEF RunType
<1> HIDE DEF run
<1>7. CASE Tail(run.plan) # <<>>
  <2> DEFINE x == [run EXCEPT !.at = "sign", !.plan = Tail(run.plan), !.tx = "none"]
  <2>1. runs' = [runs EXCEPT ![r] = x] /\ UNCHANGED <<page, card, reads>>
    BY <1>7 DEF receipt, Goes, cardVars, run
  <2>2. /\ run.form = "deposit"
        /\ \/ run.plan = Deposit3 /\ Tail(run.plan) = Deposit2
           \/ run.plan = Deposit2 /\ Tail(run.plan) = Deposit1
    BY <1>4, <1>6, <1>7, PlanParts DEF PlanOK, DepositPlans
  <2>3. /\ x \in RunType /\ x.at = "sign" /\ x.tx = "none" /\ x.plan = Tail(run.plan)
        /\ x.amount = run.amount /\ x.form = run.form /\ x.clear = run.clear
        /\ x.shown = run.shown /\ x.before = run.before
    <3>1. Tail(run.plan) \in Plans
      BY <2>2 DEF Plans, DepositPlans
    <3> QED
      BY <1>3, <3>1 DEF RunType
  <2> HIDE DEF x
  <2>4. PlanOK(x)
    BY <2>2, <2>3 DEF PlanOK, DepositPlans
  <2>5. ClearOK(x, ledger, strict, rates)
    <3> SUFFICES ASSUME run.clear
                 PROVE  run.shown = rates /\ Same(x, ledger) /\ Ready(x, ledger, strict)
      <4>1. Same(x, ledger) /\ Ready(x, ledger, strict) => Stage(x, ledger, strict)
        BY <2>3 DEF Stage
      <4> QED
        BY <2>3, <4>1 DEF ClearOK
    <3>1. run.tx = "ok" /\ Passed(run, ledger)
      BY <1>1, <1>5, <2>2
    <3>2. /\ Same(run, ledger) /\ run.amount <= ledger.wallet
          /\ run.plan = Deposit3 => ledger.allowance = 0
          /\ run.plan = Deposit2 => ledger.allowance = Unlimited
      BY <2>2, <3>1, PlanParts DEF Passed
    <3>3. run.amount <= Unlimited
      <4>1. run.amount \in 0 .. Unlimited
        BY <1>3 DEF RunType
      <4> QED
        BY <4>1 DEF Unlimited
    <3>4. Ready(x, ledger, strict)
      BY <2>2, <2>3, <3>2, <3>3, PlanParts DEF Ready
    <3> QED
      BY <1>5, <2>2, <2>3, <3>2, <3>4 DEF Same
  <2>6. /\ runs' \in [Run -> RunType \cup {NoRun}] /\ RunsOK' /\ MempoolOK(mempool, runs)'
        /\ runs'[r] = x /\ \A q \in Run \ {r} : runs'[q] = runs[q]
    BY <1>1, <2>1, <2>3, <2>4, <2>5, OneMoves DEF run
  <2>7. FundingTypes'
    BY <1>1, <1>2, <2>1, <2>6 DEF FundingTypes
  <2>8. CardInv'
    <3>1. \A q \in Run : runs[q].at = "fetch" => runs'[q].at = "fetch"
      BY <1>1, <2>6 DEF run
    <3>2. \A q \in Run : Asks(runs[q]) => Asks(runs'[q])
      BY <2>2, <2>6 DEF Asks, run, OnCard
    <3>3. \A q \in Run : runs'[q] # NoRun => (OnCard(runs'[q].form) <=> page = "card")
      BY <1>3, <2>3, <2>6 DEF FundsInv, CardInv, PageOK, run
    <3> QED
      BY <1>1, <2>1, <3>1, <3>2, <3>3, CardStays DEF cardVars
  <2> QED
    BY <2>6, <2>7, <2>8 DEF FundsInv
<1>8. ASSUME Tail(run.plan) = <<>>, NEW at \in {"register", "failed", "fetch", "done"},
             at = "register" => run.form = "create" /\ run.tx = "ok",
             at = "failed" => run.form = "create" /\ run.tx = "reverted",
             at \in {"fetch", "done"} => run.form # "create",
             runs' = [runs EXCEPT ![r] = [run EXCEPT !.at = at]]
      PROVE  /\ runs' \in [Run -> RunType \cup {NoRun}] /\ RunsOK' /\ MempoolOK(mempool, runs)'
             /\ runs'[r].at = at /\ runs'[r].form = run.form /\ runs'[r] # NoRun
             /\ \A q \in Run \ {r} : runs'[q] = runs[q]
  <2> DEFINE x == [run EXCEPT !.at = at]
  <2>1. /\ x \in RunType /\ x.at = at /\ x.tx = run.tx /\ x.plan = run.plan
        /\ x.amount = run.amount /\ x.form = run.form /\ x.clear = run.clear
        /\ x.shown = run.shown /\ x.before = run.before
    BY <1>3 DEF RunType
  <2>2. runs' = [runs EXCEPT ![r] = x]
    BY <1>8
  <2> HIDE DEF x
  <2>3. PlanOK(x)
    BY <1>4, <1>8, <2>1 DEF PlanOK
  <2>4. run.plan \notin {Deposit2, Deposit3}
    BY <1>8, PlanParts
  <2>5. ASSUME run.clear PROVE run.tx = "ok" => Kept(run, ledger)
    BY <1>5, <2>4, <2>5 DEF Passed
  <2>6. ASSUME run.clear PROVE Stage(x, ledger, strict)
    <3>1. Kept(run, ledger) => Kept(x, ledger)
      BY <2>1 DEF Kept
    <3>2. Same(run, ledger) => Same(x, ledger)
      BY <2>1 DEF Same
    <3>3. at \in {"register", "fetch", "done"} => Kept(x, ledger)
      BY <1>1, <1>5, <1>8, <2>5, <2>6, <3>1
    <3>4. at = "failed" => Same(x, ledger)
      BY <1>5, <1>8, <2>6, <3>2
    <3> QED
      BY <2>1, <3>3, <3>4 DEF Stage
  <2>7. ClearOK(x, ledger, strict, rates)
    BY <1>5, <2>1, <2>6 DEF ClearOK
  <2>8. /\ runs' \in [Run -> RunType \cup {NoRun}] /\ RunsOK' /\ MempoolOK(mempool, runs)'
        /\ runs'[r] = x /\ \A q \in Run \ {r} : runs'[q] = runs[q]
    BY <1>1, <2>1, <2>2, <2>3, <2>7, OneMoves DEF run
  <2> QED
    BY <2>1, <2>8, NoRunIsNone
<1>9. CASE Tail(run.plan) = <<>> /\ OnCard(run.form) /\ run.mounted
  <2>1. /\ runs' = [runs EXCEPT ![r] = [run EXCEPT !.at = "fetch"]]
        /\ reads' = Append(reads, Read({r}))
        /\ card' = [card EXCEPT !.loading = TRUE, !.error = FALSE]
        /\ UNCHANGED page /\ run.form # "create"
    BY <1>9 DEF receipt, run, OnCard
  <2>2. /\ runs' \in [Run -> RunType \cup {NoRun}] /\ RunsOK' /\ MempoolOK(mempool, runs)'
        /\ runs'[r].at = "fetch" /\ runs'[r].form = run.form /\ runs'[r] # NoRun
        /\ \A q \in Run \ {r} : runs'[q] = runs[q]
    BY <1>8, <1>9, <2>1
  <2>3. page = "card"
    BY <1>3, <1>9 DEF FundsInv, CardInv, PageOK, run
  <2>4. /\ card' \in [data : Answers, loading : BOOLEAN, error : BOOLEAN, doubt : BOOLEAN]
        /\ reads' \in Seq(ReadType) /\ CardInv'
    <3>1. \A q \in {r} : {r} = {q} /\ runs[q].at # "fetch" /\ runs'[q].at = "fetch"
      BY <1>1, <2>2 DEF run
    <3>2. \A q \in Run : runs[q].at = "fetch" => runs'[q].at = "fetch"
      BY <2>2
    <3>3. \A q \in Run : runs'[q] # NoRun => OnCard(runs'[q].form)
      BY <1>9, <2>2, <2>3 DEF FundsInv, CardInv, PageOK
    <3>4. {r} \in SUBSET Run
      OBVIOUS
    <3> QED
      BY <1>1, <2>1, <2>3, <3>1, <3>2, <3>3, <3>4, AsksAgain
  <2>5. FundingTypes'
    BY <1>1, <1>2, <2>2, <2>4 DEF FundingTypes
  <2> QED
    BY <2>2, <2>4, <2>5 DEF FundsInv
<1>10. CASE Tail(run.plan) = <<>> /\ ~(OnCard(run.form) /\ run.mounted)
  <2>1. PICK at \in {"register", "failed", "done"} :
           /\ at = "register" => run.form = "create" /\ run.tx = "ok"
           /\ at = "failed" => run.form = "create" /\ run.tx = "reverted"
           /\ at = "done" => run.form # "create"
           /\ runs' = [runs EXCEPT ![r] = [run EXCEPT !.at = at]]
           /\ UNCHANGED <<card, reads>>
           /\ page' = page \/ (page # "card" /\ page' # "card")
    <3>1. CASE run.form = "create" /\ run.tx = "ok"
      BY <1>10, <3>1 DEF receipt, Goes, run, cardVars, OnCard
    <3>2. CASE run.form = "create" /\ run.tx # "ok"
      BY <1>1, <1>10, <3>2 DEF receipt, Goes, run, cardVars, OnCard
    <3>3. CASE run.form # "create"
      BY <1>10, <3>3 DEF receipt, Goes, run, cardVars
    <3> QED
      BY <3>1, <3>2, <3>3
  <2>2. /\ runs' \in [Run -> RunType \cup {NoRun}] /\ RunsOK' /\ MempoolOK(mempool, runs)'
        /\ runs'[r].at = at /\ runs'[r].form = run.form /\ runs'[r] # NoRun
        /\ \A q \in Run \ {r} : runs'[q] = runs[q]
    BY <1>8, <1>10, <2>1
  <2>3. FundingTypes'
    BY <1>1, <1>2, <2>1, <2>2 DEF FundingTypes
  <2>4. CardInv'
    <3>1. \A q \in Run : runs[q].at = "fetch" => runs'[q].at = "fetch"
      BY <1>1, <2>2 DEF run
    <3>2. \A q \in Run : Asks(runs[q]) => Asks(runs'[q])
      BY <1>10, <2>2 DEF Asks, run
    <3>3. \A q \in Run : runs'[q] # NoRun => (OnCard(runs'[q].form) <=> page = "card")
      BY <1>3, <2>2 DEF FundsInv, CardInv, PageOK, run
    <3>4. UNCHANGED cardVars /\ UNCHANGED ledger
      BY <1>1, <2>1 DEF cardVars
    <3> QED
      BY <2>1, <3>1, <3>2, <3>3, <3>4, CardStays
  <2> QED
    BY <2>2, <2>3, <2>4 DEF FundsInv
<1> QED
  BY <1>7, <1>9, <1>10

---------------------------------------------------------------------------
(* Pages.                                                                   *)

\* Nothing that the invariant speaks of moves but, on other pages, the page.
LEMMA PageTurns ==
    ASSUME FundsInv, UNCHANGED <<chainVars, runs, cardVars>>,
           page' = page \/ (page # "card" /\ page' # "card"),
           \/ UNCHANGED known
           \/ known' = [known EXCEPT !.allowance = ledger.allowance]
    PROVE  FundsInv'
<1>1. UNCHANGED <<ledger, strict, rates, mempool, runs, card, reads>>
  BY DEF chainVars, cardVars
<1>2. known'.allowance \in Int /\ known'.rates = known.rates /\ DOMAIN known' = {"allowance", "rates"}
  BY DEF FundsInv, FundingTypes, LedgerType
<1>3. FundingTypes'
  BY <1>1, <1>2 DEF FundsInv, FundingTypes
<1>4. RunsOK' /\ MempoolOK(mempool, runs)'
  BY <1>1 DEF FundsInv, RunsOK
<1>5. CardInv'
  <2>1. \A q \in Run : runs'[q] # NoRun => (OnCard(runs'[q].form) <=> page = "card")
    BY <1>1 DEF FundsInv, CardInv, PageOK
  <2> QED
    BY <1>1, <2>1, CardStays
<1> QED
  BY <1>3, <1>4, <1>5 DEF FundsInv

LEMMA openVaultKeeps ==
    ASSUME FundsInv, openVault
    PROVE  FundsInv'
<1>1. /\ page' = IF page = "done" THEN "vault" ELSE page
      /\ runs' = [r \in Run |->
            IF runs[r] = NoRun THEN NoRun
            ELSE IF runs[r].at = "fetch" THEN [runs[r] EXCEPT !.at = "done", !.mounted = FALSE]
            ELSE [runs[r] EXCEPT !.mounted = FALSE]]
      /\ card' = [data |-> NoData, loading |-> page = "card", error |-> FALSE, doubt |-> FALSE]
      /\ reads' = IF page = "card" THEN <<Read({})>> ELSE <<>>
      /\ UNCHANGED <<ledger, strict, rates, mempool>>
  BY DEF openVault, chainVars
<1>2. PICK q0 \in Rates : known' = [allowance |-> 0, rates |-> q0]
  BY DEF openVault
<1>3. FundingTypes
  BY DEF FundsInv
<1>4. ASSUME NEW r \in Run
      PROVE  \/ runs[r] = NoRun /\ runs'[r] = NoRun
             \/ /\ runs[r] \in RunType /\ runs'[r] \in RunType /\ runs[r] # NoRun
                /\ \/ runs'[r].at = runs[r].at
                   \/ runs[r].at = "fetch" /\ runs'[r].at = "done"
                /\ runs'[r].tx = runs[r].tx
                /\ runs'[r].plan = runs[r].plan /\ runs'[r].amount = runs[r].amount
                /\ runs'[r].form = runs[r].form /\ runs'[r].clear = runs[r].clear
                /\ runs'[r].shown = runs[r].shown /\ runs'[r].before = runs[r].before
  <2>1. CASE runs[r] = NoRun
    BY <1>1, <2>1
  <2>2. CASE runs[r] # NoRun /\ runs[r].at = "fetch"
    <3>1. runs[r] \in RunType /\ runs'[r] = [runs[r] EXCEPT !.at = "done", !.mounted = FALSE]
      BY <1>1, <1>3, <2>2, RunIs
    <3> QED
      BY <2>2, <3>1 DEF RunType
  <2>3. CASE runs[r] # NoRun /\ runs[r].at # "fetch"
    <3>1. runs[r] \in RunType /\ runs'[r] = [runs[r] EXCEPT !.mounted = FALSE]
      BY <1>1, <1>3, <2>3, RunIs
    <3> QED
      BY <2>3, <3>1 DEF RunType
  <2> QED
    BY <2>1, <2>2, <2>3
<1>5. runs' \in [Run -> RunType \cup {NoRun}]
  <2>1. \A r \in Run : runs'[r] \in RunType \cup {NoRun}
    BY <1>4
  <2>2. runs' = [r \in Run |-> runs'[r]]
    BY <1>1
  <2> QED
    BY <2>1, <2>2
<1>6. Read({}) \in ReadType /\ Read({}).answer = NotRead /\ ~Read({}).old /\ Read({}).by = {}
  BY DEF Read, ReadType, NotRead, Answers
<1>7. FundingTypes'
  <2>1. card' \in [data : Answers, loading : BOOLEAN, error : BOOLEAN, doubt : BOOLEAN]
    <3>1. card' = [data |-> NoData, loading |-> page = "card", error |-> FALSE, doubt |-> FALSE]
      BY <1>1
    <3>2. NoData \in Answers
      BY DEF Answers, NoData
    <3> QED
      BY <3>1, <3>2
  <2>2. \A q \in ReadType : <<q>> \in Seq(ReadType)
    OBVIOUS
  <2>3. reads' \in Seq(ReadType)
    <3>1. reads' = IF page = "card" THEN <<Read({})>> ELSE <<>>
      BY <1>1
    <3> QED
      BY <1>6, <2>2, <3>1
  <2>4. known'.allowance \in Int /\ known'.rates \in Rates /\ DOMAIN known' = {"allowance", "rates"}
    BY <1>2
  <2> QED
    BY <1>1, <1>3, <1>5, <2>1, <2>3, <2>4 DEF FundingTypes
<1>8. RunsOK'
  <2> SUFFICES ASSUME NEW r \in Run, runs'[r] # NoRun
               PROVE  PlanOK(runs'[r]) /\ ClearOK(runs'[r], ledger', strict', rates')
    BY DEF RunsOK
  <2>1. PlanOK(runs[r]) /\ ClearOK(runs[r], ledger, strict, rates)
    BY <1>4 DEF FundsInv, RunsOK
  <2>2. PlanOK(runs'[r])
    BY <1>4, <2>1 DEF PlanOK
  <2>3. ASSUME runs[r].clear, Stage(runs[r], ledger, strict) PROVE Stage(runs'[r], ledger, strict)
    BY <1>4, <2>3 DEF Stage, Same, Ready, Passed, Kept
  <2>4. ClearOK(runs'[r], ledger', strict', rates')
    BY <1>1, <1>4, <2>1, <2>3 DEF ClearOK
  <2> QED
    BY <2>2, <2>4
<1>9. MempoolOK(mempool, runs)'
  <2>1. \A q \in Run : runs[q].at = "wait" => runs[q] # NoRun
    BY <1>3, RunIs
  <2> QED
    BY <1>1, <1>4, <2>1, PoolStays
<1>10. CardInv'
  <2>1. PageOK'
    BY <1>1, <1>4 DEF FundsInv, CardInv, PageOK
  <2>2. CASE page = "card"
    <3>1. reads' = <<Read({})>>
      BY <1>1, <2>2
    <3>2. DOMAIN reads' = {1} /\ reads'[1] = Read({})
      BY <3>1
    <3>3. Good(reads'[1], ledger')
      BY <1>6, <3>2 DEF Good
    <3> QED
      BY <1>6, <2>1, <3>2, <3>3 DEF CardInv, ReadersOK, ReadsOK, CardOK
  <2>3. CASE page # "card"
    <3>1. reads' = <<>> /\ card'.data = NoData
      BY <1>1, <2>3
    <3> QED
      BY <2>1, <3>1 DEF CardInv, ReadersOK, ReadsOK, CardOK
  <2> QED
    BY <2>2, <2>3
<1> QED
  BY <1>7, <1>8, <1>9, <1>10 DEF FundsInv

LEMMA refreshKeeps ==
    ASSUME FundsInv, refresh
    PROVE  FundsInv'
<1>1. /\ page = "card" /\ reads' = Append(reads, Read({}))
      /\ card' = [card EXCEPT !.loading = TRUE, !.error = FALSE]
      /\ UNCHANGED <<page, ledger, strict, rates, mempool, known, runs>>
  BY DEF refresh, chainVars
<1>2. /\ card' \in [data : Answers, loading : BOOLEAN, error : BOOLEAN, doubt : BOOLEAN]
      /\ reads' \in Seq(ReadType) /\ CardInv'
  <2>1. \A q \in Run : runs'[q] # NoRun => OnCard(runs'[q].form)
    BY <1>1 DEF FundsInv, CardInv, PageOK
  <2>2. {} \in SUBSET Run
    OBVIOUS
  <2> QED
    BY <1>1, <2>1, <2>2, AsksAgain
<1>3. FundingTypes' /\ RunsOK' /\ MempoolOK(mempool, runs)'
  BY <1>1, <1>2 DEF FundsInv, FundingTypes, RunsOK
<1> QED
  BY <1>2, <1>3 DEF FundsInv

LEMMA readChainKeeps ==
    ASSUME FundsInv, NEW i \in DOMAIN reads, readChain(i)
    PROVE  FundsInv'
<1>1. /\ reads[i].answer = NotRead
      /\ UNCHANGED <<page, ledger, strict, rates, mempool, known, runs, card>>
  BY DEF readChain, chainVars
<1>2. PICK a \in {Reserve(ledger), Failed} : reads' = [reads EXCEPT ![i] = [reads[i] EXCEPT !.answer = a]]
  BY DEF readChain
<1>3. FundingTypes
  BY DEF FundsInv
<1>4. reads[i] \in ReadType /\ a \in Answers
  <2>1. Reserve(ledger) \in Answers
    BY <1>3 DEF FundingTypes, LedgerType, Reserve, Answers
  <2> QED
    BY <1>2, <1>3, <2>1 DEF FundingTypes, Failed, Answers
<1> DEFINE q0 == [reads[i] EXCEPT !.answer = a]
<1>5. q0 \in ReadType /\ q0.by = reads[i].by /\ q0.old = reads[i].old /\ q0.answer = a
  BY <1>4 DEF ReadType
<1>6. reads' = [reads EXCEPT ![i] = q0]
  BY <1>2
<1> HIDE DEF q0
<1>7. /\ reads' \in Seq(ReadType) /\ DOMAIN reads' = DOMAIN reads /\ reads'[i] = q0
      /\ \A j \in DOMAIN reads : j # i => reads'[j] = reads[j]
      /\ reads = <<>> <=> reads' = <<>>
  BY <1>3, <1>5, <1>6 DEF FundingTypes
<1>8. FundingTypes' /\ RunsOK' /\ MempoolOK(mempool, runs)'
  BY <1>1, <1>3, <1>7 DEF FundsInv, FundingTypes, RunsOK
<1>9. CardInv'
  <2>1. \A j \in DOMAIN reads : reads'[j].by = reads[j].by
    BY <1>5, <1>7
  <2>2. ReadersOK(reads, runs)'
    BY <1>1, <1>7, <2>1 DEF FundsInv, CardInv, ReadersOK
  <2>3. \A j \in DOMAIN reads : (Good(reads[j], ledger) => Good(reads'[j], ledger)) /\
                                (reads[j].old => reads'[j].old)
    BY <1>2, <1>5, <1>7 DEF Good
  <2>4. ReadsOK(reads, runs, ledger)' /\ CardOK(card, reads, runs, ledger)'
    BY <1>1, <1>7, <2>3 DEF FundsInv, CardInv, ReadsOK, CardOK
  <2>5. PageOK'
    BY <1>1, <1>7 DEF FundsInv, CardInv, PageOK
  <2> QED
    BY <2>2, <2>4, <2>5 DEF CardInv
<1> QED
  BY <1>8, <1>9 DEF FundsInv

\* An a replaces what the card shows; the reads before it are old from then on.
LEMMA arriveKeeps ==
    ASSUME FundsInv, NEW i \in DOMAIN reads, arrive(i)
    PROVE  FundsInv'
<1> DEFINE q == reads[i]
           n == Len(reads)
<1>1. /\ q.answer # NotRead
      /\ reads' = [j \in 1 .. n - 1 |-> IF j < i THEN [reads[j] EXCEPT !.old = TRUE] ELSE reads[j + 1]]
      /\ card' = IF q.answer = Failed
                 THEN [card EXCEPT !.loading = FALSE, !.error = TRUE]
                 ELSE [card EXCEPT !.loading = FALSE, !.data = q.answer, !.doubt = q.old]
      /\ UNCHANGED <<page, ledger, strict, rates, mempool, known>>
  BY DEF arrive, chainVars
<1>2. \/ q.by = {} /\ UNCHANGED runs
      \/ \E r \in q.by : runs' = [runs EXCEPT ![r] = [runs[r] EXCEPT !.at = "done"]]
  BY DEF arrive, Goes
<1>3. FundingTypes
  BY DEF FundsInv
<1>4. /\ n \in Nat /\ i \in 1 .. n /\ DOMAIN reads = 1 .. n /\ \A j \in 1 .. n : reads[j] \in ReadType
      /\ q \in ReadType
  BY <1>3 DEF FundingTypes
<1> HIDE DEF n, q
<1>5. q.answer \in Answers /\ q.old \in BOOLEAN /\ q.by \subseteq Run
  BY <1>4 DEF ReadType
<1>6. /\ card' \in [data : Answers, loading : BOOLEAN, error : BOOLEAN, doubt : BOOLEAN]
      /\ q.answer = Failed => card'.error
      /\ q.answer # Failed => card'.data = q.answer /\ card'.doubt = q.old
  <2>1. card \in [data : Answers, loading : BOOLEAN, error : BOOLEAN, doubt : BOOLEAN]
    BY <1>3 DEF FundingTypes
  <2> QED
    BY <1>1, <1>5, <2>1
<1> DEFINE Came(j) == IF j < i THEN j ELSE j + 1
<1>7. ASSUME NEW j \in 1 .. n - 1
      PROVE  /\ Came(j) \in 1 .. n /\ Came(j) # i /\ reads'[j] \in ReadType
             /\ reads'[j].by = reads[Came(j)].by
             /\ j < i => reads'[j].old
             /\ j >= i => reads'[j] = reads[Came(j)] /\ Came(j) = j + 1
  <2>1. CASE j < i
    <3>1. reads[j] \in ReadType /\ reads'[j] = [reads[j] EXCEPT !.old = TRUE] /\ Came(j) = j
      BY <1>1, <1>4, <2>1
    <3>2. reads'[j] \in ReadType /\ reads'[j].by = reads[j].by /\ reads'[j].old
      BY <3>1 DEF ReadType
    <3>3. j \in 1 .. n /\ j # i /\ ~(j >= i)
      BY <1>4, <2>1
    <3> QED
      BY <2>1, <3>1, <3>2, <3>3
  <2>2. CASE ~(j < i)
    <3>1. reads'[j] = reads[j + 1] /\ j + 1 \in 1 .. n /\ Came(j) = j + 1
      BY <1>1, <1>4, <2>2
    <3> QED
      BY <1>4, <2>2, <3>1
  <2> QED
    BY <2>1, <2>2
<1>8. DOMAIN reads' = 1 .. n - 1 /\ reads' \in Seq(ReadType)
  <2>1. n - 1 \in Nat
    BY <1>4
  <2>2. reads' \in [1 .. n - 1 -> ReadType]
    BY <1>1, <1>7
  <2> QED
    BY <2>1, <2>2
<1>9. ASSUME NEW j \in 1 .. n - 1, NEW k \in 1 .. n - 1, j # k PROVE Came(j) # Came(k)
  BY <1>4, <1>9
<1> HIDE DEF Came
<1>10. /\ \A j \in 1 .. n : \A r \in reads[j].by : reads[j].by = {r} /\ runs[r].at = "fetch"
       /\ \A j, k \in 1 .. n : j # k => reads[j].by \cap reads[k].by = {}
  BY <1>4 DEF FundsInv, CardInv, ReadersOK
<1>11. /\ runs' \in [Run -> RunType \cup {NoRun}] /\ RunsOK' /\ MempoolOK(mempool, runs)'
       /\ \A r \in Run : r \notin q.by => runs'[r] = runs[r]
       /\ \A r \in Run : Asks(runs[r]) => Asks(runs'[r])
       /\ \A r \in Run : runs'[r] # NoRun => (OnCard(runs'[r].form) <=> page = "card")
  <2>1. CASE q.by = {} /\ UNCHANGED runs
    BY <1>1, <1>3, <2>1 DEF FundsInv, FundingTypes, RunsOK, CardInv, PageOK
  <2>2. ASSUME NEW r \in q.by, runs' = [runs EXCEPT ![r] = [runs[r] EXCEPT !.at = "done"]]
        PROVE  /\ runs' \in [Run -> RunType \cup {NoRun}] /\ RunsOK' /\ MempoolOK(mempool, runs)'
               /\ \A p \in Run : p \notin q.by => runs'[p] = runs[p]
               /\ \A p \in Run : Asks(runs[p]) => Asks(runs'[p])
               /\ \A p \in Run : runs'[p] # NoRun => (OnCard(runs'[p].form) <=> page = "card")
    <3> DEFINE x == [runs[r] EXCEPT !.at = "done"]
    <3>1. q.by = {r} /\ runs[r].at = "fetch" /\ r \in Run
      BY <1>4, <1>5, <1>10, <2>2 DEF q
    <3>2. runs[r] \in RunType /\ runs[r] # NoRun
      BY <1>3, <3>1, RunIs
    <3>3. /\ x \in RunType /\ x.at = "done" /\ x.tx = runs[r].tx /\ x.plan = runs[r].plan
          /\ x.amount = runs[r].amount /\ x.form = runs[r].form /\ x.clear = runs[r].clear
          /\ x.shown = runs[r].shown /\ x.before = runs[r].before
      BY <3>2 DEF RunType
    <3>4. runs' = [runs EXCEPT ![r] = x]
      BY <2>2
    <3> HIDE DEF x
    <3>5. PlanOK(runs[r]) /\ ClearOK(runs[r], ledger, strict, rates)
      BY <3>1, <3>2 DEF FundsInv, RunsOK
    <3>6. PlanOK(x)
      BY <3>3, <3>5 DEF PlanOK
    <3>7. Stage(runs[r], ledger, strict) => Stage(x, ledger, strict)
      BY <3>1, <3>3 DEF Stage, Kept
    <3>8. ClearOK(x, ledger, strict, rates)
      BY <3>1, <3>3, <3>5, <3>7 DEF ClearOK
    <3>9. /\ runs' \in [Run -> RunType \cup {NoRun}] /\ RunsOK' /\ MempoolOK(mempool, runs)'
          /\ runs'[r] = x /\ \A p \in Run \ {r} : runs'[p] = runs[p]
      BY <1>1, <3>1, <3>3, <3>4, <3>6, <3>8, OneMoves
    <3>10. \A p \in Run : p \notin q.by => runs'[p] = runs[p]
      BY <3>1, <3>9
    <3>11. \A p \in Run : Asks(runs[p]) => Asks(runs'[p])
      BY <3>1, <3>9 DEF Asks
    <3>12. \A p \in Run : runs'[p] # NoRun => (OnCard(runs'[p].form) <=> page = "card")
      BY <3>1, <3>2, <3>3, <3>9 DEF FundsInv, CardInv, PageOK
    <3> QED
      BY <3>9, <3>10, <3>11, <3>12
  <2> QED
    BY <1>2, <2>1, <2>2
<1>12. FundingTypes'
  BY <1>1, <1>3, <1>6, <1>8, <1>11 DEF FundingTypes
<1>13. ReadersOK(reads, runs)'
  <2>1. ASSUME NEW j \in 1 .. n - 1, NEW r \in reads'[j].by
        PROVE  reads'[j].by = {r} /\ runs'[r].at = "fetch"
    <3>1. Came(j) \in 1 .. n /\ Came(j) # i /\ r \in reads[Came(j)].by
      BY <1>7, <2>1
    <3>2. reads[Came(j)].by = {r} /\ runs[r].at = "fetch" /\ r \notin q.by
      BY <1>4, <1>10, <3>1 DEF q
    <3>3. r \in Run
      <4>1. reads[Came(j)] \in ReadType
        BY <1>4, <3>1
      <4> QED
        BY <3>1, <4>1 DEF ReadType
    <3> QED
      BY <1>7, <1>11, <3>2, <3>3
  <2>2. ASSUME NEW j \in 1 .. n - 1, NEW k \in 1 .. n - 1, j # k
        PROVE  reads'[j].by \cap reads'[k].by = {}
    <3>1. Came(j) \in 1 .. n /\ Came(k) \in 1 .. n /\ Came(j) # Came(k)
      BY <1>7, <1>9, <2>2
    <3> QED
      BY <1>7, <1>10, <3>1
  <2> QED
    BY <1>8, <2>1, <2>2 DEF ReadersOK
<1>14. SomeAsks(runs) => SomeAsks(runs)'
  BY <1>11 DEF SomeAsks
\* A good read that is later than the i-th, or than one that is, is still there.
<1>15. ASSUME NEW k \in 1 .. n, k > i PROVE k - 1 \in 1 .. n - 1 /\ reads'[k - 1] = reads[k]
  <2>1. k - 1 \in 1 .. n - 1 /\ ~(k - 1 < i) /\ (k - 1) + 1 = k
    BY <1>4, <1>15
  <2> QED
    BY <1>1, <2>1
<1>16. ReadsOK(reads, runs, ledger)'
  <2> SUFFICES ASSUME NEW j \in 1 .. n - 1, ~reads'[j].old, ~Good(reads'[j], ledger'), ~SomeAsks(runs)'
               PROVE  \E k \in 1 .. n - 1 : k > j /\ Good(reads'[k], ledger')
    BY <1>8 DEF ReadsOK
  <2>1. ~(j < i) /\ reads'[j] = reads[j + 1] /\ j + 1 \in 1 .. n
    BY <1>4, <1>7
  <2>2. PICK k \in 1 .. n : k > j + 1 /\ Good(reads[k], ledger)
    BY <1>1, <1>4, <1>14, <2>1 DEF FundsInv, CardInv, ReadsOK
  <2>3. k > i /\ k - 1 > j
    BY <1>4, <2>1, <2>2
  <2> QED
    BY <1>1, <1>15, <2>2, <2>3
<1>17. CardOK(card, reads, runs, ledger)'
  <2>1. CASE q.answer = Failed
    BY <1>6, <2>1 DEF CardOK
  <2>2. CASE q.answer # Failed /\ q.old
    BY <1>6, <2>2 DEF CardOK
  <2>3. CASE q.answer # Failed /\ ~q.old
    <3>1. CASE Good(q, ledger)
      BY <1>1, <1>6, <2>3, <3>1 DEF Good, CardOK
    <3>2. CASE SomeAsks(runs)
      BY <1>14, <3>2 DEF CardOK
    <3>3. CASE \E k \in 1 .. n : k > i /\ Good(reads[k], ledger)
      <4>1. PICK k \in 1 .. n : k > i /\ Good(reads[k], ledger)
        BY <3>3
      <4> QED
        BY <1>1, <1>8, <1>15, <4>1 DEF CardOK
    <3> QED
      BY <1>4, <2>3, <3>1, <3>2, <3>3 DEF FundsInv, CardInv, ReadsOK, q
  <2> QED
    BY <2>1, <2>2, <2>3
<1>18. PageOK'
  <2>1. page = "card"
    BY <1>4 DEF FundsInv, CardInv, PageOK
  <2> QED
    BY <1>1, <1>11, <2>1 DEF PageOK
<1>19. CardInv'
  BY <1>13, <1>16, <1>17, <1>18 DEF CardInv
<1> QED
  BY <1>11, <1>12, <1>19 DEF FundsInv

---------------------------------------------------------------------------

LEMMA FundsStart == FundingInit => FundsInv
<1> SUFFICES ASSUME FundingInit PROVE FundsInv
  OBVIOUS
<1>1. /\ Unlimited \in Nat /\ Wealth \in Nat /\ rates \in Rates /\ mempool = <<>>
      /\ runs = [r \in Run |-> NoRun]
      /\ card = [data |-> NoData, loading |-> page = "card", error |-> FALSE, doubt |-> FALSE]
      /\ reads = IF page = "card" THEN <<Read({})>> ELSE <<>>
  BY FundingAssumption DEF FundingInit, Unlimited
<1>2. PICK q \in Rates : known = [allowance |-> 0, rates |-> q]
  BY DEF FundingInit
<1>3. strict \in BOOLEAN
  BY Zenon DEF FundingInit
<1>4. ledger \in LedgerType
  <2>1. PICK a \in {0, 1, Unlimited} :
           ledger = [wallet |-> Wealth, allowance |-> a, minimum |-> 0,
                     reserve |-> IF page = "card" THEN 1 ELSE 0,
                     vault |-> IF page = "setup" THEN 0 ELSE 2,
                     vaults |-> IF page = "setup" THEN 0 ELSE 1]
    BY DEF FundingInit
  <2>2. a \in Nat /\ Wealth \in Int
    BY <1>1
  <2> QED
    BY <2>1, <2>2 DEF LedgerType
<1>5. Read({}) \in ReadType /\ Read({}).answer = NotRead /\ ~Read({}).old /\ Read({}).by = {}
  BY DEF Read, ReadType, NotRead, Answers
<1>6. FundingTypes
  <2>1. card \in [data : Answers, loading : BOOLEAN, error : BOOLEAN, doubt : BOOLEAN]
    BY <1>1 DEF Answers, NoData
  <2>2. \A p \in ReadType : <<p>> \in Seq(ReadType)
    OBVIOUS
  <2>3. reads \in Seq(ReadType)
    BY <1>1, <1>5, <2>2
  <2>4. known.allowance \in Int /\ known.rates \in Rates /\ DOMAIN known = {"allowance", "rates"}
    BY <1>2
  <2>5. mempool \in Seq(TxType) /\ runs \in [Run -> RunType \cup {NoRun}]
    BY <1>1
  <2> QED
    BY <1>1, <1>3, <1>4, <2>1, <2>3, <2>4, <2>5 DEF FundingTypes
<1>7. RunsOK /\ MempoolOK(mempool, runs)
  BY <1>1 DEF RunsOK, MempoolOK
<1>8. CardInv
  <2>1. PageOK
    BY <1>1 DEF PageOK
  <2>2. CASE page = "card"
    <3>1. reads = <<Read({})>>
      BY <1>1, <2>2
    <3>2. DOMAIN reads = {1} /\ reads[1] = Read({})
      BY <3>1
    <3>3. Good(reads[1], ledger)
      BY <1>5, <3>2 DEF Good
    <3> QED
      BY <1>5, <2>1, <3>2, <3>3 DEF CardInv, ReadersOK, ReadsOK, CardOK
  <2>3. CASE page # "card"
    <3>1. reads = <<>> /\ card.data = NoData
      BY <1>1, <2>3
    <3> QED
      BY <2>1, <3>1 DEF CardInv, ReadersOK, ReadsOK, CardOK
  <2> QED
    BY <2>2, <2>3
<1> QED
  BY <1>6, <1>7, <1>8 DEF FundsInv

LEMMA FundsKeep == FundsInv /\ [FundingNext]_fundingVars => FundsInv'
<1> SUFFICES ASSUME FundsInv, [FundingNext]_fundingVars PROVE FundsInv'
  OBVIOUS
<1>1. ASSUME NEW r \in Run, NEW form \in Form, NEW amount \in Sum \cup {0}, click(r, form, amount)
      PROVE  FundsInv'
  <2>1. amount \in 0 .. Unlimited
    BY FundingAssumption DEF Unlimited
  <2> QED
    BY <1>1, <2>1, clickKeeps
<1>2. ASSUME NEW r \in Run, sign(r) \/ reject(r) \/ receipt(r) \/ timeout(r) \/ registered(r)
      PROVE  FundsInv'
  BY <1>2, signKeeps, rejectKeeps, receiptKeeps, timeoutKeeps, registeredKeeps
<1>3. CASE mine \/ others
  BY <1>3, mineKeeps, othersKeep
<1>4. CASE turn
  BY <1>4, PageTurns DEF turn
<1>5. CASE openVault \/ refresh
  BY <1>5, openVaultKeeps, refreshKeeps
<1>6. CASE readAllowance
  BY <1>6, PageTurns DEF readAllowance
<1>7. ASSUME NEW i \in DOMAIN reads, readChain(i) \/ arrive(i)
      PROVE  FundsInv'
  BY <1>7, readChainKeeps, arriveKeeps
<1>8. CASE UNCHANGED fundingVars
  BY <1>8, PageTurns DEF fundingVars, chainVars, cardVars
<1>9. "create" \in Form
  BY DEF Form
<1> QED
  BY <1>1, <1>2, <1>3, <1>4, <1>5, <1>6, <1>7, <1>8, <1>9 DEF FundingNext

LEMMA FundsTell == FundsInv => FundsTellTruth
<1> SUFFICES ASSUME FundsInv PROVE FundsTellTruth
  OBVIOUS
<1>1. FundingTypes
  BY DEF FundsInv
<1>2. ASSUME NEW r \in Run, Over(r), runs[r] # NoRun, runs[r].clear
      PROVE  LET run == runs[r]
                 l == [run.before EXCEPT !.allowance = ledger.allowance]
             IN  IF run.at = "done" THEN Promised(run) ELSE run.tx # "late" => ledger = l
  <2>1. runs[r] \in RunType /\ runs[r].before \in LedgerType /\ ledger \in LedgerType
        /\ runs[r].form \in Form
    <3>1. runs[r] \in RunType
      BY <1>1, <1>2, RunIs
    <3> QED
      BY <1>1, <3>1 DEF RunType, FundingTypes
  <2>2. runs[r].at \in {"done", "failed"}
    BY <1>2, <2>1 DEF Over, RunType
  <2>3. (runs[r].at = "failed" /\ runs[r].tx = "late") \/ Stage(runs[r], ledger, strict)
    BY <1>2 DEF FundsInv, RunsOK, ClearOK
  <2>4. CASE runs[r].at = "done"
    <3>1. Kept(runs[r], ledger)
      BY <2>3, <2>4 DEF Stage
    <3>2. Promised(runs[r])
      BY <2>1, <3>1 DEF Kept, Promised, Form
    <3> QED
      BY <2>4, <3>2
  <2>5. CASE runs[r].at = "failed"
    <3>1. runs[r].tx # "late" => Same(runs[r], ledger)
      BY <2>3, <2>5 DEF Stage
    <3>2. Same(runs[r], ledger) => ledger = [runs[r].before EXCEPT !.allowance = ledger.allowance]
      BY <2>1 DEF Same, LedgerType
    <3> QED
      BY <2>5, <3>1, <3>2
  <2> QED
    BY <2>2, <2>4, <2>5
<1>3. RunsTellTruth
  BY <1>2 DEF RunsTellTruth
<1>4. CardTellsTruth
  <2> SUFFICES ASSUME reads = <<>>, card.data # NoData, ~card.error, ~card.doubt,
                      card.data # Reserve(ledger)
               PROVE  \E r \in Run : ~Over(r) /\ OnCard(runs[r].form)
    BY DEF CardTellsTruth
  <2>1. SomeAsks(runs)
    BY DEF FundsInv, CardInv, CardOK
  <2> QED
    BY <2>1 DEF SomeAsks, Asks, Over
<1> QED
  BY <1>3, <1>4 DEF FundsTellTruth

\* A run that nothing crossed did what its form says, all of it or nothing, and the
\* gas card at rest shows what is on chain (create.tsx, use-approve-and-deposit.ts,
\* use-withdraw.ts, gas-deposit-card.tsx).
THEOREM OwnerToldTheTruth == FundingSpec => []FundsTellTruth
  BY FundsStart, FundsKeep, FundsTell, PTL DEF FundingSpec
=============================================================================
