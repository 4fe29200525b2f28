--------------------------- MODULE IndexerProofs ---------------------------
(***************************************************************************)
(* The execution indexer, for any chain, any vaults and any number of       *)
(* crashes, faults and reorganisations: its history is exact, a success is  *)
(* pushed once, and the loop implements the feed of HistoryFeed.            *)
(*                                                                         *)
(* Two things change under the loop's feet, the chain and the set of        *)
(* registered vaults.  The invariant says why neither matters: what is      *)
(* confirmed stays, so the windows and logs of a tick stay true, and what   *)
(* becomes due during a tick lies behind the tick's last window.            *)
(***************************************************************************)
EXTENDS Indexer, FiniteSetTheorems, SequenceTheorems, WellFoundedInduction, TLAPS

USE IndexerAssumption

\* A block that no reorganisation reaches any more, and its logs.
Settled(b) == b \in 1 .. Confirmed(chain)

\* No log is in two blocks, and none is older than its vault.
ChainOK ==
    /\ \A b, d \in DOMAIN chain : \A k \in chain[b] \cap chain[d] : b = d
    /\ \A b \in DOMAIN chain : \A k \in chain[b] : MayHold(k, b)

\* A log that is owed is settled, of a registered vault, and not before the
\* first block the indexer is configured for.
OwedOK ==
    /\ owed \subseteq UNION {chain[b] : b \in 1 .. Confirmed(chain)}
    /\ \A k \in owed : Event[k].kind # "flow" /\ Event[k].vault \in registered
    /\ StartBlock # NoStart =>
          \A b \in 1 .. Confirmed(chain) : chain[b] \cap owed # {} => b >= StartBlock

\* A row names a block; RowsFromChain says the rest.
RowsInChain == \A r \in rows : r.block \in 1 .. Confirmed(chain)

Ticking == {"vaults", "fetch", "persist", "push", "events", "flows", "advance"}

\* The feed starts once, behind a block before everything that is owed.
CursorOK ==
    /\ loop.pc \in Ticking \cup {"idle"} => cursor # NoCursor
    /\ loop.pc = "seed" =>
          /\ cursor = NoCursor
          /\ \A b \in 1 .. Confirmed(chain) : chain[b] \cap owed # {} => b > loop.seed

\* The windows still to be scanned follow the cursor without a gap, and end
\* in a settled block.
WindowsFollow(windows, passed, last) ==
    /\ windows # <<>> /\ Head(windows).from = passed + 1
    /\ \A i \in DOMAIN windows :
          0 < windows[i].from /\ windows[i].from <= windows[i].to /\ windows[i].to <= last
    /\ \A i \in DOMAIN windows :
          i + 1 \in DOMAIN windows => windows[i + 1].from = windows[i].to + 1

WindowsOK == loop.pc \in Ticking => WindowsFollow(loop.windows, cursor, Confirmed(chain))

\* Of the blocks to be scanned, the vaults of the owed logs are known.
KnownOK ==
    loop.pc \in Ticking \ {"vaults"} =>
        \A i \in DOMAIN loop.windows :
            \A b \in loop.windows[i].from .. loop.windows[i].to :
                \A k \in chain[b] \cap owed : Event[k].vault \in loop.known

\* The logs fetched are those of settled blocks, and what is missing of the
\* window is in the calls still to be made.
FetchOK ==
    loop.pc \in Ticking \ {"vaults"} =>
        /\ (loop.pc = "fetch") <=> (loop.todo # <<>>)
        /\ \A j \in DOMAIN loop.todo :
              loop.todo[j].from \in Nat \ {0} /\ loop.todo[j].to <= Confirmed(chain)
        /\ \A r \in loop.logs : Settled(r.block) /\ r.key \in chain[r.block]
        /\ \A b \in Head(loop.windows).from .. Head(loop.windows).to : \A k \in chain[b] :
              \/ [key |-> k, block |-> b] \in loop.logs
              \/ \E j \in DOMAIN loop.todo : b \in loop.todo[j].from .. loop.todo[j].to

\* What has been written of the window.
WrittenOK ==
    /\ loop.pc \in {"push", "events", "flows", "advance"} => NewRows("exec") = {}
    /\ loop.pc \in {"flows", "advance"} => NewRows("money") = {}

\* What is about to be pushed has just been recorded, and never pushed before.
FreshOK ==
    loop.pc = "push" =>
        \A k \in loop.fresh : Event[k].kind = "exec" /\ k \in Recorded /\ pushed[k] = 0

IndexerInv ==
    /\ TypeOK /\ ChainOK /\ OwedOK /\ RowsInChain /\ RowsFromChain /\ NoGap /\ CursorOK
    /\ WindowsOK /\ KnownOK /\ FetchOK /\ WrittenOK /\ FreshOK /\ PushedOnce

-----------------------------------------------------------------------------
(* Blocks and windows.                                                     *)

\* The confirmed height is a height of the chain.
LEMMA ConfirmedHeight ==
    ASSUME NEW blocks \in Seq(SUBSET Key)
    PROVE  Confirmed(blocks) \in Nat /\ Confirmed(blocks) <= Len(blocks)
           /\ Len(blocks) <= Confirmed(blocks) + Confirmations /\ DOMAIN blocks = 1 .. Len(blocks)
BY LenProperties DEF Confirmed

\* n full windows fit into any number of blocks they are counted from.
LEMMA WindowsFit ==
    ASSUME NEW a \in Nat, NEW m \in Nat \ {0}, NEW i \in Nat, i <= a \div m
    PROVE  i * m <= a
<1>1. PICK q \in Nat : q = a \div m /\ q * m <= a
  OBVIOUS
<1>2. i * m <= q * m
  BY <1>1
<1>3. i * m \in Nat /\ q * m \in Nat
  BY <1>1
<1> QED BY <1>1, <1>2, <1>3

Windows == [from : Nat, to : Nat]

\* The planned windows follow the cursor without a gap, up to the newest
\* confirmed block.
LEMMA PlanFollows ==
    ASSUME NEW head \in Nat, NEW passed \in Nat, NEW windows,
           windows = Plan(head, passed, MaxRange, Confirmations), windows # <<>>
    PROVE  windows \in Seq(Windows) /\ WindowsFollow(windows, passed, head - Confirmations)
<1>1. PICK last \in Int, from \in Nat :
          last = head - Confirmations /\ from = passed + 1
  OBVIOUS
<1>2. PICK count : count = (last - from) \div MaxRange + 1
  OBVIOUS
<1>3. from <= last
  BY <1>1 DEF Plan
<1>4. last - from \in Nat /\ count \in Nat \ {0} /\ (last - from) \div MaxRange = count - 1
  BY <1>2, <1>3
<1>5. windows = [i \in 1 .. count |-> Window(from + (i - 1) * MaxRange,
                                           Lesser(from + i * MaxRange - 1, last))]
  BY <1>1, <1>2, <1>3 DEF Plan
<1>6. \A i \in 1 .. count :
          /\ (i - 1) * MaxRange \in Nat /\ i * MaxRange = (i - 1) * MaxRange + MaxRange
          /\ (i - 1) * MaxRange <= last - from
  <2> SUFFICES ASSUME NEW i \in 1 .. count
               PROVE  /\ (i - 1) * MaxRange \in Nat /\ i * MaxRange = (i - 1) * MaxRange + MaxRange
                      /\ (i - 1) * MaxRange <= last - from
    OBVIOUS
  <2>1. PICK j \in Nat : j = i - 1 /\ j <= (last - from) \div MaxRange
    BY <1>4
  <2>2. j * MaxRange <= last - from /\ j * MaxRange \in Nat
    <3>1. PICK a \in Nat : a = last - from /\ j <= a \div MaxRange
      BY <1>4, <2>1
    <3>2. j * MaxRange <= a
      BY <3>1, WindowsFit
    <3> QED BY <3>1, <3>2
  <2>3. (j + 1) * MaxRange = j * MaxRange + MaxRange /\ i = j + 1
    BY <2>1
  <2> QED BY <2>1, <2>2, <2>3
<1>7. \A i \in 1 .. count :
          /\ windows[i].from = from + (i - 1) * MaxRange
          /\ windows[i].to = Lesser(from + i * MaxRange - 1, last)
          /\ windows[i].from \in Nat /\ windows[i].to \in Nat /\ windows[i] \in Windows
          /\ windows[i].from <= windows[i].to /\ windows[i].to <= last
  <2> SUFFICES ASSUME NEW i \in 1 .. count
               PROVE  /\ windows[i].from = from + (i - 1) * MaxRange
                      /\ windows[i].to = Lesser(from + i * MaxRange - 1, last)
                      /\ windows[i].from \in Nat /\ windows[i].to \in Nat /\ windows[i] \in Windows
                      /\ windows[i].from <= windows[i].to /\ windows[i].to <= last
    OBVIOUS
  <2>1. PICK a \in Nat : a = (i - 1) * MaxRange /\ i * MaxRange = a + MaxRange /\ a <= last - from
    BY <1>6
  <2>2. PICK e \in Nat : /\ e = Lesser(from + i * MaxRange - 1, last)
                         /\ from + a <= e /\ e <= last
    <3>1. PICK b \in Int : b = from + i * MaxRange - 1 /\ from + a <= b
      BY <2>1
    <3>2. last \in Nat /\ from + a <= last
      BY <1>3, <2>1
    <3>3. Lesser(b, last) \in Nat /\ from + a <= Lesser(b, last) /\ Lesser(b, last) <= last
      BY <3>1, <3>2, <2>1 DEF Lesser
    <3> QED BY <3>1, <3>3
  <2>3. windows[i] = [from |-> from + a, to |-> e]
    BY <1>5, <2>1, <2>2 DEF Window
  <2>4. windows[i] \in Windows /\ windows[i].from = from + a /\ windows[i].to = e
    BY <2>3 DEF Windows
  <2>5. from + a = from + (i - 1) * MaxRange
    BY <2>1
  <2>6. /\ windows[i].from \in Nat /\ windows[i].to \in Nat
        /\ windows[i].from <= windows[i].to /\ windows[i].to <= last
    <3>1. PICK b \in Nat : b = from + a /\ b <= e
      <4>1. from + a <= e /\ from + a \in Nat
        BY <2>2
      <4> QED BY <4>1
    <3>2. windows[i].from = b /\ windows[i].to = e
      BY <2>4, <3>1
    <3> QED BY <2>2, <3>1, <3>2
  <2> QED BY <2>2, <2>4, <2>5, <2>6
<1>8. /\ windows \in Seq(Windows) /\ Len(windows) = count /\ DOMAIN windows = 1 .. count
      /\ Head(windows) = windows[1]
  <2>1. windows \in [1 .. count -> Windows]
    BY <1>5, <1>7
  <2> QED BY <1>4, <2>1
<1>9. windows[1].from = passed + 1
  BY <1>1, <1>4, <1>7
<1>10. ASSUME NEW i \in DOMAIN windows, i + 1 \in DOMAIN windows
       PROVE  windows[i + 1].from = windows[i].to + 1
  <2>1. i \in 1 .. count /\ i + 1 \in 1 .. count
    BY <1>8, <1>10
  <2>2. PICK a \in Nat : a = i * MaxRange /\ ((i + 1) - 1) * MaxRange = a /\ a <= last - from
    BY SMTT(30), <1>6, <2>1
  <2>3. Lesser(from + a - 1, last) = from + a - 1
    BY <2>2 DEF Lesser
  <2>4. windows[i + 1].from = from + a
    BY <1>7, <2>1, <2>2
  <2>5. windows[i].to = from + a - 1
    BY <1>7, <2>1, <2>2, <2>3
  <2> QED BY SMTT(30), <2>2, <2>4, <2>5
<1>11. \A i \in 1 .. count : 0 < windows[i].from
  <2> SUFFICES ASSUME NEW i \in 1 .. count PROVE 0 < windows[i].from
    OBVIOUS
  <2>1. PICK a \in Nat : a = (i - 1) * MaxRange
    BY <1>6
  <2>2. windows[i].from = from + a /\ 0 < from
    BY <1>1, <1>7, <2>1
  <2> QED BY <2>2
<1> QED BY <1>1, <1>7, <1>8, <1>9, <1>10, <1>11 DEF WindowsFollow

\* The halves of a window cover it.
LEMMA HalvesCover ==
    ASSUME NEW range \in Windows, range.from < range.to
    PROVE  \E mid \in Nat :
              /\ Halve(range) = <<Window(range.from, mid), Window(mid + 1, range.to)>>
              /\ range.from <= mid /\ mid < range.to
<1>1. range.from \in Nat /\ range.to \in Nat
  BY DEF Windows
<1>2. PICK mid \in Nat : mid = (range.from + range.to) \div 2 /\ range.from <= mid /\ mid < range.to
  BY <1>1
<1> QED BY <1>1, <1>2 DEF Halve

-----------------------------------------------------------------------------
(* The chain grows.                                                        *)

\* A longer chain that agrees with this one as far as it is confirmed.
Sound(blocks) ==
    /\ \A b, d \in DOMAIN blocks : \A k \in blocks[b] \cap blocks[d] : b = d
    /\ \A b \in DOMAIN blocks : \A k \in blocks[b] : MayHold(k, b)

Continues(blocks) ==
    /\ blocks \in Seq(SUBSET Key) /\ Len(blocks) = Len(chain) + 1
    /\ \A b \in 1 .. Confirmed(chain) : blocks[b] = chain[b]
    /\ Sound(blocks)

\* A new block continues the chain.
LEMMA MinedContinues ==
    ASSUME IndexerInv, NEW logs \in SUBSET Key, mineBlock(logs)
    PROVE  Continues(Append(chain, logs))
<1>1. chain \in Seq(SUBSET Key) /\ ChainOK
  BY DEF IndexerInv, TypeOK
<1>2. PICK n \in Nat : n = Len(chain) /\ DOMAIN chain = 1 .. n
  BY <1>1, LenProperties
<1>3. PICK blocks \in Seq(SUBSET Key) :
          /\ blocks = Append(chain, logs) /\ Len(blocks) = n + 1
          /\ DOMAIN blocks = 1 .. n + 1
          /\ \A i \in 1 .. n : blocks[i] = chain[i]
          /\ blocks[n + 1] = logs
  <2>1. /\ Append(chain, logs) \in Seq(SUBSET Key) /\ Len(Append(chain, logs)) = Len(chain) + 1
        /\ \A i \in 1 .. Len(chain) : Append(chain, logs)[i] = chain[i]
        /\ Append(chain, logs)[Len(chain) + 1] = logs
    BY <1>1, AppendProperties
  <2>2. DOMAIN Append(chain, logs) = 1 .. Len(chain) + 1
    BY <2>1, LenProperties
  <2> QED BY <1>2, <2>1, <2>2
<1>4. /\ \A i \in 1 .. n : \A k \in chain[i] : k \notin logs
      /\ \A k \in logs : MayHold(k, n + 1)
  BY <1>2 DEF mineBlock, Mined
<1>5. Sound(blocks)
  <2>1. \A i \in 1 .. n + 1 : i \in 1 .. n \/ i = n + 1
    OBVIOUS
  <2>2. ASSUME NEW b \in DOMAIN blocks, NEW d \in DOMAIN blocks, NEW k \in blocks[b] \cap blocks[d]
        PROVE  b = d
    BY <1>1, <1>2, <1>3, <1>4, <2>1 DEF ChainOK
  <2>3. ASSUME NEW b \in DOMAIN blocks, NEW k \in blocks[b]
        PROVE  MayHold(k, b)
    BY <1>1, <1>2, <1>3, <1>4, <2>1 DEF ChainOK
  <2> QED BY <2>2, <2>3 DEF Sound
<1>6. \A b \in 1 .. Confirmed(chain) : blocks[b] = chain[b]
  BY <1>1, <1>2, <1>3, ConfirmedHeight
<1> QED BY <1>2, <1>3, <1>5, <1>6 DEF Continues

\* A reorganisation of confirmed blocks would be deeper than Confirmations.
LEMMA ReorgContinues ==
    ASSUME IndexerInv, NEW n \in 1 .. Confirmations, n <= Len(chain), NEW place,
           place \in [Key \ Mined(SubSeq(chain, 1, Len(chain) - n)) -> 0 .. n + 1],
           reorg(n, place)
    PROVE  Continues(chain')
<1>1. chain \in Seq(SUBSET Key) /\ ChainOK
  BY DEF IndexerInv, TypeOK
<1>2. PICK m \in Nat : /\ m = Len(chain) - n /\ DOMAIN chain = 1 .. m + n /\ Len(chain) = m + n
                       /\ \A i \in 1 .. m : chain[i] \in SUBSET Key
  <2>1. Len(chain) \in Nat /\ DOMAIN chain = 1 .. Len(chain) /\ Len(chain) - n \in Nat
    BY <1>1, LenProperties
  <2>2. \A i \in 1 .. Len(chain) : chain[i] \in SUBSET Key
    BY <1>1, ElementOfSeq
  <2>3. PICK m \in Nat : m = Len(chain) - n
    BY <2>1
  <2>4. Len(chain) = m + n /\ \A i \in 1 .. m : i \in 1 .. Len(chain)
    BY <2>1, <2>3
  <2> QED BY <2>1, <2>2, <2>3, <2>4
<1>3. PICK base \in Seq(SUBSET Key) :
          /\ base = SubSeq(chain, 1, m) /\ Len(base) = m /\ DOMAIN base = 1 .. m
          /\ \A i \in 1 .. m : base[i] = chain[i]
  <2>1. /\ SubSeq(chain, 1, m) \in Seq(SUBSET Key)
        /\ Len(SubSeq(chain, 1, m)) = IF 1 <= m THEN m - 1 + 1 ELSE 0
        /\ \A i \in 1 .. m - 1 + 1 : SubSeq(chain, 1, m)[i] = chain[1 + i - 1]
    BY <1>2, SubSeqProperties
  <2>2. Len(SubSeq(chain, 1, m)) = m /\ \A i \in 1 .. m : SubSeq(chain, 1, m)[i] = chain[i]
    BY <2>1
  <2> QED BY <2>1, <2>2, LenProperties
<1>4. PICK new \in Seq(SUBSET Key) :
          /\ new = [i \in 1 .. n + 1 |-> {k \in DOMAIN place : place[k] = i}]
          /\ Len(new) = n + 1
          /\ \A i \in 1 .. n + 1 : new[i] = {k \in DOMAIN place : place[k] = i}
  <2>1. PICK new : new = [i \in 1 .. n + 1 |-> {k \in DOMAIN place : place[k] = i}]
    OBVIOUS
  <2>2. DOMAIN place \subseteq Key
    OBVIOUS
  <2>3. new \in [1 .. n + 1 -> SUBSET Key]
    BY <2>1, <2>2
  <2>4. n + 1 \in Nat
    OBVIOUS
  <2>5. new \in Seq(SUBSET Key) /\ Len(new) = n + 1
    BY <2>3, <2>4
  <2> QED BY <2>1, <2>5
<1>5. /\ chain' = base \o new
      /\ DOMAIN place = Key \ Mined(base)
      /\ \A k \in DOMAIN place : place[k] > 0 => MayHold(k, m + place[k])
  BY <1>2, <1>3, <1>4 DEF reorg, Grow
<1>6. PICK blocks \in Seq(SUBSET Key) :
          /\ blocks = chain' /\ Len(blocks) = m + n + 1 /\ DOMAIN blocks = 1 .. m + n + 1
          /\ \A i \in 1 .. m : blocks[i] = chain[i]
          /\ \A i \in m + 1 .. m + n + 1 : blocks[i] = {k \in DOMAIN place : place[k] = i - m}
  <2>1. /\ base \o new \in Seq(SUBSET Key) /\ Len(base \o new) = m + (n + 1)
        /\ \A i \in 1 .. m + (n + 1) : (base \o new)[i] =
                IF i <= m THEN base[i] ELSE new[i - m]
    <3>1. /\ base \o new \in Seq(SUBSET Key) /\ Len(base \o new) = Len(base) + Len(new)
          /\ \A i \in 1 .. Len(base) + Len(new) : (base \o new)[i] =
                  IF i <= Len(base) THEN base[i] ELSE new[i - Len(base)]
      BY ConcatProperties
    <3> QED BY ZenonT(30), <1>3, <1>4, <3>1
  <2>2. \A i \in m + 1 .. m + n + 1 : i - m \in 1 .. n + 1 /\ i \in 1 .. m + (n + 1) /\ ~(i <= m)
    OBVIOUS
  <2>3. \A i \in 1 .. m : (base \o new)[i] = chain[i]
    BY <1>3, <2>1
  <2>4. \A i \in m + 1 .. m + n + 1 : (base \o new)[i] = {k \in DOMAIN place : place[k] = i - m}
    BY <1>4, <2>1, <2>2
  <2>5. DOMAIN (base \o new) = 1 .. m + n + 1 /\ m + (n + 1) = m + n + 1
    BY <2>1, LenProperties
  <2> QED BY <1>5, <2>1, <2>3, <2>4, <2>5
<1>7. \A i \in 1 .. m : \A k \in chain[i] : k \notin DOMAIN place
  BY <1>3, <1>5 DEF Mined
<1>8. /\ \A i \in 1 .. m + n + 1 : i \in 1 .. m \/ i \in m + 1 .. m + n + 1
      /\ \A i \in 1 .. m : i \in DOMAIN chain
  <2>1. \A i \in 1 .. m : i \in 1 .. m + n
    OBVIOUS
  <2> QED BY <1>2, <2>1
<1>9. Sound(blocks)
  <2>1. ASSUME NEW b \in DOMAIN blocks, NEW d \in DOMAIN blocks, NEW k \in blocks[b] \cap blocks[d]
        PROVE  b = d
    <3>1. CASE b \in 1 .. m /\ d \in 1 .. m
      <4>1. b \in DOMAIN chain /\ d \in DOMAIN chain /\ k \in chain[b] \cap chain[d]
        BY <1>6, <1>8, <2>1, <3>1
      <4> QED BY <1>1, <4>1 DEF ChainOK
    <3>2. CASE b \in m + 1 .. m + n + 1 /\ d \in m + 1 .. m + n + 1
      <4>1. place[k] = b - m /\ place[k] = d - m /\ b \in Int /\ d \in Int
        BY SMTT(30), <1>6, <2>1, <3>2
      <4> QED BY SMTT(30), <4>1
    <3>3. CASE b \in 1 .. m /\ d \in m + 1 .. m + n + 1
      BY ZenonT(30), <1>6, <1>7, <2>1, <3>3
    <3>4. CASE d \in 1 .. m /\ b \in m + 1 .. m + n + 1
      BY ZenonT(30), <1>6, <1>7, <2>1, <3>4
    <3> QED BY <1>6, <1>8, <3>1, <3>2, <3>3, <3>4
  <2>2. ASSUME NEW b \in DOMAIN blocks, NEW k \in blocks[b]
        PROVE  MayHold(k, b)
    <3>1. CASE b \in 1 .. m
      <4>1. b \in DOMAIN chain /\ k \in chain[b]
        BY <1>6, <1>8, <2>2, <3>1
      <4> QED BY <1>1, <4>1 DEF ChainOK
    <3>2. CASE b \in m + 1 .. m + n + 1
      <4>1. k \in DOMAIN place /\ place[k] = b - m /\ place[k] > 0 /\ m + place[k] = b
        BY SMTT(30), <1>6, <2>2, <3>2
      <4> QED BY <1>5, <4>1
    <3> QED BY <1>6, <1>8, <3>1, <3>2
  <2> QED BY <2>1, <2>2 DEF Sound
<1>10. \A b \in 1 .. Confirmed(chain) : blocks[b] = chain[b]
  <2>1. Confirmed(chain) \in Nat /\ Confirmed(chain) <= m
    BY <1>1, <1>2 DEF Confirmed
  <2> QED BY <1>6, <2>1
<1> QED BY <1>2, <1>6, <1>9, <1>10 DEF Continues

Spent == [reorgs : 0 .. MaxReorgs, faults : 0 .. MaxFaults, crashes : 0 .. MaxCrashes]

\* Growth leaves what is settled as it is, and what it makes due lies behind
\* the old confirmed height and behind the start of the feed.
LEMMA GrowthSettles ==
    ASSUME IndexerInv, Continues(chain'), Grow(chain')
    PROVE  /\ Confirmed(chain) \in Nat /\ Confirmed(chain') \in Nat
           /\ Confirmed(chain) <= Confirmed(chain') /\ Confirmed(chain') <= Len(chain')
           /\ \A b \in 1 .. Confirmed(chain) : chain'[b] = chain[b]
           /\ \A b \in 1 .. Confirmed(chain) : \A k \in chain'[b] \cap owed' : k \in owed
           /\ \A b \in Confirmed(chain) + 1 .. Confirmed(chain') : \A k \in chain'[b] \cap owed' :
                 /\ Event[k].kind # "flow" /\ Event[k].vault \in registered
                 /\ b > Floor /\ (StartBlock # NoStart => b >= StartBlock)
<1>1. chain \in Seq(SUBSET Key) /\ chain' \in Seq(SUBSET Key) /\ Len(chain') = Len(chain) + 1
  BY DEF IndexerInv, TypeOK, Continues
<1>2. PICK c0 \in Nat : c0 = Confirmed(chain) /\ c0 <= Len(chain)
  BY <1>1, ConfirmedHeight
<1>3. PICK c1 \in Nat : /\ c1 = Confirmed(chain') /\ c1 <= Len(chain')
                        /\ DOMAIN chain' = 1 .. Len(chain')
  BY <1>1, ConfirmedHeight
<1>4. c0 <= c1 /\ Len(chain) \in Nat /\ Len(chain') \in Nat
  <2>1. Len(chain) \in Nat /\ Len(chain') \in Nat
    BY <1>1, LenProperties
  <2> QED BY <1>1, <1>2, <1>3, <2>1 DEF Confirmed
<1>5. \A b \in 1 .. c0 : chain'[b] = chain[b]
  BY <1>2 DEF Continues
<1>6. \A b, d \in 1 .. c1 : \A k \in chain'[b] \cap chain'[d] : b = d
  BY SMTT(30), <1>3, <1>4 DEF Continues, Sound
<1>7. PICK due : due = Due(chain') /\ owed' = owed \cup due
  BY DEF Grow
<1>8. \A k \in due :
          /\ Event[k].kind # "flow" /\ Event[k].vault \in registered
          /\ \E d \in c0 + 1 .. c1 : k \in chain'[d] /\ d > Floor
              /\ (StartBlock # NoStart => d >= StartBlock)
  BY <1>2, <1>3, <1>7 DEF Due
<1>9. \A k \in owed : \E d \in 1 .. c0 : k \in chain'[d]
  <2>1. \A k \in owed : \E d \in 1 .. c0 : k \in chain[d]
    BY <1>2 DEF IndexerInv, OwedOK
  <2> QED BY <1>5, <2>1
<1>10. /\ \A b \in 1 .. c0 : b \in 1 .. c1 /\ b \notin c0 + 1 .. c1
       /\ \A b \in c0 + 1 .. c1 : b \in 1 .. c1
  BY <1>4
<1>11. ASSUME NEW b \in 1 .. c0, NEW k \in chain'[b] \cap owed'
       PROVE  k \in owed
  <2>1. ASSUME k \in due PROVE FALSE
    <3>1. PICK d \in c0 + 1 .. c1 : k \in chain'[d]
      BY <1>8, <2>1
    <3>2. b = d
      BY <1>6, <1>10, <1>11, <3>1
    <3> QED BY <1>10, <3>2
  <2> QED BY <1>7, <1>11, <2>1
<1>12. ASSUME NEW b \in c0 + 1 .. c1, NEW k \in chain'[b] \cap owed'
       PROVE  /\ Event[k].kind # "flow" /\ Event[k].vault \in registered
              /\ b > Floor /\ (StartBlock # NoStart => b >= StartBlock)
  <2>1. ASSUME k \in owed PROVE FALSE
    <3>1. PICK d \in 1 .. c0 : k \in chain'[d]
      BY <1>9, <2>1
    <3>2. b = d
      BY <1>6, <1>10, <1>12, <3>1
    <3> QED BY <1>10, <3>2
  <2>2. k \in due
    BY <1>7, <1>12, <2>1
  <2>3. PICK d \in c0 + 1 .. c1 : k \in chain'[d] /\ d > Floor
              /\ (StartBlock # NoStart => d >= StartBlock)
    BY <1>8, <2>2
  <2>4. b = d
    BY <1>6, <1>10, <1>12, <2>3
  <2> QED BY <1>8, <2>2, <2>3, <2>4
<1> QED BY <1>2, <1>3, <1>4, <1>5, <1>11, <1>12

\* The windows of a tick are settled.
LEMMA WindowsSettled ==
    ASSUME IndexerInv, loop.pc \in Ticking, NEW i \in DOMAIN loop.windows,
           NEW b \in loop.windows[i].from .. loop.windows[i].to
    PROVE  b \in 1 .. Confirmed(chain)
<1>1. loop.windows \in Seq(Windows) /\ cursor \in Nat
  BY DEF IndexerInv, TypeOK, Loop, Windows, CursorOK
<1>2. WindowsFollow(loop.windows, cursor, Confirmed(chain))
  BY DEF IndexerInv, WindowsOK
<1>3. i \in 1 .. Len(loop.windows) /\ loop.windows[i] \in Windows
  BY <1>1, ElementOfSeq, LenProperties
<1>4. loop.windows[i].from \in Nat \ {0} /\ loop.windows[i].to \in Nat
  BY <1>2, <1>3 DEF Windows, WindowsFollow
<1>5. Confirmed(chain) \in Nat /\ loop.windows[i].to <= Confirmed(chain)
  <2>1. Confirmed(chain) \in Nat
    BY ConfirmedHeight DEF IndexerInv, TypeOK
  <2> QED BY <1>2, <2>1 DEF WindowsFollow
<1> QED BY <1>4, <1>5

\* The indexer does not notice that the chain grows.
LEMMA GrowthKeeps ==
    ASSUME IndexerInv, Continues(chain'), Grow(chain'), spent' \in Spent
    PROVE  IndexerInv'
<1>1. /\ UNCHANGED <<registered, failureVars, cursor, rows, loop, pushed>>
      /\ chain \in Seq(SUBSET Key) /\ chain' \in Seq(SUBSET Key)
  BY DEF Grow, IndexerInv, TypeOK, Continues
<1>2. PICK c0 \in Nat, c1 \in Nat :
          /\ c0 = Confirmed(chain) /\ c1 = Confirmed(chain') /\ c0 <= c1
          /\ \A b \in 1 .. c0 : chain'[b] = chain[b]
          /\ \A b \in 1 .. c0 : \A k \in chain'[b] \cap owed' : k \in owed
          /\ \A b \in c0 + 1 .. c1 : \A k \in chain'[b] \cap owed' :
                 /\ Event[k].kind # "flow" /\ Event[k].vault \in registered
                 /\ b > Floor /\ (StartBlock # NoStart => b >= StartBlock)
  BY GrowthSettles
<1>3. /\ \A b \in 1 .. c0 : b \in 1 .. c1
      /\ \A b \in 1 .. c1 : b \in 1 .. c0 \/ b \in c0 + 1 .. c1
  BY <1>2
<1>4. owed' = owed \cup Due(chain')
  BY DEF Grow
<1>5. TypeOK'
  <2>1. owed' \subseteq Key
    BY <1>4 DEF IndexerInv, TypeOK, Due
  <2> QED BY <1>1, <2>1 DEF IndexerInv, TypeOK, FailureTypeOK, failureVars, Spent
<1>6. ChainOK'
  BY DEF Continues, Sound, ChainOK
<1>7. OwedOK'
  <2>1. owed' \subseteq UNION {chain'[b] : b \in 1 .. c1}
    <3>1. \A k \in owed : \E d \in 1 .. c1 : k \in chain'[d]
      <4>1. \A k \in owed : \E d \in 1 .. c0 : k \in chain[d]
        BY <1>2 DEF IndexerInv, OwedOK
      <4> QED BY <1>2, <1>3, <4>1
    <3>2. \A k \in Due(chain') : \E d \in 1 .. c1 : k \in chain'[d]
      <4>1. \A k \in Due(chain') : \E d \in c0 + 1 .. c1 : k \in chain'[d]
        BY <1>2 DEF Due
      <4>2. \A b \in c0 + 1 .. c1 : b \in 1 .. c1
        BY <1>2
      <4> QED BY <4>1, <4>2
    <3> QED BY <1>4, <3>1, <3>2
  <2>2. \A k \in owed' : Event[k].kind # "flow" /\ Event[k].vault \in registered
    BY <1>4 DEF IndexerInv, OwedOK, Due
  <2>3. ASSUME StartBlock # NoStart, NEW b \in 1 .. c1, chain'[b] \cap owed' # {}
        PROVE  b >= StartBlock
    <3>1. CASE b \in 1 .. c0
      <4>1. chain[b] \cap owed # {}
        BY <1>2, <2>3, <3>1
      <4> QED BY <1>2, <2>3, <3>1, <4>1 DEF IndexerInv, OwedOK
    <3>2. CASE b \in c0 + 1 .. c1
      BY <1>2, <2>3, <3>2
    <3> QED BY <1>3, <3>1, <3>2
  <2> QED BY <1>1, <1>2, <2>1, <2>2, <2>3 DEF OwedOK
<1>8. RowsFromChain'
  <2>1. ASSUME NEW r \in rows PROVE r.block <= c1 /\ r.key \in chain'[r.block]
    <3>1. r.block \in Nat /\ r.block <= c0 /\ r.key \in chain[r.block]
      BY <1>2 DEF IndexerInv, TypeOK, Row, RowsFromChain
    <3>2. r.block \in 1 .. c0
      BY <3>1 DEF IndexerInv, RowsInChain
    <3> QED BY <1>2, <3>1, <3>2
  <2> QED BY <1>1, <1>2, <2>1 DEF IndexerInv, RowsFromChain
<1>17. RowsInChain'
  BY <1>1, <1>2, <1>3 DEF IndexerInv, RowsInChain
<1>9. NoGap'
  <2> SUFFICES ASSUME cursor # NoCursor, NEW b \in 1 .. Lesser(cursor, c1),
                      NEW k \in chain'[b] \cap owed'
               PROVE  [key |-> k, block |-> b] \in rows
    BY <1>1, <1>2 DEF NoGap
  <2>1. cursor \in Nat
    BY DEF IndexerInv, TypeOK
  <2>2. b \in 1 .. c1 /\ b <= cursor
    BY <1>2, <2>1 DEF Lesser
  <2>3. CASE b \in 1 .. c0
    <3>1. b \in 1 .. Lesser(cursor, c0)
      BY <1>2, <2>1, <2>2, <2>3 DEF Lesser
    <3>2. k \in chain[b] \cap owed
      BY <1>2, <2>3
    <3> QED BY <1>2, <3>1, <3>2 DEF IndexerInv, NoGap
  <2>4. CASE b \in c0 + 1 .. c1
    <3>1. b > cursor
      BY <1>2, <2>4 DEF Floor
    <3> QED BY <2>1, <2>2, <3>1
  <2> QED BY <1>3, <2>2, <2>3, <2>4
<1>10. CursorOK'
  <2>1. ASSUME loop.pc = "seed", NEW b \in 1 .. c1, chain'[b] \cap owed' # {}
        PROVE  b > loop.seed
    <3>1. CASE b \in 1 .. c0
      <4>1. chain[b] \cap owed # {}
        BY <1>2, <2>1, <3>1
      <4> QED BY <1>2, <2>1, <3>1, <4>1 DEF IndexerInv, CursorOK
    <3>2. CASE b \in c0 + 1 .. c1
      <4>1. Floor = loop.seed
        BY <2>1 DEF Floor, IndexerInv, CursorOK
      <4> QED BY <1>2, <2>1, <3>2, <4>1
    <3> QED BY <1>3, <3>1, <3>2
  <2> QED BY <1>1, <1>2, <2>1 DEF IndexerInv, CursorOK
<1>11. ASSUME loop.pc \in Ticking PROVE WindowsFollow(loop.windows, cursor, c1)
  <2>1. WindowsFollow(loop.windows, cursor, c0) /\ loop.windows \in Seq(Windows)
    BY <1>2, <1>11 DEF IndexerInv, WindowsOK, TypeOK, Loop, Windows
  <2>2. \A i \in DOMAIN loop.windows : loop.windows[i].to \in Nat
    <3>1. \A i \in DOMAIN loop.windows : loop.windows[i] \in Windows
      BY <2>1, ElementOfSeq, LenProperties
    <3> QED BY <3>1 DEF Windows
  <2> QED BY <1>2, <2>1, <2>2 DEF WindowsFollow
<1>12. WindowsOK'
  BY <1>1, <1>2, <1>11 DEF WindowsOK
<1>13. ASSUME loop.pc \in Ticking, NEW i \in DOMAIN loop.windows,
              NEW b \in loop.windows[i].from .. loop.windows[i].to
       PROVE  b \in 1 .. c0
  BY <1>2, <1>13, WindowsSettled
<1>14. KnownOK'
  <2> SUFFICES ASSUME loop.pc \in Ticking \ {"vaults"}, NEW i \in DOMAIN loop.windows,
                      NEW b \in loop.windows[i].from .. loop.windows[i].to,
                      NEW k \in chain'[b] \cap owed'
               PROVE  Event[k].vault \in loop.known
    BY <1>1 DEF KnownOK
  <2>1. b \in 1 .. c0
    BY <1>13
  <2>2. k \in chain[b] \cap owed
    BY <1>2, <2>1
  <2> QED BY <2>2 DEF IndexerInv, KnownOK
<1>15. FetchOK'
  <2> SUFFICES ASSUME loop.pc \in Ticking \ {"vaults"} PROVE FetchOK'
    BY <1>1 DEF FetchOK
  <2>1. /\ (loop.pc = "fetch") <=> (loop.todo # <<>>)
        /\ \A j \in DOMAIN loop.todo : loop.todo[j].from \in Nat \ {0} /\ loop.todo[j].to <= c0
        /\ \A r \in loop.logs : r.block \in 1 .. c0 /\ r.key \in chain[r.block]
        /\ \A b \in Head(loop.windows).from .. Head(loop.windows).to : \A k \in chain[b] :
              \/ [key |-> k, block |-> b] \in loop.logs
              \/ \E j \in DOMAIN loop.todo : b \in loop.todo[j].from .. loop.todo[j].to
    BY <1>2 DEF IndexerInv, FetchOK, Settled
  <2>2. \A j \in DOMAIN loop.todo : loop.todo[j].to <= c1
    <3>1. \A j \in DOMAIN loop.todo : loop.todo[j].to \in Nat
      <4>1. loop.todo \in Seq(Windows)
        BY DEF IndexerInv, TypeOK, Loop, Windows
      <4>2. \A j \in DOMAIN loop.todo : loop.todo[j] \in Windows
        BY <4>1, ElementOfSeq, LenProperties
      <4> QED BY <4>2 DEF Windows
    <3> QED BY <1>2, <2>1, <3>1
  <2>3. \A r \in loop.logs : r.block \in 1 .. c1 /\ r.key \in chain'[r.block]
    BY <1>2, <1>3, <2>1
  <2>4. ASSUME NEW b \in Head(loop.windows).from .. Head(loop.windows).to PROVE chain'[b] = chain[b]
    <3>1. 1 \in DOMAIN loop.windows /\ Head(loop.windows) = loop.windows[1]
      <4>1. loop.windows \in Seq(Windows) /\ loop.windows # <<>>
        BY DEF IndexerInv, TypeOK, Loop, Windows, WindowsOK, WindowsFollow
      <4> QED BY <4>1
    <3> QED BY <1>2, <1>13, <2>4, <3>1
  <2>5. \A b \in Head(loop.windows).from .. Head(loop.windows).to : \A k \in chain'[b] :
              \/ [key |-> k, block |-> b] \in loop.logs
              \/ \E j \in DOMAIN loop.todo : b \in loop.todo[j].from .. loop.todo[j].to
    BY <2>1, <2>4
  <2> QED BY <1>1, <1>2, <2>1, <2>2, <2>3, <2>5 DEF FetchOK, Settled
<1>16. WrittenOK' /\ FreshOK' /\ PushedOnce'
  BY <1>1 DEF IndexerInv, WrittenOK, FreshOK, PushedOnce, NewRows, KnownLogs, Recorded
<1> QED BY <1>5, <1>6, <1>7, <1>8, <1>9, <1>10, <1>12, <1>14, <1>15, <1>16, <1>17 DEF IndexerInv

-----------------------------------------------------------------------------
(* The first cursor.                                                       *)

\* A set of naturals has a least member.
LEMMA LeastExists ==
    ASSUME NEW T, T \subseteq Nat, T # {}
    PROVE  \E x \in T : \A y \in T : x <= y
<1>1. PICK R : R = OpToRel(<, Nat) /\ IsWellFoundedOn(R, Nat)
  BY NatLessThanWellFounded
<1>2. PICK x \in T : \A y \in T : ~(<<y, x>> \in R)
  BY <1>1, WFMin
<1>3. \A y \in Nat, z \in Nat : y < z => <<y, z>> \in R
  BY <1>1 DEF OpToRel
<1>4. \A y \in T : x \in Nat /\ y \in Nat /\ ~(y < x)
  BY <1>2, <1>3
<1>5. \A y \in T : x <= y
  BY <1>4
<1> QED BY <1>2, <1>5

\* The seed lies before every log that is owed: before the configured block, or
\* before the creation of every registered vault; without vaults nothing is owed.
LEMMA SeedBefore ==
    ASSUME IndexerInv
    PROVE  /\ Seed \in Nat
           /\ \A b \in 1 .. Confirmed(chain) : chain[b] \cap owed # {} => b > Seed
<1>1. /\ chain \in Seq(SUBSET Key) /\ registered \subseteq Vault /\ owed \subseteq Key
      /\ Len(chain) \in Nat /\ DOMAIN chain = 1 .. Len(chain)
      /\ Confirmed(chain) \in Nat /\ Confirmed(chain) <= Len(chain)
  BY LenProperties, ConfirmedHeight DEF IndexerInv, TypeOK, FailureTypeOK
<1>2. CASE StartBlock # NoStart
  <2>1. StartBlock \in Nat
    BY <1>2
  <2>2. Seed \in Nat /\ (Seed = 0 \/ Seed = StartBlock - 1)
    BY <1>2, <2>1 DEF Seed
  <2>3. ASSUME NEW b \in 1 .. Confirmed(chain), chain[b] \cap owed # {} PROVE b > Seed
    <3>1. b >= StartBlock
      BY <1>2, <2>3 DEF IndexerInv, OwedOK
    <3> QED BY <1>1, <2>1, <2>2, <3>1
  <2> QED BY <2>2, <2>3
<1>3. CASE StartBlock = NoStart /\ registered = {}
  <2>1. Seed = Len(chain) /\ owed = {}
    BY <1>3 DEF Seed, IndexerInv, OwedOK
  <2> QED BY <1>1, <2>1
<1>4. CASE StartBlock = NoStart /\ registered # {}
  <2>1. PICK T : T = {CreatedAtBlock[v] : v \in registered}
    OBVIOUS
  <2>2. T \subseteq Nat \ {0} /\ T # {}
    BY <1>1, <1>4, <2>1
  <2>3. \E x \in T : \A y \in T : x <= y
    BY <2>2, LeastExists
  <2>4. \E x \in T : \A v \in registered : x <= CreatedAtBlock[v]
    BY <2>1, <2>3
  <2>5. PICK x \in T : /\ x = (CHOOSE b \in T : \A v \in registered : b <= CreatedAtBlock[v])
                       /\ \A v \in registered : x <= CreatedAtBlock[v]
    BY <2>4, Zenon
  <2>6. Seed = x - 1 /\ x \in Nat \ {0}
    BY <1>4, <2>1, <2>2, <2>5 DEF Seed
  <2>7. ASSUME NEW b \in 1 .. Confirmed(chain), chain[b] \cap owed # {} PROVE b > Seed
    <3>1. PICK k \in chain[b] \cap owed : TRUE
      BY <2>7
    <3>2. Event[k].vault \in registered /\ b >= CreatedAtBlock[Event[k].vault]
      BY SMTT(30), <1>1, <2>7, <3>1 DEF IndexerInv, OwedOK, ChainOK, MayHold
    <3>3. x <= CreatedAtBlock[Event[k].vault] /\ CreatedAtBlock[Event[k].vault] \in Nat
      BY <1>1, <2>5, <3>2
    <3> QED BY <1>1, <2>6, <3>2, <3>3
  <2> QED BY <2>6, <2>7
<1> QED BY <1>2, <1>3, <1>4

-----------------------------------------------------------------------------
(* Steps of the loop.                                                      *)

\* At rest the process remembers nothing.
LEMMA AtTyped ==
    ASSUME NEW pc \in {"down", "unstarted", "boot", "seed", "idle", "vaults", "fetch",
                       "persist", "push", "events", "flows", "advance"}
    PROVE  /\ At(pc) \in Loop /\ At(pc).pc = pc
           /\ At(pc) = [pc |-> pc, windows |-> <<>>, known |-> {}, todo |-> <<>>, logs |-> {},
                        fresh |-> {}, seed |-> 0]
<1>1. <<>> \in Seq([from : Nat, to : Nat])
  OBVIOUS
<1> QED BY <1>1 DEF At, Loop

\* A step that only moves the process.
LEMMA LoopMoves ==
    ASSUME IndexerInv, loop' \in Loop, spent' \in Spent,
           UNCHANGED <<registered, failureVars, chain, cursor, rows, pushed, owed>>,
           CursorOK', WindowsOK', KnownOK', FetchOK', WrittenOK', FreshOK'
    PROVE  IndexerInv'
<1>1. TypeOK'
  BY DEF IndexerInv, TypeOK, FailureTypeOK, failureVars, Spent
<1>2. ChainOK' /\ OwedOK' /\ RowsInChain' /\ RowsFromChain' /\ NoGap' /\ PushedOnce'
  BY DEF IndexerInv, ChainOK, OwedOK, RowsInChain, RowsFromChain, NoGap, PushedOnce, Recorded
<1> QED BY <1>1, <1>2 DEF IndexerInv

\* A step that ends the tick, or the process.
LEMMA LoopRests ==
    ASSUME IndexerInv, NEW pc \in {"down", "unstarted", "boot", "idle"}, loop' = At(pc),
           pc = "idle" => cursor # NoCursor, spent' \in Spent,
           UNCHANGED <<registered, failureVars, chain, cursor, rows, pushed, owed>>
    PROVE  IndexerInv'
<1>1. loop' \in Loop /\ loop'.pc = pc
  BY AtTyped
<1>2. CursorOK' /\ WindowsOK' /\ KnownOK' /\ FetchOK' /\ WrittenOK' /\ FreshOK'
  BY <1>1 DEF CursorOK, WindowsOK, KnownOK, FetchOK, WrittenOK, FreshOK, Ticking
<1> QED BY <1>1, <1>2, LoopMoves

\* The bounds of the environment count up.
LEMMA FaultCounted ==
    ASSUME IndexerInv, Fault
    PROVE  spent' \in Spent /\ UNCHANGED <<registered, failureVars, chain, cursor, rows, pushed, owed>>
<1>1. spent \in Spent
  BY DEF IndexerInv, TypeOK, Spent
<1> QED BY <1>1 DEF Fault, Spent

\* start, crash, a failed startup and a tick that throws.
LEMMA RestKeeps ==
    ASSUME IndexerInv, start \/ crash \/ startFails \/ tickFails
    PROVE  IndexerInv'
<1>1. spent \in Spent
  BY DEF IndexerInv, TypeOK, Spent
<1>2. CASE start
  BY <1>1, <1>2, LoopRests DEF start, Keep
<1>3. CASE crash
  <2>1. spent' \in Spent
    BY <1>1, <1>3 DEF crash, Spent
  <2> QED BY <1>3, <2>1, LoopRests DEF crash
<1>4. CASE startFails
  BY <1>4, FaultCounted, LoopRests DEF startFails
<1>5. CASE tickFails
  <2>1. cursor # NoCursor
    BY <1>5 DEF tickFails, IndexerInv, CursorOK, Ticking
  <2> QED BY <1>5, <2>1, FaultCounted, LoopRests DEF tickFails
<1> QED BY <1>2, <1>3, <1>4, <1>5

\* The cursor is read; if there is none, a seed is computed.
LEMMA ReadCursorKeeps ==
    ASSUME IndexerInv, readCursor
    PROVE  IndexerInv'
<1>1. /\ UNCHANGED <<registered, failureVars, chain, cursor, rows, pushed, owed>>
      /\ spent' \in Spent
  BY DEF readCursor, Keep, IndexerInv, TypeOK, Spent
<1>2. CASE cursor # NoCursor
  BY <1>1, <1>2, LoopRests DEF readCursor
<1>3. CASE cursor = NoCursor
  <2>1. PICK seed \in Nat : /\ seed = Seed
                            /\ \A b \in 1 .. Confirmed(chain) : chain[b] \cap owed # {} => b > seed
    BY SeedBefore
  <2>2. PICK at \in Loop : at = At("seed") /\ at.pc = "seed"
    BY AtTyped
  <2>3. loop' = [at EXCEPT !.seed = seed]
    BY <1>3, <2>1, <2>2 DEF readCursor
  <2>4. loop' \in Loop /\ loop'.pc = "seed" /\ loop'.seed = seed
    BY <2>2, <2>3 DEF Loop
  <2>5. CursorOK' /\ WindowsOK' /\ KnownOK' /\ FetchOK' /\ WrittenOK' /\ FreshOK'
    BY <1>1, <1>3, <2>1, <2>4 DEF CursorOK, WindowsOK, KnownOK, FetchOK, WrittenOK, FreshOK, Ticking
  <2> QED BY <1>1, <2>4, <2>5, LoopMoves
<1> QED BY <1>2, <1>3

\* The feed begins: nothing owed lies before the seed.
LEMMA InitKeeps ==
    ASSUME IndexerInv, initIfMissing
    PROVE  IndexerInv'
<1>1. /\ UNCHANGED <<registered, failureVars, chain, rows, pushed, spent, owed>>
      /\ loop' = At("idle") /\ loop.pc = "seed" /\ cursor = NoCursor /\ loop.seed \in Nat
      /\ cursor' = loop.seed
  BY DEF initIfMissing, Keep, IndexerInv, TypeOK, Loop, CursorOK
<1>2. loop' \in Loop /\ loop'.pc = "idle" /\ cursor' # NoCursor /\ cursor' \in Nat
  BY <1>1, AtTyped
<1>3. CursorOK' /\ WindowsOK' /\ KnownOK' /\ FetchOK' /\ WrittenOK' /\ FreshOK'
  BY <1>2 DEF CursorOK, WindowsOK, KnownOK, FetchOK, WrittenOK, FreshOK, Ticking
<1>4. TypeOK'
  BY <1>1, <1>2 DEF IndexerInv, TypeOK, FailureTypeOK, failureVars
<1>5. ChainOK' /\ OwedOK' /\ RowsInChain' /\ RowsFromChain' /\ PushedOnce'
  BY <1>1 DEF IndexerInv, ChainOK, OwedOK, RowsInChain, RowsFromChain, PushedOnce, Recorded
<1>6. NoGap'
  <2> SUFFICES ASSUME NEW b \in 1 .. Lesser(loop.seed, Confirmed(chain)), NEW k \in chain[b] \cap owed
               PROVE  FALSE
    BY <1>1 DEF NoGap
  <2>1. Confirmed(chain) \in Nat
    BY ConfirmedHeight DEF IndexerInv, TypeOK
  <2>2. b \in 1 .. Confirmed(chain) /\ b <= loop.seed
    BY <1>1, <2>1 DEF Lesser
  <2>3. b > loop.seed
    BY <1>1, <2>2 DEF IndexerInv, CursorOK
  <2> QED BY <1>1, <2>1, <2>2, <2>3
<1> QED BY <1>3, <1>4, <1>5, <1>6 DEF IndexerInv

\* The plan of a tick lies between the cursor and the confirmed height.
LEMMA TickKeeps ==
    ASSUME IndexerInv, tick
    PROVE  IndexerInv'
<1>1. /\ UNCHANGED <<registered, failureVars, chain, cursor, rows, pushed, spent, owed>>
      /\ loop.pc = "idle" /\ chain \in Seq(SUBSET Key)
  BY DEF tick, Keep, IndexerInv, TypeOK
<1>2. cursor \in Nat /\ spent' \in Spent /\ Len(chain) \in Nat
  BY <1>1, LenProperties DEF IndexerInv, CursorOK, TypeOK, Spent
<1>3. PICK w : /\ w = Plan(Len(chain), cursor, MaxRange, Confirmations) /\ w # <<>>
               /\ loop' = [At("vaults") EXCEPT !.windows = w]
  BY DEF tick
<1>4. w \in Seq(Windows) /\ WindowsFollow(w, cursor, Len(chain) - Confirmations)
  BY <1>2, <1>3, PlanFollows
<1>5. Confirmed(chain) = Len(chain) - Confirmations
  <2>1. cursor + 1 <= Len(chain) - Confirmations
    BY <1>2, <1>3 DEF Plan
  <2> QED BY <1>2, <2>1 DEF Confirmed
<1>6. PICK at \in Loop : at = At("vaults") /\ at.pc = "vaults"
  BY AtTyped
<1>7. loop' \in Loop /\ loop'.pc = "vaults" /\ loop'.windows = w
  BY <1>3, <1>4, <1>6 DEF Loop, Windows
<1>8. CursorOK' /\ WindowsOK' /\ KnownOK' /\ FetchOK' /\ WrittenOK' /\ FreshOK'
  <2>1. CursorOK' /\ KnownOK' /\ FetchOK' /\ WrittenOK' /\ FreshOK'
    BY <1>1, <1>2, <1>7 DEF CursorOK, KnownOK, FetchOK, WrittenOK, FreshOK, Ticking
  <2>2. WindowsOK'
    BY <1>1, <1>4, <1>5, <1>7 DEF WindowsOK
  <2> QED BY <2>1, <2>2
<1> QED BY <1>1, <1>2, <1>7, <1>8, LoopMoves

\* A window begins with one call for all of it, and with no logs.
LEMMA FetchStarts ==
    ASSUME NEW w \in Seq(Windows), NEW known \in SUBSET Vault, loop' = Fetching(w, known),
           cursor' \in Nat, chain \in Seq(SUBSET Key), UNCHANGED chain,
           WindowsFollow(w, cursor', Confirmed(chain))
    PROVE  /\ loop' \in Loop /\ loop'.pc = "fetch" /\ loop'.windows = w /\ loop'.known = known
           /\ CursorOK' /\ WindowsOK' /\ FetchOK' /\ WrittenOK' /\ FreshOK'
<1>1. PICK h \in Windows : h = Head(w) /\ w[1] = h /\ 1 \in DOMAIN w /\ w # <<>>
  <2>1. w # <<>>
    BY DEF WindowsFollow
  <2>2. Head(w) \in Windows /\ Head(w) = w[1] /\ 1 \in DOMAIN w
    BY <2>1
  <2> QED BY <2>1, <2>2
<1>2. PICK at \in Loop : at = At("fetch")
  BY AtTyped
<1>3. <<h>> \in Seq(Windows) /\ <<h>> # <<>> /\ DOMAIN <<h>> = {1} /\ <<h>>[1] = h
  OBVIOUS
<1>4. PICK todo \in Seq(Windows) : todo = <<h>> /\ todo # <<>> /\ DOMAIN todo = {1} /\ todo[1] = h
  BY <1>3
<1>5. loop' = [at EXCEPT !.windows = w, !.known = known, !.todo = todo]
  BY <1>1, <1>2, <1>4 DEF Fetching
<1>6. /\ loop' \in Loop /\ loop'.windows = w /\ loop'.known = known /\ loop'.todo = todo
  BY <1>4, <1>5 DEF Loop, Windows
<1>7. at = [pc |-> "fetch", windows |-> <<>>, known |-> {}, todo |-> <<>>, logs |-> {},
            fresh |-> {}, seed |-> 0]
  BY <1>2 DEF At
<1>8. loop'.pc = "fetch" /\ loop'.logs = {}
  BY <1>5, <1>7
<1>9. CursorOK' /\ WrittenOK' /\ FreshOK'
  BY <1>8 DEF CursorOK, WrittenOK, FreshOK
<1>10. WindowsOK'
  BY <1>6 DEF WindowsOK
<1>11. FetchOK'
  <2>1. h.from \in Nat \ {0} /\ h.to <= Confirmed(chain)
    BY <1>1 DEF WindowsFollow, Windows
  <2> QED BY <1>1, <1>4, <1>6, <1>8, <2>1 DEF FetchOK
<1> QED BY <1>6, <1>8, <1>9, <1>10, <1>11

\* The vaults are read after the head: all that is owed so far is theirs.
LEMMA LoadVaultsKeeps ==
    ASSUME IndexerInv, loadVaults
    PROVE  IndexerInv'
<1>1. /\ UNCHANGED <<registered, failureVars, chain, cursor, rows, pushed, spent, owed>>
      /\ loop.pc = "vaults" /\ chain \in Seq(SUBSET Key) /\ spent' \in Spent
      /\ registered \subseteq Vault /\ loop' = Fetching(loop.windows, registered)
  BY DEF loadVaults, Keep, IndexerInv, TypeOK, FailureTypeOK, Spent
<1>2. /\ loop.windows \in Seq(Windows) /\ cursor \in Nat
      /\ WindowsFollow(loop.windows, cursor, Confirmed(chain))
  BY <1>1 DEF IndexerInv, TypeOK, Loop, Windows, CursorOK, WindowsOK, Ticking
<1>3. /\ loop' \in Loop /\ loop'.pc = "fetch" /\ loop'.windows = loop.windows
      /\ loop'.known = registered
      /\ CursorOK' /\ WindowsOK' /\ FetchOK' /\ WrittenOK' /\ FreshOK'
  BY <1>1, <1>2, FetchStarts
<1>4. KnownOK'
  BY <1>1, <1>3 DEF KnownOK, IndexerInv, OwedOK
<1> QED BY <1>1, <1>3, <1>4, LoopMoves

\* While a window is fetched: what the invariant says of the calls to make.
LEMMA Fetches ==
    ASSUME IndexerInv, loop.pc = "fetch"
    PROVE  /\ loop \in Loop /\ cursor \in Nat /\ chain \in Seq(SUBSET Key)
           /\ loop.todo \in Seq(Windows) /\ loop.todo # <<>> /\ Len(loop.todo) \in Nat \ {0}
           /\ DOMAIN loop.todo = 1 .. Len(loop.todo)
           /\ Head(loop.todo) = loop.todo[1] /\ Head(loop.todo) \in Windows
           /\ Tail(loop.todo) \in Seq(Windows) /\ Len(Tail(loop.todo)) = Len(loop.todo) - 1
           /\ \A j \in 1 .. Len(loop.todo) - 1 : Tail(loop.todo)[j] = loop.todo[j + 1]
           /\ WindowsFollow(loop.windows, cursor, Confirmed(chain))
<1>1. /\ loop \in Loop /\ cursor \in Nat /\ chain \in Seq(SUBSET Key)
      /\ loop.todo \in Seq(Windows) /\ loop.todo # <<>>
      /\ WindowsFollow(loop.windows, cursor, Confirmed(chain))
  BY DEF IndexerInv, TypeOK, Loop, Windows, CursorOK, Ticking, FetchOK, WindowsOK
<1>2. /\ Head(loop.todo) \in Windows /\ Tail(loop.todo) \in Seq(Windows)
      /\ Len(Tail(loop.todo)) = Len(loop.todo) - 1
      /\ \A i \in 1 .. Len(Tail(loop.todo)) : Tail(loop.todo)[i] = loop.todo[i + 1]
  BY <1>1, HeadTailProperties
<1>3. /\ Len(loop.todo) \in Nat \ {0} /\ Head(loop.todo) = loop.todo[1]
      /\ DOMAIN loop.todo = 1 .. Len(loop.todo)
  BY <1>1, LenProperties
<1> QED BY <1>1, <1>2, <1>3

\* One call is answered: its blocks are in the logs, the others in the calls
\* that are left.
LEMMA FetchLogsKeeps ==
    ASSUME IndexerInv, fetchLogs
    PROVE  IndexerInv'
<1>1. /\ UNCHANGED <<registered, failureVars, chain, cursor, rows, pushed, spent, owed>>
      /\ loop.pc = "fetch" /\ spent' \in Spent
  BY DEF fetchLogs, Keep, IndexerInv, TypeOK, Spent
<1>2. PICK n \in Nat \ {0} : n = Len(loop.todo)
  BY <1>1, Fetches
<1>3. PICK h \in Windows : h = Head(loop.todo) /\ h = loop.todo[1]
  BY <1>1, Fetches
<1>4. PICK rest \in Seq(Windows) : /\ rest = Tail(loop.todo) /\ Len(rest) = n - 1
                                   /\ DOMAIN rest = 1 .. n - 1
                                   /\ \A j \in 1 .. n - 1 : rest[j] = loop.todo[j + 1]
  <2>1. /\ Tail(loop.todo) \in Seq(Windows) /\ Len(Tail(loop.todo)) = n - 1
        /\ \A j \in 1 .. n - 1 : Tail(loop.todo)[j] = loop.todo[j + 1]
    BY <1>1, <1>2, Fetches
  <2>2. DOMAIN Tail(loop.todo) = 1 .. n - 1
    BY <2>1, LenProperties
  <2> QED BY <2>1, <2>2
<1>5. PICK found \in SUBSET Row :
          /\ found = LogsOf(h)
          /\ \A r \in found : /\ r.block \in h.from .. h.to /\ r.block \in DOMAIN chain
                              /\ r.key \in chain[r.block]
          /\ \A b \in h.from .. h.to : b \in DOMAIN chain =>
                \A k \in chain[b] : [key |-> k, block |-> b] \in found
  <2>1. h.from \in Nat /\ h.to \in Nat /\ h.from .. h.to \subseteq Nat
    BY DEF Windows
  <2>2. PICK R : R = [key : Key, block : h.from .. h.to]
    OBVIOUS
  <2>3. PICK found : /\ found = {r \in R : r.block \in DOMAIN chain /\ r.key \in chain[r.block]}
                     /\ found = LogsOf(h)
    BY <2>2 DEF LogsOf
  <2>4. found \in SUBSET Row
    BY <2>1, <2>2, <2>3 DEF Row
  <2>5. \A r \in found : r.block \in h.from .. h.to /\ r.block \in DOMAIN chain /\ r.key \in chain[r.block]
    BY <2>2, <2>3
  <2>6. ASSUME NEW b \in h.from .. h.to, b \in DOMAIN chain, NEW k \in chain[b]
        PROVE  [key |-> k, block |-> b] \in found
    <3>1. k \in Key
      <4>1. chain \in Seq(SUBSET Key)
        BY <1>1, Fetches
      <4>2. chain[b] \in SUBSET Key
        BY <2>6, <4>1, ElementOfSeq, LenProperties
      <4> QED BY <4>2
    <3>2. PICK r : r = [key |-> k, block |-> b]
      OBVIOUS
    <3>3. r \in R /\ r.key = k /\ r.block = b
      BY <2>2, <3>1, <3>2
    <3> QED BY <2>3, <2>6, <3>2, <3>3
  <2> QED BY <2>3, <2>4, <2>5, <2>6
<1>6. PICK pc \in {"fetch", "persist"} : pc = IF n = 1 THEN "persist" ELSE "fetch"
  OBVIOUS
<1>7. loop' = [loop EXCEPT !.logs = @ \cup found, !.todo = rest, !.pc = pc]
  BY <1>1, <1>2, <1>3, <1>4, <1>5, <1>6 DEF fetchLogs
<1>8. /\ loop' \in Loop /\ loop'.pc = pc /\ loop'.todo = rest /\ loop'.logs = loop.logs \cup found
      /\ loop'.windows = loop.windows /\ loop'.known = loop.known
  <2>1. loop \in Loop
    BY DEF IndexerInv, TypeOK
  <2> QED BY <1>4, <1>5, <1>7, <2>1 DEF Loop, Windows
<1>9. CursorOK' /\ WindowsOK' /\ KnownOK' /\ WrittenOK' /\ FreshOK'
  <2>1. CursorOK' /\ WrittenOK' /\ FreshOK'
    BY <1>1, <1>8 DEF IndexerInv, CursorOK, WrittenOK, FreshOK, Ticking
  <2>2. WindowsOK' /\ KnownOK'
    BY <1>1, <1>8 DEF IndexerInv, WindowsOK, KnownOK, Ticking
  <2> QED BY <2>1, <2>2
<1>10. FetchOK'
  <2>1. /\ \A j \in 1 .. n : loop.todo[j].from \in Nat \ {0} /\ loop.todo[j].to <= Confirmed(chain)
        /\ \A r \in loop.logs : r.block \in 1 .. Confirmed(chain) /\ r.key \in chain[r.block]
        /\ \A b \in Head(loop.windows).from .. Head(loop.windows).to : \A k \in chain[b] :
              \/ [key |-> k, block |-> b] \in loop.logs
              \/ \E j \in 1 .. n : b \in loop.todo[j].from .. loop.todo[j].to
    BY <1>1, <1>2, Fetches DEF IndexerInv, FetchOK, Settled, Ticking
  <2>2. (pc = "fetch") <=> (rest # <<>>)
    <3>1. (rest = <<>>) <=> (Len(rest) = 0)
      BY EmptySeq
    <3> QED BY SMTT(30), <1>4, <1>6, <3>1
  <2>3. \A j \in 1 .. n - 1 : rest[j].from \in Nat \ {0} /\ rest[j].to <= Confirmed(chain)
    BY <1>4, <2>1
  <2>4. h.from \in Nat \ {0} /\ h.to \in Nat /\ h.to <= Confirmed(chain)
    <3>1. 1 \in 1 .. n
      OBVIOUS
    <3>2. h.from \in Nat \ {0} /\ h.to <= Confirmed(chain)
      BY <1>3, <2>1, <3>1
    <3> QED BY <3>2 DEF Windows
  <2>5. Confirmed(chain) \in Nat /\ \A b \in 1 .. Confirmed(chain) : b \in DOMAIN chain
    <3>1. chain \in Seq(SUBSET Key)
      BY <1>1, Fetches
    <3>2. /\ Confirmed(chain) \in Nat /\ Confirmed(chain) <= Len(chain) /\ Len(chain) \in Nat
          /\ DOMAIN chain = 1 .. Len(chain)
      BY <3>1, ConfirmedHeight, LenProperties
    <3> QED BY <3>2
  <2>6. \A b \in h.from .. h.to : b \in 1 .. Confirmed(chain)
    BY <2>4, <2>5
  <2>7. \A r \in found : r.block \in 1 .. Confirmed(chain) /\ r.key \in chain[r.block]
    BY <1>5, <2>6
  <2>8. ASSUME NEW b \in Head(loop.windows).from .. Head(loop.windows).to, NEW k \in chain[b]
        PROVE  \/ [key |-> k, block |-> b] \in loop.logs \cup found
               \/ \E j \in 1 .. n - 1 : b \in rest[j].from .. rest[j].to
    <3>1. CASE [key |-> k, block |-> b] \in loop.logs
      BY <3>1
    <3>2. CASE \E j \in 1 .. n : b \in loop.todo[j].from .. loop.todo[j].to
      <4>1. PICK j \in 1 .. n : b \in loop.todo[j].from .. loop.todo[j].to
        BY <3>2
      <4>2. CASE j = 1
        <5>1. b \in h.from .. h.to /\ b \in DOMAIN chain
          BY <1>3, <2>5, <2>6, <4>1, <4>2
        <5> QED BY <1>5, <2>8, <5>1
      <4>3. CASE j # 1
        <5>1. j - 1 \in 1 .. n - 1 /\ (j - 1) + 1 = j
          BY <4>3
        <5>2. rest[j - 1] = loop.todo[j]
          BY <1>4, <5>1
        <5> QED BY <4>1, <5>1, <5>2
      <4> QED BY <4>2, <4>3
    <3> QED BY <2>1, <2>8, <3>1, <3>2
  <2>9. \A r \in loop.logs \cup found : r.block \in 1 .. Confirmed(chain) /\ r.key \in chain[r.block]
    BY <2>1, <2>7
  <2> QED BY <1>1, <1>4, <1>8, <2>2, <2>3, <2>8, <2>9 DEF FetchOK, Settled
<1> QED BY <1>1, <1>8, <1>9, <1>10, LoopMoves

\* A call is refused: its halves take its place, or the tick ends.
LEMMA FetchRejectedKeeps ==
    ASSUME IndexerInv, fetchRejected
    PROVE  IndexerInv'
<1>1. /\ UNCHANGED <<registered, failureVars, chain, cursor, rows, pushed, owed>>
      /\ loop.pc = "fetch" /\ spent' \in Spent
  BY FaultCounted DEF fetchRejected
<1>2. PICK n \in Nat \ {0} : n = Len(loop.todo)
  BY <1>1, Fetches
<1>3. PICK h \in Windows : h = Head(loop.todo) /\ h = loop.todo[1] /\ h.from \in Nat /\ h.to \in Nat
  BY <1>1, Fetches DEF Windows
<1>4. CASE ~(h.from < h.to)
  <2>1. loop' = At("idle") /\ cursor # NoCursor
    BY <1>1, <1>3, <1>4, Fetches DEF fetchRejected
  <2> QED BY <1>1, <2>1, LoopRests
<1>5. CASE h.from < h.to
  <2>1. PICK mid \in Nat : /\ Halve(h) = <<Window(h.from, mid), Window(mid + 1, h.to)>>
                           /\ h.from <= mid /\ mid < h.to
    BY <1>5, HalvesCover
  <2>2. PICK rest \in Seq(Windows) : /\ rest = Tail(loop.todo) /\ Len(rest) = n - 1
                                     /\ \A j \in 1 .. n - 1 : rest[j] = loop.todo[j + 1]
    BY <1>1, <1>2, Fetches
  <2>3. PICK left \in Windows, right \in Windows :
            /\ left = Window(h.from, mid) /\ left.from = h.from /\ left.to = mid
            /\ right = Window(mid + 1, h.to) /\ right.from = mid + 1 /\ right.to = h.to
    <3>1. Window(h.from, mid) \in Windows /\ Window(mid + 1, h.to) \in Windows
      BY <1>3, <2>1 DEF Window, Windows
    <3>2. /\ Window(h.from, mid).from = h.from /\ Window(h.from, mid).to = mid
          /\ Window(mid + 1, h.to).from = mid + 1 /\ Window(mid + 1, h.to).to = h.to
      BY DEF Window
    <3> QED BY <3>1, <3>2
  <2>4. PICK two \in Seq(Windows) : two = <<left, right>> /\ Len(two) = 2 /\ two[1] = left /\ two[2] = right
    <3>1. <<left, right>> \in Seq(Windows)
      OBVIOUS
    <3>2. Len(<<left, right>>) = 2 /\ <<left, right>>[1] = left /\ <<left, right>>[2] = right
      OBVIOUS
    <3> QED BY <3>1, <3>2
  <2>5. PICK todo \in Seq(Windows) :
            /\ todo = two \o rest /\ Len(todo) = n + 1 /\ DOMAIN todo = 1 .. n + 1 /\ todo # <<>>
            /\ todo[1] = left /\ todo[2] = right
            /\ \A j \in 2 .. n : todo[j + 1] = loop.todo[j]
    <3>1. /\ two \o rest \in Seq(Windows) /\ Len(two \o rest) = Len(two) + Len(rest)
          /\ \A i \in 1 .. Len(two) + Len(rest) : (two \o rest)[i] =
                  IF i <= Len(two) THEN two[i] ELSE rest[i - Len(two)]
      BY ConcatProperties
    <3>2. PICK todo \in Seq(Windows) : todo = two \o rest /\ Len(todo) = n + 1
              /\ (\A i \in 1 .. n + 1 : todo[i] = IF i <= 2 THEN two[i] ELSE rest[i - 2])
      <4>1. Len(two) = 2 /\ Len(rest) = n - 1 /\ 2 + (n - 1) = n + 1
        BY <2>2, <2>4
      <4> QED BY <3>1, <4>1
    <3>3. DOMAIN todo = 1 .. n + 1 /\ todo # <<>>
      BY <3>2, LenProperties
    <3>4. todo[1] = left /\ todo[2] = right
      BY <2>4, <3>2
    <3>5. ASSUME NEW j \in 2 .. n PROVE todo[j + 1] = loop.todo[j]
      <4>1. j + 1 \in 1 .. n + 1 /\ ~(j + 1 <= 2) /\ (j + 1) - 2 = j - 1 /\ j - 1 \in 1 .. n - 1
            /\ (j - 1) + 1 = j
        OBVIOUS
      <4>2. todo[j + 1] = rest[j - 1]
        BY <3>2, <4>1
      <4> QED BY <2>2, <4>1, <4>2
    <3> QED BY <3>2, <3>3, <3>4, <3>5
  <2>6. loop' = [loop EXCEPT !.todo = todo]
    BY <1>3, <1>5, <2>1, <2>2, <2>3, <2>4, <2>5 DEF fetchRejected
  <2>7. /\ loop' \in Loop /\ loop'.pc = "fetch" /\ loop'.todo = todo /\ loop'.logs = loop.logs
        /\ loop'.windows = loop.windows /\ loop'.known = loop.known
    <3>1. loop \in Loop
      BY DEF IndexerInv, TypeOK
    <3> QED BY <1>1, <2>6, <3>1 DEF Loop, Windows
  <2>8. CursorOK' /\ WindowsOK' /\ KnownOK' /\ WrittenOK' /\ FreshOK'
    <3>1. CursorOK' /\ WrittenOK' /\ FreshOK'
      BY <1>1, <2>7 DEF IndexerInv, CursorOK, WrittenOK, FreshOK, Ticking
    <3>2. WindowsOK' /\ KnownOK'
      BY <1>1, <2>7 DEF IndexerInv, WindowsOK, KnownOK, Ticking
    <3> QED BY <3>1, <3>2
  <2>9. FetchOK'
    <3>1. /\ \A j \in 1 .. n : loop.todo[j].from \in Nat \ {0} /\ loop.todo[j].to <= Confirmed(chain)
          /\ \A r \in loop.logs : Settled(r.block) /\ r.key \in chain[r.block]
          /\ \A b \in Head(loop.windows).from .. Head(loop.windows).to : \A k \in chain[b] :
                \/ [key |-> k, block |-> b] \in loop.logs
                \/ \E j \in 1 .. n : b \in loop.todo[j].from .. loop.todo[j].to
      BY <1>1, <1>2, Fetches DEF IndexerInv, FetchOK, Ticking
    <3>2. Confirmed(chain) \in Nat
      BY ConfirmedHeight DEF IndexerInv, TypeOK
    <3>3. /\ left.from \in Nat \ {0} /\ left.to <= Confirmed(chain)
          /\ right.from \in Nat \ {0} /\ right.to <= Confirmed(chain)
      <4>1. h.from \in Nat \ {0} /\ h.to <= Confirmed(chain)
        BY <1>2, <1>3, <3>1
      <4> QED BY SMTT(30), <1>3, <2>1, <2>3, <3>2, <4>1
    <3>4. \A j \in 1 .. n + 1 : j = 1 \/ j = 2 \/ (j - 1 \in 2 .. n /\ (j - 1) + 1 = j)
      BY <1>2
    <3>5. ASSUME NEW j \in 1 .. n + 1
          PROVE  todo[j].from \in Nat \ {0} /\ todo[j].to <= Confirmed(chain)
      <4>1. CASE j = 1 \/ j = 2
        BY <2>5, <3>3, <4>1
      <4>2. CASE j - 1 \in 2 .. n /\ (j - 1) + 1 = j
        <5>1. todo[j] = loop.todo[j - 1] /\ j - 1 \in 1 .. n
          <6>1. PICK i \in 2 .. n : i = j - 1 /\ i + 1 = j /\ i \in 1 .. n
            BY <4>2
          <6>2. todo[i + 1] = loop.todo[i]
            BY <2>5
          <6> QED BY <6>1, <6>2
        <5> QED BY <3>1, <5>1
      <4> QED BY <3>4, <4>1, <4>2
    <3>6. ASSUME NEW b \in Head(loop.windows).from .. Head(loop.windows).to, NEW k \in chain[b]
          PROVE  \/ [key |-> k, block |-> b] \in loop.logs
                 \/ \E j \in 1 .. n + 1 : b \in todo[j].from .. todo[j].to
      <4>1. CASE \E j \in 1 .. n : b \in loop.todo[j].from .. loop.todo[j].to
        <5>1. PICK j \in 1 .. n : b \in loop.todo[j].from .. loop.todo[j].to
          BY <4>1
        <5>2. CASE j = 1
          <6>1. b \in h.from .. h.to
            BY <1>3, <5>1, <5>2
          <6>2. b \in left.from .. left.to \/ b \in right.from .. right.to
            BY SMTT(30), <1>3, <2>1, <2>3, <6>1
          <6>3. 1 \in 1 .. n + 1 /\ 2 \in 1 .. n + 1
            BY <1>2
          <6> QED BY <2>5, <6>2, <6>3
        <5>3. CASE j # 1
          <6>1. j \in 2 .. n /\ j + 1 \in 1 .. n + 1
            BY <5>3
          <6> QED BY <2>5, <5>1, <6>1
        <5> QED BY <5>2, <5>3
      <4> QED BY <3>1, <3>6, <4>1
    <3> QED BY <1>1, <2>5, <2>7, <3>1, <3>5, <3>6 DEF FetchOK, Settled
  <2> QED BY <1>1, <2>7, <2>8, <2>9, LoopMoves
<1> QED BY <1>4, <1>5

Writing == {"persist", "push", "events", "flows", "advance"}

\* The steps that write a window keep what was planned and fetched for it.
LEMMA WindowKept ==
    ASSUME IndexerInv, loop.pc \in Writing, loop'.pc \in Writing,
           loop'.windows = loop.windows, loop'.known = loop.known, loop'.todo = loop.todo,
           loop'.logs = loop.logs, UNCHANGED <<chain, cursor, owed>>
    PROVE  CursorOK' /\ WindowsOK' /\ KnownOK' /\ FetchOK'
<1>1. loop.pc \in Ticking \ {"vaults"} /\ loop'.pc \in Ticking \ {"vaults"}
      /\ loop.pc # "fetch" /\ loop'.pc # "fetch" /\ loop'.pc # "seed"
  BY DEF Writing, Ticking
<1>2. CursorOK' /\ WindowsOK'
  BY <1>1 DEF IndexerInv, CursorOK, WindowsOK
<1>3. KnownOK'
  BY <1>1 DEF IndexerInv, KnownOK
<1>4. FetchOK'
  BY <1>1 DEF IndexerInv, FetchOK, Settled
<1> QED BY <1>2, <1>3, <1>4

\* The fetched logs of known vaults are in settled blocks, each log once.
LEMMA KnownSettled ==
    ASSUME IndexerInv, loop.pc \in Writing
    PROVE  /\ KnownLogs \subseteq Row
           /\ \A r \in KnownLogs : r.block \in 1 .. Confirmed(chain) /\ r.key \in chain[r.block]
           /\ \A r, q \in KnownLogs \cup rows : r.key = q.key => r = q
<1>1. /\ loop.logs \subseteq Row /\ KnownLogs \subseteq loop.logs /\ rows \subseteq Row
      /\ chain \in Seq(SUBSET Key)
  BY DEF KnownLogs, IndexerInv, TypeOK, Loop
<1>2. \A r \in loop.logs : r.block \in 1 .. Confirmed(chain) /\ r.key \in chain[r.block]
  BY DEF IndexerInv, FetchOK, Settled, Writing, Ticking
<1>3. \A r \in rows : r.block \in 1 .. Confirmed(chain) /\ r.key \in chain[r.block]
  BY DEF IndexerInv, RowsInChain, RowsFromChain
<1>4. \A b \in 1 .. Confirmed(chain) : b \in DOMAIN chain
  <2>1. /\ Confirmed(chain) \in Nat /\ Confirmed(chain) <= Len(chain) /\ Len(chain) \in Nat
        /\ DOMAIN chain = 1 .. Len(chain)
    BY <1>1, ConfirmedHeight, LenProperties
  <2> QED BY <2>1
<1>5. ASSUME NEW r \in KnownLogs \cup rows, NEW q \in KnownLogs \cup rows, r.key = q.key
      PROVE  r = q
  <2>1. /\ r \in Row /\ q \in Row /\ r.block \in DOMAIN chain /\ q.block \in DOMAIN chain
        /\ r.key \in chain[r.block] /\ r.key \in chain[q.block]
    BY <1>1, <1>2, <1>3, <1>4, <1>5
  <2>2. r.block = q.block
    BY <2>1 DEF IndexerInv, ChainOK
  <2> QED BY <1>5, <2>1, <2>2 DEF Row
<1> QED BY <1>1, <1>2, <1>5

\* Inserting what is not recorded yet keeps the rows true, unique and complete.
LEMMA RowsWritten ==
    ASSUME IndexerInv, loop.pc \in Writing, NEW kind, rows' = rows \cup NewRows(kind),
           UNCHANGED <<chain, cursor, owed>>
    PROVE  /\ rows' \subseteq Row /\ RowsInChain' /\ RowsFromChain' /\ NoGap'
           /\ Recorded \subseteq Recorded'
           /\ \A r \in KnownLogs : Event[r.key].kind = kind => r.key \in Recorded'
<1>1. NewRows(kind) \subseteq KnownLogs
  BY DEF NewRows
<1>2. PICK new \in SUBSET KnownLogs : new = NewRows(kind) /\ rows' = rows \cup new
  BY <1>1
<1>3. rows \subseteq Row /\ rows' \subseteq Row
  BY <1>2, KnownSettled DEF IndexerInv, TypeOK
<1>4. RowsInChain'
  BY <1>2, KnownSettled DEF IndexerInv, RowsInChain
<1>5. RowsFromChain'
  <2>1. \A r \in rows' : r.block \in 1 .. Confirmed(chain) /\ r.key \in chain[r.block]
    BY <1>2, KnownSettled DEF IndexerInv, RowsInChain, RowsFromChain
  <2>2. Confirmed(chain) \in Nat
    BY ConfirmedHeight DEF IndexerInv, TypeOK
  <2>3. \A r \in rows' : r.block <= Confirmed(chain)
    BY <2>1, <2>2
  <2>4. \A r, q \in rows' : r.key = q.key => r = q
    BY <1>2, KnownSettled
  <2> QED BY <2>1, <2>3, <2>4 DEF RowsFromChain
<1>6. NoGap'
  BY <1>2 DEF IndexerInv, NoGap
<1>7. Recorded \subseteq Recorded'
  BY <1>2 DEF Recorded
<1>8. ASSUME NEW r \in KnownLogs, Event[r.key].kind = kind PROVE r.key \in Recorded'
  <2>1. CASE r.key \in Recorded
    BY <1>7, <2>1
  <2>2. CASE r.key \notin Recorded
    <3>1. r \in rows'
      BY <1>2, <1>8, <2>2 DEF NewRows
    <3> QED BY <3>1 DEF Recorded
  <2> QED BY <2>1, <2>2
<1> QED BY <1>3, <1>4, <1>5, <1>6, <1>7, <1>8

\* Resolving rows keeps the table.
LEMMA ResolvedTyped ==
    ASSUME NEW table \in Seq(Failure), NEW pairs
    PROVE  /\ Resolved(table, pairs) \in Seq(Failure) /\ DOMAIN Resolved(table, pairs) = DOMAIN table
           /\ \A i \in DOMAIN table :
                 /\ Resolved(table, pairs)[i].pair = table[i].pair
                 /\ Resolved(table, pairs)[i].attempts = table[i].attempts
                 /\ Resolved(table, pairs)[i].open <=> table[i].open /\ table[i].pair \notin pairs
<1>1. PICK n \in Nat : n = Len(table) /\ DOMAIN table = 1 .. n /\ \A i \in 1 .. n : table[i] \in Failure
  BY LenProperties, ElementOfSeq
<1>2. PICK t : t = Resolved(table, pairs)
  OBVIOUS
<1>3. t = [i \in 1 .. n |-> [table[i] EXCEPT !.open = @ /\ table[i].pair \notin pairs]]
  BY <1>1, <1>2 DEF Resolved
<1>4. ASSUME NEW i \in 1 .. n
      PROVE  /\ t[i] \in Failure /\ t[i].pair = table[i].pair /\ t[i].attempts = table[i].attempts
             /\ t[i].open <=> table[i].open /\ table[i].pair \notin pairs
  <2>1. PICK f \in Failure : f = table[i] /\ f.open \in BOOLEAN
    BY <1>1 DEF Failure
  <2>2. PICK o \in BOOLEAN : o <=> (f.open /\ f.pair \notin pairs)
    <3>1. (f.open /\ f.pair \notin pairs) \in BOOLEAN
      BY <2>1
    <3> QED BY <3>1
  <2>3. t[i] = [f EXCEPT !.open = (f.open /\ f.pair \notin pairs)]
    BY <1>3, <2>1
  <2>4. (f.open /\ f.pair \notin pairs) = o
    BY <2>1, <2>2
  <2>5. t[i] = [f EXCEPT !.open = o]
    BY <2>3, <2>4
  <2>6. t[i] \in Failure /\ t[i].pair = f.pair /\ t[i].open = o /\ t[i].attempts = f.attempts
    BY <2>5 DEF Failure
  <2> QED BY <2>1, <2>2, <2>6
<1>5. t \in [1 .. n -> Failure]
  BY <1>3, <1>4
<1>6. t \in Seq(Failure) /\ DOMAIN t = 1 .. n
  BY <1>5
<1> QED BY <1>1, <1>2, <1>4, <1>6

\* A database step of the window: the parts of the invariant it can disturb.
LEMMA WriteMoves ==
    ASSUME IndexerInv, loop.pc \in Writing, loop'.pc \in Writing, loop' \in Loop,
           loop'.windows = loop.windows, loop'.known = loop.known, loop'.todo = loop.todo,
           loop'.logs = loop.logs, UNCHANGED <<chain, cursor, owed, registered, spent>>,
           NEW kind, rows' = rows \cup NewRows(kind), FailureTypeOK', pushed' \in [Key -> Nat],
           WrittenOK', FreshOK', PushedOnce'
    PROVE  IndexerInv'
<1>1. CursorOK' /\ WindowsOK' /\ KnownOK' /\ FetchOK'
  BY WindowKept
<1>2. rows' \subseteq Row /\ RowsInChain' /\ RowsFromChain' /\ NoGap'
  BY RowsWritten
<1>3. TypeOK'
  BY <1>2 DEF IndexerInv, TypeOK
<1>4. ChainOK' /\ OwedOK'
  BY DEF IndexerInv, ChainOK, OwedOK
<1> QED BY <1>1, <1>2, <1>3, <1>4 DEF IndexerInv

\* What was pushed stays recorded.
LEMMA PushedKept ==
    ASSUME IndexerInv, UNCHANGED pushed, Recorded \subseteq Recorded'
    PROVE  PushedOnce'
BY DEF IndexerInv, PushedOnce

\* persist: one transaction for the successes and the failures they close.
LEMMA PersistKeeps ==
    ASSUME IndexerInv, persist
    PROVE  IndexerInv'
<1>1. /\ UNCHANGED <<registered, handlers, reports, accepted, chain, cursor, pushed, spent, owed>>
      /\ loop.pc = "persist" /\ loop \in Loop /\ rows' = rows \cup NewRows("exec")
      /\ failures' = Resolved(failures, {PairOf(r.key) : r \in NewRows("exec")})
  BY DEF persist, IndexerInv, TypeOK
<1>2. PICK new : new = NewRows("exec")
  OBVIOUS
<1>3. new \subseteq KnownLogs /\ \A r \in new : Event[r.key].kind = "exec" /\ r.key \notin Recorded
  BY <1>2 DEF NewRows
<1>4. loop.pc \in Writing
  BY <1>1 DEF Writing
<1>5. PICK fresh \in SUBSET Key : fresh = {r.key : r \in new}
  <2>1. KnownLogs \subseteq Row
    BY <1>4, KnownSettled
  <2>2. \A r \in new : r.key \in Key
    BY <1>3, <2>1 DEF Row
  <2> QED BY <2>2
<1>6. PICK pc \in {"events", "push"} : pc = IF new = {} THEN "events" ELSE "push"
  OBVIOUS
<1>7. loop' = [loop EXCEPT !.pc = pc, !.fresh = fresh]
  BY <1>2, <1>5, <1>6 DEF persist
<1>8. /\ loop' \in Loop /\ loop'.pc = pc /\ loop'.fresh = fresh /\ loop'.windows = loop.windows
      /\ loop'.known = loop.known /\ loop'.todo = loop.todo /\ loop'.logs = loop.logs
  BY <1>1, <1>5, <1>7 DEF Loop
<1>9. FailureTypeOK'
  <2>1. failures' \in Seq(Failure)
    BY <1>1, ResolvedTyped DEF IndexerInv, TypeOK, FailureTypeOK
  <2> QED BY <1>1, <2>1 DEF IndexerInv, TypeOK, FailureTypeOK
<1>10. /\ Recorded \subseteq Recorded'
       /\ \A r \in KnownLogs : Event[r.key].kind = "exec" => r.key \in Recorded'
  BY <1>1, <1>4, RowsWritten
<1>11. WrittenOK'
  <2>1. KnownLogs' = KnownLogs
    BY <1>8 DEF KnownLogs
  <2>2. NewRows("exec")' = {}
    BY <1>10, <2>1 DEF NewRows
  <2> QED BY <1>6, <1>8, <2>2 DEF WrittenOK
<1>12. FreshOK'
  <2>1. \A k \in fresh : Event[k].kind = "exec" /\ k \in Recorded' /\ k \notin Recorded
    BY <1>3, <1>5, <1>10
  <2>2. \A k \in fresh : pushed[k] \in Nat /\ ~(pushed[k] > 0)
    BY <2>1 DEF IndexerInv, PushedOnce, TypeOK
  <2>3. \A k \in fresh : pushed[k] = 0
    BY <2>2
  <2> QED BY <1>1, <1>8, <2>1, <2>3 DEF FreshOK
<1>13. PushedOnce'
  BY <1>1, <1>10, PushedKept
<1>14. pc \in Writing /\ pushed' \in [Key -> Nat]
  BY <1>1 DEF Writing, IndexerInv, TypeOK
<1> QED BY <1>1, <1>4, <1>8, <1>9, <1>11, <1>12, <1>13, <1>14, WriteMoves

\* push: each fresh success for the first time.
LEMMA PushKeeps ==
    ASSUME IndexerInv, push
    PROVE  IndexerInv'
<1>1. /\ UNCHANGED <<registered, failureVars, chain, cursor, rows, spent, owed>>
      /\ loop.pc = "push" /\ loop \in Loop
      /\ pushed' = [k \in Key |-> IF k \in loop.fresh THEN pushed[k] + 1 ELSE pushed[k]]
      /\ loop' = [loop EXCEPT !.pc = "events", !.fresh = {}]
      /\ pushed \in [Key -> Nat]
  BY DEF push, IndexerInv, TypeOK
<1>2. /\ loop' \in Loop /\ loop'.pc = "events" /\ loop'.fresh = {} /\ loop'.windows = loop.windows
      /\ loop'.known = loop.known /\ loop'.todo = loop.todo /\ loop'.logs = loop.logs
  BY <1>1 DEF Loop
<1>3. CursorOK' /\ WindowsOK' /\ KnownOK' /\ FetchOK'
  BY <1>1, <1>2, WindowKept DEF Writing
<1>4. WrittenOK' /\ FreshOK'
  <2>1. NewRows("exec")' = NewRows("exec")
    BY <1>1, <1>2 DEF NewRows, KnownLogs, Recorded
  <2> QED BY <1>1, <1>2, <2>1 DEF IndexerInv, WrittenOK, FreshOK
<1>5. pushed' \in [Key -> Nat]
  BY <1>1
<1>6. PushedOnce'
  <2>1. Recorded' = Recorded
    BY <1>1 DEF Recorded
  <2>2. ASSUME NEW k \in Key, pushed'[k] > 0
        PROVE  pushed'[k] = 1 /\ Event[k].kind = "exec" /\ k \in Recorded
    <3>1. CASE k \in loop.fresh
      BY <1>1, <3>1 DEF IndexerInv, FreshOK
    <3>2. CASE k \notin loop.fresh
      BY <1>1, <2>2, <3>2 DEF IndexerInv, PushedOnce
    <3> QED BY <3>1, <3>2
  <2> QED BY <2>1, <2>2 DEF PushedOnce
<1>7. TypeOK'
  BY <1>1, <1>2, <1>5 DEF IndexerInv, TypeOK, FailureTypeOK, failureVars
<1>8. ChainOK' /\ OwedOK' /\ RowsInChain' /\ RowsFromChain' /\ NoGap'
  BY <1>1 DEF IndexerInv, ChainOK, OwedOK, RowsInChain, RowsFromChain, NoGap
<1> QED BY <1>3, <1>4, <1>6, <1>7, <1>8 DEF IndexerInv

\* Deposits, withdrawals and protocol flows are written one after the other.
LEMMA EventsKeep ==
    ASSUME IndexerInv, persistVaultEvents \/ indexProtocolFlows
    PROVE  IndexerInv'
<1>1. PICK kind \in {"money", "flow"}, pc \in {"flows", "advance"} :
          /\ rows' = rows \cup NewRows(kind) /\ loop' = [loop EXCEPT !.pc = pc]
          /\ loop.pc = (IF kind = "money" THEN "events" ELSE "flows")
          /\ pc = (IF kind = "money" THEN "flows" ELSE "advance")
  BY DEF persistVaultEvents, indexProtocolFlows
<1>2. /\ UNCHANGED <<registered, failureVars, chain, cursor, pushed, spent, owed>>
      /\ loop \in Loop /\ pushed' \in [Key -> Nat]
  BY DEF persistVaultEvents, indexProtocolFlows, IndexerInv, TypeOK
<1>3. /\ loop' \in Loop /\ loop'.pc = pc /\ loop'.windows = loop.windows
      /\ loop'.known = loop.known /\ loop'.todo = loop.todo /\ loop'.logs = loop.logs
  BY <1>1, <1>2 DEF Loop
<1>4. loop.pc \in Writing /\ pc \in Writing
  BY <1>1 DEF Writing
<1>5. /\ Recorded \subseteq Recorded'
      /\ \A r \in KnownLogs : Event[r.key].kind = kind => r.key \in Recorded'
  BY <1>1, <1>2, <1>4, RowsWritten
<1>6. WrittenOK'
  <2>1. KnownLogs' = KnownLogs
    BY <1>3 DEF KnownLogs
  <2>2. NewRows("exec")' = {}
    <3>1. NewRows("exec") = {}
      BY <1>1 DEF IndexerInv, WrittenOK
    <3> QED BY <1>5, <2>1, <3>1 DEF NewRows
  <2>3. NewRows("money")' = {}
    <3>1. CASE kind = "money"
      BY <1>5, <2>1, <3>1 DEF NewRows
    <3>2. CASE kind = "flow"
      <4>1. NewRows("money") = {}
        BY <1>1, <3>2 DEF IndexerInv, WrittenOK
      <4> QED BY <1>5, <2>1, <4>1 DEF NewRows
    <3> QED BY <3>1, <3>2
  <2> QED BY <2>2, <2>3 DEF WrittenOK
<1>7. FreshOK' /\ PushedOnce' /\ FailureTypeOK'
  <2>1. FreshOK'
    BY <1>1, <1>3 DEF FreshOK
  <2>2. PushedOnce'
    BY <1>2, <1>5, PushedKept
  <2>3. FailureTypeOK'
    BY <1>2 DEF IndexerInv, TypeOK, FailureTypeOK, failureVars
  <2> QED BY <2>1, <2>2, <2>3
<1> QED BY <1>1, <1>2, <1>3, <1>4, <1>6, <1>7, WriteMoves

\* The flows of the window are given up.
LEMMA FlowsFailKeeps ==
    ASSUME IndexerInv, protocolFlowsFail
    PROVE  IndexerInv'
<1>1. /\ UNCHANGED <<registered, failureVars, chain, cursor, rows, pushed, owed>>
      /\ loop.pc = "flows" /\ spent' \in Spent /\ loop' = [loop EXCEPT !.pc = "advance"]
      /\ loop \in Loop
  BY FaultCounted DEF protocolFlowsFail, IndexerInv, TypeOK
<1>2. /\ loop' \in Loop /\ loop'.pc = "advance" /\ loop'.windows = loop.windows
      /\ loop'.known = loop.known /\ loop'.todo = loop.todo /\ loop'.logs = loop.logs
  BY <1>1 DEF Loop
<1>3. CursorOK' /\ WindowsOK' /\ KnownOK' /\ FetchOK'
  BY <1>1, <1>2, WindowKept DEF Writing
<1>4. WrittenOK' /\ FreshOK'
  <2>1. NewRows("exec")' = NewRows("exec") /\ NewRows("money")' = NewRows("money")
    BY <1>1, <1>2 DEF NewRows, KnownLogs, Recorded
  <2> QED BY <1>1, <1>2, <2>1 DEF IndexerInv, WrittenOK, FreshOK
<1> QED BY <1>1, <1>2, <1>3, <1>4, LoopMoves

\* Before the cursor moves, everything owed in the window has its row.
LEMMA WindowWritten ==
    ASSUME IndexerInv, loop.pc = "advance"
    PROVE  /\ loop.windows \in Seq(Windows) /\ loop.windows # <<>> /\ cursor \in Nat
           /\ 1 \in DOMAIN loop.windows /\ Head(loop.windows) = loop.windows[1]
           /\ Head(loop.windows).from = cursor + 1
           /\ Head(loop.windows).to \in cursor + 1 .. Confirmed(chain)
           /\ \A b \in cursor + 1 .. Head(loop.windows).to :
                 \A k \in chain[b] \cap owed : [key |-> k, block |-> b] \in rows
<1>1. /\ loop.pc \in Ticking \ {"vaults"} /\ loop.pc \in Writing /\ cursor \in Nat
      /\ loop.windows \in Seq(Windows) /\ chain \in Seq(SUBSET Key)
      /\ WindowsFollow(loop.windows, cursor, Confirmed(chain))
  BY DEF IndexerInv, TypeOK, Loop, Windows, CursorOK, Ticking, Writing, WindowsOK
<1>2. PICK h \in Windows : h = Head(loop.windows) /\ h = loop.windows[1] /\ 1 \in DOMAIN loop.windows
  <2>1. loop.windows # <<>>
    BY <1>1 DEF WindowsFollow
  <2> QED BY SMTT(30), <1>1, <2>1
<1>3. /\ h.from = cursor + 1 /\ h.from <= h.to /\ h.to <= Confirmed(chain) /\ h.to \in Nat
      /\ Confirmed(chain) \in Nat
  <2>1. Confirmed(chain) \in Nat /\ h.to \in Nat
    BY <1>1, ConfirmedHeight DEF Windows
  <2> QED BY <1>1, <1>2, <2>1 DEF WindowsFollow
<1>4. ASSUME NEW b \in h.from .. h.to, NEW k \in chain[b] \cap owed
      PROVE  [key |-> k, block |-> b] \in rows
  <2>1. k \in Key /\ Event[k].vault \in loop.known /\ Event[k].kind # "flow"
    BY <1>1, <1>2, <1>4 DEF IndexerInv, TypeOK, KnownOK, OwedOK
  <2>2. Event[k].kind \in {"exec", "money"}
    BY <2>1 DEF LogEvent
  <2>3. loop.todo = <<>> 
    BY <1>1 DEF IndexerInv, FetchOK
  <2>4. ~\E j \in DOMAIN loop.todo : TRUE
    BY <2>3
  <2>5. PICK r : r = [key |-> k, block |-> b]
    OBVIOUS
  <2>6. r \in loop.logs /\ r.key = k /\ r.block = b
    BY <1>1, <1>2, <1>4, <2>4, <2>5 DEF IndexerInv, FetchOK
  <2>7. r \in KnownLogs
    BY <2>1, <2>6 DEF KnownLogs
  <2>8. k \in Recorded
    <3>1. NewRows("exec") = {} /\ NewRows("money") = {}
      BY DEF IndexerInv, WrittenOK
    <3> QED BY <2>2, <2>6, <2>7, <3>1 DEF NewRows
  <2>9. PICK q \in rows : q.key = k
    BY <2>8 DEF Recorded
  <2>10. q = r
    BY <1>1, <2>6, <2>7, <2>9, KnownSettled
  <2> QED BY <2>5, <2>9, <2>10
<1>5. h.to \in cursor + 1 .. Confirmed(chain)
  BY <1>1, <1>3
<1>6. loop.windows # <<>>
  BY <1>1 DEF WindowsFollow
<1> QED BY <1>1, <1>2, <1>3, <1>4, <1>5, <1>6

\* The cursor moves to the end of the window; the next one follows it.
LEMMA AdvanceKeeps ==
    ASSUME IndexerInv, advance
    PROVE  IndexerInv'
<1>1. /\ UNCHANGED <<registered, failureVars, chain, rows, pushed, spent, owed>>
      /\ loop.pc = "advance" /\ loop \in Loop /\ chain \in Seq(SUBSET Key)
      /\ cursor' = Head(loop.windows).to
      /\ loop' = IF Len(loop.windows) = 1 THEN At("idle")
                 ELSE Fetching(Tail(loop.windows), loop.known)
  BY DEF advance, Keep, IndexerInv, TypeOK
<1>2. PICK c \in Nat, last \in Nat, w \in Seq(Windows) :
          c = cursor /\ last = Confirmed(chain) /\ w = loop.windows
  BY <1>1, WindowWritten, ConfirmedHeight
<1>3. PICK e \in c + 1 .. last :
          /\ e = Head(w).to /\ e = w[1].to /\ cursor' = e /\ w # <<>>
          /\ \A b \in c + 1 .. e : \A k \in chain[b] \cap owed : [key |-> k, block |-> b] \in rows
  BY <1>1, <1>2, WindowWritten
<1>4. cursor' \in Nat /\ cursor' # NoCursor
  BY <1>2, <1>3
<1>5. NoGap'
  <2> SUFFICES ASSUME NEW b \in 1 .. Lesser(e, last), NEW k \in chain[b] \cap owed
               PROVE  [key |-> k, block |-> b] \in rows
    BY <1>1, <1>2, <1>3 DEF NoGap
  <2>1. b \in c + 1 .. e \/ b \in 1 .. Lesser(c, last)
    BY <1>2, <1>3 DEF Lesser
  <2>2. CASE b \in c + 1 .. e
    BY <1>3, <2>2
  <2>3. CASE b \in 1 .. Lesser(c, last)
    <3>1. cursor # NoCursor
      BY <1>2
    <3> QED BY <1>2, <2>3, <3>1 DEF IndexerInv, NoGap
  <2> QED BY <2>1, <2>2, <2>3
<1>6. ChainOK' /\ OwedOK' /\ RowsInChain' /\ RowsFromChain' /\ PushedOnce'
  BY <1>1 DEF IndexerInv, ChainOK, OwedOK, RowsInChain, RowsFromChain, PushedOnce, Recorded
<1>7. loop' \in Loop /\ CursorOK' /\ WindowsOK' /\ KnownOK' /\ FetchOK' /\ WrittenOK' /\ FreshOK'
  <2>1. CASE Len(w) = 1
    <3>1. loop' \in Loop /\ loop'.pc = "idle"
      BY <1>1, <1>2, <2>1, AtTyped
    <3> QED BY <1>4, <3>1 DEF CursorOK, WindowsOK, KnownOK, FetchOK, WrittenOK, FreshOK, Ticking
  <2>2. CASE Len(w) # 1
    <3>1. PICK n \in Nat : n = Len(w) - 1 /\ 0 < n /\ DOMAIN w = 1 .. n + 1 /\ Len(w) = n + 1
      <4>1. Len(w) \in Nat /\ Len(w) # 0 /\ DOMAIN w = 1 .. Len(w)
        BY <1>3, EmptySeq, LenProperties
      <4>2. PICK l \in Nat : l = Len(w) /\ l # 0 /\ l # 1
        BY <2>2, <4>1
      <4>3. PICK n \in Nat : n = l - 1 /\ 0 < n /\ l = n + 1
        BY <4>2
      <4> QED BY <4>1, <4>2, <4>3
    <3>2. PICK t \in Seq(Windows) :
              /\ t = Tail(w) /\ DOMAIN t = 1 .. n /\ t # <<>> /\ Head(t) = t[1]
              /\ \A i \in 1 .. n : t[i] = w[i + 1]
      <4>1. /\ Tail(w) \in Seq(Windows) /\ Len(Tail(w)) = Len(w) - 1
            /\ \A i \in 1 .. Len(Tail(w)) : Tail(w)[i] = w[i + 1]
        BY <1>3, HeadTailProperties
      <4>2. PICK t \in Seq(Windows) : t = Tail(w) /\ Len(t) = n /\ \A i \in 1 .. n : t[i] = w[i + 1]
        BY <3>1, <4>1
      <4>3. DOMAIN t = 1 .. n /\ t # <<>>
        BY <3>1, <4>2, LenProperties, EmptySeq
      <4>4. Head(t) = t[1]
        BY <4>3
      <4> QED BY <4>2, <4>3, <4>4
    <3>3. WindowsFollow(w, c, last)
      BY <1>1, <1>2 DEF IndexerInv, WindowsOK, Ticking
    <3>4. WindowsFollow(t, e, last)
      <4>1. t[1].from = e + 1
        <5>1. 1 \in DOMAIN w /\ 1 + 1 \in DOMAIN w /\ 1 \in 1 .. n
          BY <3>1
        <5>2. w[1 + 1].from = w[1].to + 1
          BY <3>3, <5>1 DEF WindowsFollow
        <5> QED BY <1>3, <3>2, <5>1, <5>2
      <4>2. \A i \in 1 .. n : 0 < t[i].from /\ t[i].from <= t[i].to /\ t[i].to <= last
        <5>1. \A i \in 1 .. n : i + 1 \in DOMAIN w
          BY <3>1
        <5> QED BY <3>2, <3>3, <5>1 DEF WindowsFollow
      <4>3. ASSUME NEW i \in 1 .. n, i + 1 \in 1 .. n PROVE t[i + 1].from = t[i].to + 1
        <5>1. i + 1 \in DOMAIN w /\ (i + 1) + 1 \in DOMAIN w
          BY <3>1, <4>3
        <5>2. w[(i + 1) + 1].from = w[i + 1].to + 1
          BY <3>3, <5>1 DEF WindowsFollow
        <5> QED BY <3>2, <4>3, <5>2
      <4> QED BY <3>2, <4>1, <4>2, <4>3 DEF WindowsFollow
    <3>5. loop' = Fetching(t, loop.known) /\ loop.known \in SUBSET Vault
      BY <1>1, <1>2, <2>2, <3>2 DEF Loop
    <3>6. /\ loop' \in Loop /\ loop'.pc = "fetch" /\ loop'.windows = t /\ loop'.known = loop.known
          /\ CursorOK' /\ WindowsOK' /\ FetchOK' /\ WrittenOK' /\ FreshOK'
      BY <1>1, <1>2, <1>3, <1>4, <3>4, <3>5, FetchStarts
    <3>7. KnownOK'
      <4> SUFFICES ASSUME NEW i \in 1 .. n, NEW b \in t[i].from .. t[i].to, NEW k \in chain[b] \cap owed
                   PROVE  Event[k].vault \in loop.known
        BY <1>1, <3>2, <3>6 DEF KnownOK
      <4>1. i + 1 \in DOMAIN w /\ t[i] = w[i + 1]
        BY SMTT(30), <3>1, <3>2
      <4> QED BY <1>1, <1>2, <4>1 DEF IndexerInv, KnownOK, Ticking
    <3> QED BY <3>6, <3>7
  <2> QED BY <2>1, <2>2
<1>8. TypeOK'
  BY <1>1, <1>4, <1>7 DEF IndexerInv, TypeOK, FailureTypeOK, failureVars
<1> QED BY <1>5, <1>6, <1>7, <1>8 DEF IndexerInv

-----------------------------------------------------------------------------
(* The users and the keepers.                                              *)

\* A new vault owes nothing yet; its logs become due as blocks are confirmed.
LEMMA RegisterKeeps ==
    ASSUME IndexerInv, NEW v \in Vault, registerVault(v)
    PROVE  IndexerInv'
<1>1. /\ UNCHANGED <<failureVars, chain, cursor, rows, loop, pushed, owed, spent>>
      /\ registered' = registered \cup {v}
  BY DEF registerVault, indexerVars
<1>2. TypeOK'
  BY <1>1 DEF IndexerInv, TypeOK, FailureTypeOK, failureVars
<1>3. OwedOK'
  BY <1>1 DEF IndexerInv, OwedOK
<1>4. ChainOK' /\ RowsInChain' /\ RowsFromChain' /\ NoGap' /\ CursorOK' /\ PushedOnce'
  BY <1>1 DEF IndexerInv, ChainOK, RowsInChain, RowsFromChain, NoGap, CursorOK, PushedOnce, Recorded
<1>5. WindowsOK' /\ KnownOK' /\ FetchOK' /\ WrittenOK' /\ FreshOK'
  BY <1>1 DEF IndexerInv, WindowsOK, KnownOK, FetchOK, WrittenOK, FreshOK, Settled, NewRows,
              KnownLogs, Recorded
<1> QED BY <1>2, <1>3, <1>4, <1>5 DEF IndexerInv

\* A report counted on a row changes neither its automation nor its state, and
\* leaves the other rows alone.
LEMMA RowCounted ==
    ASSUME FailureTypeOK, NEW h \in Handler, updateOpenRow(h)
    PROVE  /\ failures' \in Seq(Failure) /\ DOMAIN failures' = DOMAIN failures
           /\ \A i \in DOMAIN failures : /\ failures'[i].pair = failures[i].pair
                                         /\ failures'[i].open = failures[i].open
                                         /\ failures'[i].attempts =
                                               IF i = handlers[h].open THEN failures[i].attempts + 1
                                               ELSE failures[i].attempts
<1>1. PICK n \in Nat : n = Len(failures) /\ DOMAIN failures = 1 .. n
  BY LenProperties DEF FailureTypeOK
<1>2. failures \in Seq(Failure) /\ \A i \in 1 .. n : failures[i] \in Failure
  BY <1>1, ElementOfSeq DEF FailureTypeOK
<1>3. PICK j : j = handlers[h].open
  OBVIOUS
<1>4. PICK at \in Nat : at = handlers[h].at
  <2>1. handlers[h] \in Report \cup {Idle} /\ handlers[h].busy
    BY DEF FailureTypeOK, updateOpenRow
  <2>2. handlers[h] \in Report
    BY <2>1 DEF Idle
  <2> QED BY <2>2 DEF Report
<1>5. PICK once : once = [failures EXCEPT ![j].attempts = @ + 1]
  OBVIOUS
<1>6. failures' = [once EXCEPT ![j].last = at]
  BY <1>3, <1>4, <1>5 DEF updateOpenRow
<1>7. DOMAIN once = 1 .. n /\ DOMAIN failures' = 1 .. n
  BY <1>1, <1>5, <1>6
<1>8. ASSUME NEW i \in 1 .. n
      PROVE  /\ failures'[i] \in Failure
             /\ failures'[i].pair = failures[i].pair /\ failures'[i].open = failures[i].open
             /\ failures'[i].attempts = IF i = j THEN failures[i].attempts + 1
                                        ELSE failures[i].attempts
  <2>1. CASE i = j
    <3>1. PICK f \in Failure : f = failures[j]
      BY <1>2, <2>1
    <3>2. PICK c \in Nat \ {0} : c = f.attempts + 1
      BY DEF Failure
    <3>3. once[i] = [f EXCEPT !.attempts = c]
      BY <1>1, <1>5, <2>1, <3>1, <3>2
    <3>4. failures'[i] = [once[i] EXCEPT !.last = at]
      BY <1>6, <1>7, <2>1
    <3>5. PICK g : g = [f EXCEPT !.attempts = c]
      OBVIOUS
    <3>6. g \in Failure /\ g.pair = f.pair /\ g.open = f.open /\ g.attempts = c
      BY <3>5 DEF Failure
    <3>7. PICK e : e = [g EXCEPT !.last = at]
      OBVIOUS
    <3>8. e \in Failure /\ e.pair = g.pair /\ e.open = g.open /\ e.attempts = g.attempts
      BY <3>6, <3>7 DEF Failure
    <3> QED BY <2>1, <3>1, <3>2, <3>3, <3>4, <3>5, <3>6, <3>7, <3>8
  <2>2. CASE i # j
    BY <1>1, <1>2, <1>5, <1>6, <1>7, <2>2
  <2> QED BY <2>1, <2>2
<1>9. failures' \in [1 .. n -> Failure]
  <2>1. failures' = [i \in 1 .. n |-> failures'[i]]
    <3>1. once = [i \in DOMAIN once |-> once[i]]
      BY <1>5
    <3> QED BY <1>6, <1>7
  <2> QED BY <1>8, <2>1
<1>10. failures' \in Seq(Failure)
  BY <1>9
<1> QED BY <1>1, <1>3, <1>7, <1>8, <1>10

\* The report handlers keep the failure table's type.
LEMMA IngestTyped ==
    ASSUME FailureTypeOK, NEW height \in Nat, IngestNext(height), UNCHANGED registered
    PROVE  FailureTypeOK'
<1>1. PICK h \in Handler : \/ \E p \in Pair, at \in 1 .. height : receiveReport(h, p, at)
                           \/ updateOpenRow(h) \/ createRow(h) \/ createConflicts(h)
  BY DEF IngestNext
<1>2. /\ failures \in Seq(Failure) /\ handlers \in [Handler -> Report \cup {Idle}]
      /\ reports \in 0 .. MaxReports /\ accepted \in [Pair -> Nat]
      /\ DOMAIN failures = 1 .. Len(failures) /\ Len(failures) \in Nat
      /\ \A i \in DOMAIN failures : failures[i] \in Failure
  <2>1. failures \in Seq(Failure)
    BY DEF FailureTypeOK
  <2> QED BY <2>1, LenProperties, ElementOfSeq DEF FailureTypeOK
<1>3. CASE \E p \in Pair, at \in 1 .. height : receiveReport(h, p, at)
  <2>1. PICK p \in Pair, at \in 1 .. height : receiveReport(h, p, at)
    BY <1>3
  <2>2. PICK row \in Nat \cup {NoRow} :
            handlers' = [handlers EXCEPT ![h] = [busy |-> TRUE, pair |-> p, at |-> at, open |-> row]]
    <3>1. FirstOpen(p) \subseteq Nat \cup {NoRow}
      BY <1>2 DEF FirstOpen, OpenRows
    <3> QED BY <2>1, <3>1 DEF receiveReport
  <2>3. [busy |-> TRUE, pair |-> p, at |-> at, open |-> row] \in Report
    BY DEF Report
  <2>4. handlers' \in [Handler -> Report \cup {Idle}]
    BY <1>2, <2>2, <2>3
  <2>5. reports' \in 0 .. MaxReports
    BY <1>2, <2>1 DEF receiveReport
  <2> QED BY <1>2, <2>1, <2>4, <2>5 DEF receiveReport, FailureTypeOK
<1>4. CASE updateOpenRow(h) \/ createRow(h) \/ createConflicts(h)
  <2>1. handlers[h].busy /\ handlers' = [handlers EXCEPT ![h] = Idle] /\ reports' = reports
    BY <1>4 DEF updateOpenRow, createRow, createConflicts, Answer
  <2>2. handlers[h] \in Report
    BY <1>2, <2>1 DEF Idle
  <2>3. handlers[h].pair \in Pair /\ handlers[h].at \in Nat
    BY <2>2 DEF Report
  <2>4. handlers' \in [Handler -> Report \cup {Idle}]
    BY <1>2, <2>1
  <2>5. accepted' \in [Pair -> Nat]
    <3>1. CASE createConflicts(h)
      BY <1>2, <3>1 DEF createConflicts
    <3>2. CASE updateOpenRow(h) \/ createRow(h)
      <4>1. PICK p \in Pair : p = handlers[h].pair
        BY <2>3
      <4>2. accepted' = [accepted EXCEPT ![p] = @ + 1]
        BY <3>2, <4>1 DEF updateOpenRow, createRow, Count
      <4> QED BY <1>2, <4>2
    <3> QED BY <1>4, <3>1, <3>2
  <2>6. failures' \in Seq(Failure)
    <3>1. CASE updateOpenRow(h)
      BY <3>1, RowCounted
    <3>2. CASE createRow(h)
      <4>1. PICK f \in Failure : failures' = Append(failures, f)
        <5>1. PICK f : f = [pair |-> handlers[h].pair, open |-> TRUE, attempts |-> 1,
                            last |-> handlers[h].at]
          OBVIOUS
        <5>2. f \in Failure
          BY <2>3, <5>1 DEF Failure
        <5> QED BY <3>2, <5>1, <5>2 DEF createRow
      <4> QED BY <1>2, <4>1, AppendProperties
    <3>3. CASE createConflicts(h)
      BY <1>2, <3>3 DEF createConflicts
    <3> QED BY <1>4, <3>1, <3>2, <3>3
  <2> QED BY <1>2, <2>1, <2>4, <2>5, <2>6 DEF FailureTypeOK
<1> QED BY <1>1, <1>3, <1>4

\* Reports leave the history's invariant alone.
LEMMA IngestKeeps ==
    ASSUME IndexerInv, IngestNext(Len(chain)), UNCHANGED <<registered, chain, indexerVars, spent>>
    PROVE  IndexerInv'
<1>1. UNCHANGED <<registered, chain, cursor, rows, loop, pushed, owed, spent>>
  BY DEF indexerVars
<1>2. FailureTypeOK'
  <2>1. Len(chain) \in Nat
    BY LenProperties DEF IndexerInv, TypeOK
  <2> QED BY <1>1, <2>1, IngestTyped DEF IndexerInv, TypeOK
<1>3. TypeOK'
  BY <1>1, <1>2 DEF IndexerInv, TypeOK
<1>4. ChainOK' /\ OwedOK' /\ RowsInChain' /\ RowsFromChain' /\ NoGap' /\ CursorOK' /\ PushedOnce'
  BY <1>1 DEF IndexerInv, ChainOK, OwedOK, RowsInChain, RowsFromChain, NoGap, CursorOK, PushedOnce,
              Recorded
<1>5. WindowsOK' /\ KnownOK' /\ FetchOK' /\ WrittenOK' /\ FreshOK'
  BY <1>1 DEF IndexerInv, WindowsOK, KnownOK, FetchOK, WrittenOK, FreshOK, Settled, NewRows,
              KnownLogs, Recorded
<1> QED BY <1>3, <1>4, <1>5 DEF IndexerInv

-----------------------------------------------------------------------------
(* The invariant.                                                          *)

\* Mining and reorganising are growth.
mineAny == \E logs \in SUBSET Key : mineBlock(logs)

reorgAny ==
    \E n \in 1 .. Confirmations :
        /\ n <= Len(chain)
        /\ \E place \in [Key \ Mined(SubSeq(chain, 1, Len(chain) - n)) -> 0 .. n + 1] :
              reorg(n, place)

\* Both continue the chain.
LEMMA ChainGrows ==
    ASSUME IndexerInv, mineAny \/ reorgAny
    PROVE  Continues(chain') /\ Grow(chain') /\ spent' \in Spent
<1>1. spent \in Spent
  BY DEF IndexerInv, TypeOK, Spent
<1>2. CASE mineAny
  <2>1. PICK logs \in SUBSET Key : mineBlock(logs)
    BY <1>2 DEF mineAny
  <2>2. Continues(Append(chain, logs))
    BY <2>1, MinedContinues
  <2>3. chain' = Append(chain, logs) /\ Grow(Append(chain, logs)) /\ spent' = spent
    BY <2>1 DEF mineBlock, Grow
  <2> QED BY <1>1, <2>2, <2>3
<1>3. CASE reorgAny
  <2>1. PICK n \in 1 .. Confirmations :
            /\ n <= Len(chain)
            /\ \E place \in [Key \ Mined(SubSeq(chain, 1, Len(chain) - n)) -> 0 .. n + 1] :
                  reorg(n, place)
    BY <1>3 DEF reorgAny
  <2>2. PICK place \in [Key \ Mined(SubSeq(chain, 1, Len(chain) - n)) -> 0 .. n + 1] :
            reorg(n, place)
    BY <2>1
  <2>3. Continues(chain')
    BY <2>1, <2>2, ReorgContinues
  <2>4. spent.reorgs < MaxReorgs /\ spent' = [spent EXCEPT !.reorgs = @ + 1]
    BY <2>2 DEF reorg
  <2>5. spent' \in Spent
    <3>1. spent.reorgs + 1 \in 0 .. MaxReorgs
      BY <1>1, <2>4 DEF Spent
    <3>2. PICK r \in 0 .. MaxReorgs : r = spent.reorgs + 1
      BY <3>1
    <3>3. spent' = [spent EXCEPT !.reorgs = r]
      BY <2>4, <3>2
    <3> QED BY <1>1, <3>3 DEF Spent
  <2>6. Grow(chain')
    <3>1. PICK blocks : Grow(blocks)
      BY <2>2 DEF reorg
    <3>2. blocks = chain'
      BY <3>1 DEF Grow
    <3> QED BY <3>1, <3>2
  <2> QED BY <2>3, <2>5, <2>6
<1> QED BY <1>2, <1>3

\* The invariant holds in the initial state.
LEMMA IndexerStarts ==
    ASSUME Init
    PROVE  IndexerInv
<1>1. /\ registered = {} /\ failures = <<>> /\ handlers = [h \in Handler |-> Idle] /\ reports = 0
      /\ accepted = [p \in Pair |-> 0] /\ chain = <<>> /\ cursor = NoCursor /\ rows = {}
      /\ loop = At("down") /\ pushed = [k \in Key |-> 0] /\ owed = {}
      /\ spent = [reorgs |-> 0, faults |-> 0, crashes |-> 0]
  BY DEF Init, FailureInit
<1>2. loop \in Loop /\ loop.pc = "down"
  BY <1>1, AtTyped
<1>3. TypeOK
  <2>1. FailureTypeOK
    <3>1. failures \in Seq(Failure)
      BY <1>1
    <3>2. reports \in 0 .. MaxReports /\ accepted \in [Pair -> Nat] /\ registered \subseteq Vault
      BY <1>1
    <3>3. handlers \in [Handler -> Report \cup {Idle}]
      BY <1>1
    <3> QED BY <3>1, <3>2, <3>3 DEF FailureTypeOK
  <2>2. chain \in Seq(SUBSET Key)
    BY <1>1
  <2>3. spent \in [reorgs : 0 .. MaxReorgs, faults : 0 .. MaxFaults, crashes : 0 .. MaxCrashes]
    BY <1>1
  <2> QED BY <1>1, <1>2, <2>1, <2>2, <2>3 DEF TypeOK
<1>4. DOMAIN chain = {}
  BY <1>1
<1>5. ChainOK /\ OwedOK /\ RowsInChain /\ RowsFromChain /\ NoGap /\ PushedOnce
  BY <1>1, <1>4 DEF ChainOK, OwedOK, RowsInChain, RowsFromChain, NoGap, PushedOnce
<1>6. CursorOK /\ WindowsOK /\ KnownOK /\ FetchOK /\ WrittenOK /\ FreshOK
  BY <1>2 DEF CursorOK, WindowsOK, KnownOK, FetchOK, WrittenOK, FreshOK, Ticking
<1> QED BY <1>3, <1>5, <1>6 DEF IndexerInv

\* No step disturbs it.
LEMMA IndexerStays ==
    ASSUME IndexerInv, [Next]_vars
    PROVE  IndexerInv'
<1>1. CASE UNCHANGED vars
  <2>1. UNCHANGED <<registered, failures, handlers, reports, accepted, chain, cursor, rows, loop,
                    pushed, spent, owed>>
    BY <1>1 DEF vars, failureVars
  <2>2. TypeOK' /\ ChainOK' /\ OwedOK' /\ RowsInChain' /\ RowsFromChain' /\ NoGap' /\ CursorOK'
        /\ PushedOnce'
    BY <2>1 DEF IndexerInv, TypeOK, FailureTypeOK, ChainOK, OwedOK, RowsInChain, RowsFromChain,
                NoGap, CursorOK, PushedOnce, Recorded
  <2>3. WindowsOK' /\ KnownOK' /\ FetchOK' /\ WrittenOK' /\ FreshOK'
    BY <2>1 DEF IndexerInv, WindowsOK, KnownOK, FetchOK, WrittenOK, FreshOK, Settled, NewRows,
                KnownLogs, Recorded
  <2> QED BY <2>2, <2>3 DEF IndexerInv
<1>2. CASE LoopStep
  <2>1. CASE start
    BY <2>1, RestKeeps
  <2>2. CASE readCursor
    BY <2>2, ReadCursorKeeps
  <2>3. CASE initIfMissing
    BY <2>3, InitKeeps
  <2>4. CASE tick
    BY <2>4, TickKeeps
  <2>5. CASE loadVaults
    BY <2>5, LoadVaultsKeeps
  <2>6. CASE fetchLogs
    BY <2>6, FetchLogsKeeps
  <2>7. CASE persist
    BY <2>7, PersistKeeps
  <2>8. CASE push
    BY <2>8, PushKeeps
  <2>9. CASE persistVaultEvents \/ indexProtocolFlows
    BY <2>9, EventsKeep
  <2>10. CASE advance
    BY <2>10, AdvanceKeeps
  <2> QED BY <1>2, <2>1, <2>2, <2>3, <2>4, <2>5, <2>6, <2>7, <2>8, <2>9, <2>10 DEF LoopStep
<1>3. CASE Environment
  <2>1. CASE mineAny \/ reorgAny
    BY <2>1, ChainGrows, GrowthKeeps
  <2>2. CASE \E v \in Vault : registerVault(v)
    BY <2>2, RegisterKeeps
  <2>3. CASE IngestNext(Len(chain)) /\ UNCHANGED <<registered, chain, indexerVars, spent>>
    BY <2>3, IngestKeeps
  <2> QED BY <1>3, <2>1, <2>2, <2>3 DEF Environment, mineAny, reorgAny
<1>4. CASE crash \/ startFails \/ tickFails
  BY <1>4, RestKeeps
<1>5. CASE fetchRejected
  BY <1>5, FetchRejectedKeeps
<1>6. CASE protocolFlowsFail
  BY <1>6, FlowsFailKeeps
<1> QED BY <1>1, <1>2, <1>3, <1>4, <1>5, <1>6 DEF Next

\* The invariant holds throughout.
LEMMA IndexerInvariant == Spec => []IndexerInv
<1>1. Init => IndexerInv
  BY IndexerStarts
<1>2. IndexerInv /\ [Next]_vars => IndexerInv'
  BY IndexerStays
<1> QED BY <1>1, <1>2, PTL DEF Spec

\* The history holds exactly what the confirmed chain owes it, at every moment
\* of every run: each row is a log at its place on the chain, no log has two
\* rows, and behind the cursor nothing owed is missing (indexer.service.ts
\* runOnce and tick).
THEOREM HistoryExact == Spec => []RowsExact
<1>1. IndexerInv => RowsExact
  BY DEF IndexerInv, RowsExact
<1> QED BY <1>1, IndexerInvariant, PTL

\* A success reaches the browser at most once, and never before it is in the
\* history, whatever is crashed, retried or scanned again (persist and
\* emitNewExecutions).
THEOREM SuccessPushedOnce == Spec => [](TypeOK /\ PushedOnce)
<1>1. IndexerInv => TypeOK /\ PushedOnce
  BY DEF IndexerInv
<1> QED BY <1>1, IndexerInvariant, PTL

-----------------------------------------------------------------------------
(* The loop implements the feed.                                           *)

\* The feed's view of the chain: its confirmed blocks.
LEMMA ConfirmedBlocks ==
    ASSUME NEW blocks \in Seq(SUBSET Key), NEW n \in Nat, n = Confirmed(blocks)
    PROVE  /\ SubSeq(blocks, 1, n) \in Seq(SUBSET Key) /\ Len(SubSeq(blocks, 1, n)) = n
           /\ DOMAIN SubSeq(blocks, 1, n) = 1 .. n
           /\ \A b \in 1 .. n : SubSeq(blocks, 1, n)[b] = blocks[b]
<1>1. n <= Len(blocks) /\ Len(blocks) \in Nat
  BY ConfirmedHeight, LenProperties
<1>2. PICK s : s = SubSeq(blocks, 1, n)
  OBVIOUS
<1>3. /\ s \in Seq(SUBSET Key) /\ Len(s) = (IF 1 <= n THEN n - 1 + 1 ELSE 0)
      /\ \A i \in 1 .. n - 1 + 1 : s[i] = blocks[1 + i - 1]
  <2>1. \A i \in 1 .. n : blocks[i] \in SUBSET Key
    BY <1>1, ElementOfSeq
  <2> QED BY <1>1, <1>2, <2>1, SubSeqProperties
<1>4. Len(s) = n /\ \A i \in 1 .. n : s[i] = blocks[i]
  BY <1>3
<1> QED BY <1>2, <1>3, <1>4, LenProperties

\* A growing chain confirms blocks, or nothing the feed can see.
LEMMA GrowthConfirms ==
    ASSUME IndexerInv, Continues(chain'), Grow(chain')
    PROVE  Feed!Confirm \/ UNCHANGED Feed!feedVars
<1>1. chain \in Seq(SUBSET Key) /\ chain' \in Seq(SUBSET Key)
  BY DEF IndexerInv, TypeOK, Continues
<1>2. PICK c0 \in Nat, c1 \in Nat :
          /\ c0 = Confirmed(chain) /\ c1 = Confirmed(chain') /\ c0 <= c1
          /\ \A b \in 1 .. c0 : chain'[b] = chain[b]
  BY GrowthSettles
<1>3. PICK old \in Seq(SUBSET Key) : /\ old = SubSeq(chain, 1, Confirmed(chain)) /\ Len(old) = c0
                                     /\ \A b \in 1 .. c0 : old[b] = chain[b]
  BY <1>1, <1>2, ConfirmedBlocks
<1>4. PICK new \in Seq(SUBSET Key) : /\ new = SubSeq(chain', 1, Confirmed(chain')) /\ Len(new) = c1
                                     /\ \A b \in 1 .. c1 : new[b] = chain'[b]
  <2>1. PICK later \in Seq(SUBSET Key) : later = chain'
    BY <1>1
  <2>2. c1 = Confirmed(later)
    BY <1>2, <2>1
  <2>3. /\ SubSeq(later, 1, c1) \in Seq(SUBSET Key) /\ Len(SubSeq(later, 1, c1)) = c1
        /\ \A b \in 1 .. c1 : SubSeq(later, 1, c1)[b] = later[b]
    BY <2>2, ConfirmedBlocks
  <2> QED BY <2>1, <2>2, <2>3
<1>5. UNCHANGED <<cursor, rows>> /\ owed' = owed \cup Due(chain')
  BY DEF Grow
<1>6. \A b \in 1 .. c0 : b \in 1 .. c1 /\ new[b] = old[b]
  <2>1. \A b \in 1 .. c0 : b \in 1 .. c1
    BY <1>2
  <2> QED BY <1>2, <1>3, <1>4, <2>1
<1>7. \A k \in owed' \ owed : \E b \in c0 + 1 .. c1 : k \in new[b]
  <2>1. \A k \in Due(chain') : \E b \in c0 + 1 .. c1 : k \in chain'[b]
    BY <1>2 DEF Due
  <2>2. \A b \in c0 + 1 .. c1 : b \in 1 .. c1
    BY <1>2
  <2> QED BY <1>4, <1>5, <2>1, <2>2
<1>8. CASE c0 = c1
  <2>1. new = old
    BY <1>3, <1>4, <1>6, <1>8, SeqEqual
  <2>2. owed' = owed
    BY <1>5, <1>7, <1>8
  <2> QED BY <1>3, <1>4, <1>5, <2>1, <2>2 DEF Feed!feedVars
<1>9. CASE c0 # c1
  <2>1. SubSeq(new, 1, c0) = old
    <3>1. PICK s : s = SubSeq(new, 1, c0)
      OBVIOUS
    <3>2. /\ s \in Seq(SUBSET Key) /\ Len(s) = (IF 1 <= c0 THEN c0 - 1 + 1 ELSE 0)
          /\ \A i \in 1 .. c0 - 1 + 1 : s[i] = new[1 + i - 1]
      <4>1. \A i \in 1 .. c0 : new[i] \in SUBSET Key
        BY <1>2, <1>4, <1>6, ElementOfSeq
      <4> QED BY <1>2, <3>1, <4>1, SubSeqProperties
    <3>3. Len(s) = c0 /\ \A i \in 1 .. c0 : s[i] = new[i]
      <4>1. c0 - 1 + 1 = c0 /\ (~(1 <= c0) => c0 = 0)
        BY <1>2
      <4>2. Len(s) = c0 /\ \A i \in 1 .. c0 : s[i] = new[1 + i - 1]
        BY <3>2, <4>1
      <4>3. \A i \in 1 .. c0 : 1 + i - 1 = i
        OBVIOUS
      <4> QED BY <4>2, <4>3
    <3>4. s = old
      BY <1>3, <1>6, <3>2, <3>3, SeqEqual
    <3> QED BY <3>1, <3>4
  <2>2. c0 < c1
    BY <1>2, <1>9
  <2>3. Feed!Confirm
    BY <1>3, <1>4, <1>5, <1>7, <2>1, <2>2 DEF Feed!Confirm
  <2> QED BY <2>3
<1> QED BY <1>8, <1>9

\* A write of the window publishes logs of confirmed blocks, none twice.
LEMMA WritePublishes ==
    ASSUME IndexerInv, loop.pc \in Writing, NEW kind, rows' = rows \cup NewRows(kind),
           UNCHANGED <<chain, cursor, owed>>
    PROVE  Feed!Publish
<1>1. chain \in Seq(SUBSET Key) /\ rows \subseteq Row /\ rows' \subseteq Row
  BY RowsWritten DEF IndexerInv, TypeOK
<1>2. PICK c \in Nat : c = Confirmed(chain)
  BY <1>1, ConfirmedHeight
<1>3. PICK blocks \in Seq(SUBSET Key) :
          /\ blocks = SubSeq(chain, 1, Confirmed(chain)) /\ DOMAIN blocks = 1 .. c
          /\ \A b \in 1 .. c : blocks[b] = chain[b]
  BY ZenonT(30), <1>1, <1>2, ConfirmedBlocks
<1>4. \A r \in rows' : r.block \in 1 .. c /\ r.key \in blocks[r.block]
  <2>1. \A r \in rows' : r.block \in 1 .. c /\ r.key \in chain[r.block]
    BY <1>1, <1>2, RowsWritten DEF RowsInChain, RowsFromChain
  <2> QED BY <1>3, <2>1
<1>5. \A r, q \in rows' : r.key = q.key => r = q
  BY RowsWritten DEF RowsFromChain
<1>6. PICK old, new : /\ old = {<<r.key, r.block>> : r \in rows}
                      /\ new = {<<r.key, r.block>> : r \in rows'}
  OBVIOUS
<1>7. old \subseteq new
  BY <1>6
<1>8. \A x \in new : \E r \in rows' : x = <<r.key, r.block>> /\ x[1] = r.key /\ x[2] = r.block
  <2>1. \A x \in new : \E r \in rows' : x = <<r.key, r.block>>
    BY <1>6
  <2> QED BY <2>1
<1>9. \A x \in new : x[2] \in DOMAIN blocks /\ x[1] \in blocks[x[2]]
  <2> SUFFICES ASSUME NEW x \in new PROVE x[2] \in DOMAIN blocks /\ x[1] \in blocks[x[2]]
    OBVIOUS
  <2>1. PICK r \in rows' : x[1] = r.key /\ x[2] = r.block
    BY <1>8
  <2> QED BY <1>3, <1>4, <2>1
<1>10. \A x, y \in new : x[1] = y[1] => x = y
  <2> SUFFICES ASSUME NEW x \in new, NEW y \in new, x[1] = y[1] PROVE x = y
    OBVIOUS
  <2>1. PICK r \in rows' : x = <<r.key, r.block>> /\ x[1] = r.key
    BY <1>8
  <2>2. PICK q \in rows' : y = <<q.key, q.block>> /\ y[1] = q.key
    BY <1>8
  <2>3. r = q
    BY <1>5, <2>1, <2>2
  <2> QED BY <2>1, <2>2, <2>3
<1> QED BY <1>3, <1>6, <1>7, <1>9, <1>10 DEF Feed!Publish

\* The cursor passes only blocks whose owed logs are recorded.
LEMMA AdvancePasses ==
    ASSUME IndexerInv, advance
    PROVE  Feed!Pass
<1>1. /\ UNCHANGED <<chain, rows, owed>> /\ loop.pc = "advance" /\ chain \in Seq(SUBSET Key)
      /\ cursor' = Head(loop.windows).to
  BY DEF advance, Keep, IndexerInv, TypeOK
<1>2. PICK c \in Nat, n \in Nat : c = Confirmed(chain) /\ n = cursor
  BY <1>1, ConfirmedHeight, WindowWritten
<1>3. PICK blocks \in Seq(SUBSET Key) :
          /\ blocks = SubSeq(chain, 1, Confirmed(chain)) /\ Len(blocks) = c
          /\ \A b \in 1 .. c : blocks[b] = chain[b]
  BY <1>1, <1>2, ConfirmedBlocks
<1>4. /\ cursor' \in n + 1 .. c
      /\ \A b \in n + 1 .. cursor' : \A k \in chain[b] \cap owed : [key |-> k, block |-> b] \in rows
  BY <1>1, <1>2, WindowWritten
<1>5. ASSUME NEW b \in n + 1 .. cursor', NEW k \in blocks[b] \cap owed
      PROVE  <<k, b>> \in {<<r.key, r.block>> : r \in rows}
  <2>1. b \in 1 .. c
    BY <1>4
  <2>2. [key |-> k, block |-> b] \in rows
    BY <1>3, <1>4, <1>5, <2>1
  <2>3. PICK r \in rows : r.key = k /\ r.block = b
    BY <2>2
  <2> QED BY <2>3
<1>6. cursor # NoCursor
  BY <1>2
<1> QED BY <1>1, <1>2, <1>3, <1>4, <1>5, <1>6 DEF Feed!Pass

\* The first cursor starts the feed behind everything owed.
LEMMA InitBegins ==
    ASSUME IndexerInv, initIfMissing
    PROVE  Feed!Begin
<1>1. /\ UNCHANGED <<chain, rows, owed>> /\ loop.pc = "seed" /\ cursor = NoCursor
      /\ loop.seed \in Nat /\ cursor' = loop.seed /\ chain \in Seq(SUBSET Key)
      /\ \A b \in 1 .. Confirmed(chain) : chain[b] \cap owed # {} => b > loop.seed
  BY DEF initIfMissing, Keep, IndexerInv, TypeOK, Loop, CursorOK
<1>2. PICK c \in Nat, n \in Nat : c = Confirmed(chain) /\ n = loop.seed
  BY <1>1, ConfirmedHeight
<1>3. PICK blocks \in Seq(SUBSET Key) :
          /\ blocks = SubSeq(chain, 1, Confirmed(chain)) /\ DOMAIN blocks = 1 .. c
          /\ \A b \in 1 .. c : blocks[b] = chain[b]
  BY ZenonT(30), <1>1, <1>2, ConfirmedBlocks
<1>4. ASSUME NEW b \in 1 .. c, b <= n
      PROVE  blocks[b] \cap owed = {}
  <2>1. blocks[b] = chain[b] /\ ~(b > n)
    BY <1>3, <1>4
  <2> QED BY <1>1, <1>2, <2>1
<1> QED BY <1>1, <1>2, <1>3, <1>4 DEF Feed!Begin

\* Every step of the indexer is a step of the feed, or none.
LEMMA StepsFeed ==
    ASSUME IndexerInv, [Next]_vars
    PROVE  [Feed!Next]_(Feed!feedVars)
<1>1. ASSUME UNCHANGED <<chain, cursor, rows, owed>>
      PROVE  UNCHANGED Feed!feedVars
  BY <1>1 DEF Feed!feedVars
<1>2. CASE UNCHANGED vars
  BY <1>1, <1>2 DEF vars
<1>3. CASE LoopStep
  <2>1. CASE start \/ readCursor \/ tick \/ loadVaults \/ fetchLogs \/ push
    <3>1. UNCHANGED <<chain, cursor, rows, owed>>
      BY <2>1 DEF start, readCursor, tick, loadVaults, fetchLogs, push, Keep
    <3> QED BY <1>1, <3>1
  <2>2. CASE initIfMissing
    BY <2>2, InitBegins DEF Feed!Next
  <2>3. CASE persist \/ persistVaultEvents \/ indexProtocolFlows
    <3>1. loop.pc \in Writing /\ UNCHANGED <<chain, cursor, owed>>
      BY <2>3 DEF persist, persistVaultEvents, indexProtocolFlows, Writing
    <3>2. PICK kind : rows' = rows \cup NewRows(kind)
      BY <2>3 DEF persist, persistVaultEvents, indexProtocolFlows
    <3> QED BY <3>1, <3>2, WritePublishes DEF Feed!Next
  <2>4. CASE advance
    BY <2>4, AdvancePasses DEF Feed!Next
  <2> QED BY <1>3, <2>1, <2>2, <2>3, <2>4 DEF LoopStep
<1>4. CASE Environment
  <2>1. CASE mineAny \/ reorgAny
    BY <2>1, ChainGrows, GrowthConfirms DEF Feed!Next
  <2>2. CASE \E v \in Vault : registerVault(v)
    BY <1>1, <2>2 DEF registerVault, indexerVars
  <2>3. CASE IngestNext(Len(chain)) /\ UNCHANGED <<registered, chain, indexerVars, spent>>
    BY <1>1, <2>3 DEF indexerVars
  <2> QED BY <1>4, <2>1, <2>2, <2>3 DEF Environment, mineAny, reorgAny
<1>5. CASE crash \/ startFails \/ fetchRejected \/ protocolFlowsFail \/ tickFails
  <2>1. UNCHANGED <<chain, cursor, rows, owed>>
    BY <1>5 DEF crash, startFails, fetchRejected, protocolFlowsFail, tickFails, Fault
  <2> QED BY <1>1, <2>1
<1> QED BY <1>2, <1>3, <1>4, <1>5 DEF Next

\* The loop of ticks, windows, RPC calls and crashes implements the feed: what
\* it shows to a reader of the tables is confirmed logs recorded once each, and
\* a cursor that passes a block only when nothing owed in it is missing.
THEOREM IndexerImplementsFeed == Spec => FeedSpec
<1>1. Init => Feed!Init
  <2> SUFFICES ASSUME Init PROVE Feed!Init
    OBVIOUS
  <2>1. chain = <<>> /\ owed = {} /\ rows = {} /\ cursor = NoCursor
    BY DEF Init
  <2>2. Confirmed(chain) = 0
    BY <2>1 DEF Confirmed
  <2>3. SubSeq(chain, 1, Confirmed(chain)) = <<>>
    BY <2>1, <2>2
  <2> QED BY <2>1, <2>3 DEF Feed!Init
<1>2. IndexerInv /\ [Next]_vars => [Feed!Next]_(Feed!feedVars)
  BY StepsFeed
<1> QED BY <1>1, <1>2, IndexerInvariant, PTL DEF Spec, FeedSpec, Feed!Spec

-----------------------------------------------------------------------------
(* The failures.                                                           *)

\* Successes that a step records.
Stored == {PairOf(r.key) : r \in {q \in rows' \ rows : Event[q.key].kind = "exec"}}

\* The table of failures changes with a success or with a report, and only
\* persist records successes.
LEMMA TableSteps ==
    ASSUME IndexerInv, Next
    PROVE  \/ persist
           \/ Stored = {} /\ UNCHANGED failureVars
           \/ Stored = {} /\ IngestNext(Len(chain))
<1>1. ASSUME rows' = rows PROVE Stored = {}
  BY <1>1 DEF Stored
<1>2. CASE LoopStep
  <2>1. CASE start \/ readCursor \/ initIfMissing \/ tick \/ loadVaults \/ fetchLogs \/ push \/ advance
    <3>1. UNCHANGED failureVars /\ rows' = rows
      BY <2>1 DEF start, readCursor, initIfMissing, tick, loadVaults, fetchLogs, push, advance, Keep
    <3> QED BY <1>1, <3>1
  <2>2. CASE persistVaultEvents \/ indexProtocolFlows
    <3>1. PICK kind \in {"money", "flow"} : rows' = rows \cup NewRows(kind)
      BY <2>2 DEF persistVaultEvents, indexProtocolFlows
    <3>2. \A r \in rows' \ rows : Event[r.key].kind = kind
      BY <3>1 DEF NewRows
    <3>3. \A r \in rows' \ rows : Event[r.key].kind # "exec"
      BY <3>1, <3>2
    <3>4. Stored = {}
      BY <3>3 DEF Stored
    <3> QED BY <2>2, <3>4 DEF persistVaultEvents, indexProtocolFlows
  <2> QED BY <1>2, <2>1, <2>2 DEF LoopStep
<1>3. CASE Environment
  <2>1. CASE mineAny \/ reorgAny
    <3>1. Grow(chain')
      BY <2>1, ChainGrows
    <3> QED BY <1>1, <3>1 DEF Grow
  <2>2. CASE \E v \in Vault : registerVault(v)
    BY <1>1, <2>2 DEF registerVault, indexerVars
  <2>3. CASE IngestNext(Len(chain)) /\ UNCHANGED <<registered, chain, indexerVars, spent>>
    <3>1. Stored = {}
      BY <1>1, <2>3 DEF indexerVars
    <3> QED BY <2>3, <3>1
  <2> QED BY <1>3, <2>1, <2>2, <2>3 DEF Environment, mineAny, reorgAny
<1>4. CASE crash \/ startFails \/ fetchRejected \/ protocolFlowsFail \/ tickFails
  <2>1. UNCHANGED failureVars /\ rows' = rows
    BY <1>4 DEF crash, startFails, fetchRejected, protocolFlowsFail, tickFails, Fault
  <2> QED BY <1>1, <2>1
<1> QED BY <1>2, <1>3, <1>4 DEF Next

\* persist stores its new successes and closes exactly their failures.
LEMMA PersistResolves ==
    ASSUME IndexerInv, persist
    PROVE  /\ failures \in Seq(Failure) /\ failures' = Resolved(failures, Stored)
<1>1. PICK new : new = NewRows("exec")
  OBVIOUS
<1>2. rows' = rows \cup new /\ failures' = Resolved(failures, {PairOf(r.key) : r \in new})
  BY <1>1 DEF persist
<1>3. \A r \in new : r \notin rows /\ Event[r.key].kind = "exec"
  BY <1>1 DEF NewRows, Recorded
<1>4. {q \in rows' \ rows : Event[q.key].kind = "exec"} = new
  BY <1>2, <1>3
<1> QED BY <1>2, <1>4 DEF Stored, IndexerInv, TypeOK, FailureTypeOK

\* A report that opens a row leaves the other rows as they are.
LEMMA RowAdded ==
    ASSUME FailureTypeOK, NEW h \in Handler, createRow(h)
    PROVE  \E n \in Nat, f \in Failure :
              /\ DOMAIN failures = 1 .. n /\ DOMAIN failures' = 1 .. n + 1
              /\ \A i \in 1 .. n : failures'[i] = failures[i]
              /\ failures'[n + 1] = f /\ OpenRows(f.pair) = {}
              /\ Len(failures) = n /\ Len(failures') = n + 1
              /\ f.pair = handlers[h].pair /\ f.attempts = 1
<1>1. handlers[h] \in Report
  <2>1. handlers[h] \in Report \cup {Idle} /\ handlers[h].busy
    BY DEF FailureTypeOK, createRow
  <2> QED BY <2>1 DEF Idle
<1>2. PICK f : f = [pair |-> handlers[h].pair, open |-> TRUE, attempts |-> 1, last |-> handlers[h].at]
  OBVIOUS
<1>3. f \in Failure /\ f.pair = handlers[h].pair /\ f.attempts = 1
  <2>1. handlers[h].pair \in Pair /\ handlers[h].at \in Nat
    BY <1>1 DEF Report
  <2> QED BY <1>2, <2>1 DEF Failure
<1>4. failures' = Append(failures, f) /\ OpenRows(f.pair) = {} /\ failures \in Seq(Failure)
  BY <1>2, <1>3 DEF createRow, FailureTypeOK
<1>5. PICK n \in Nat : n = Len(failures) /\ DOMAIN failures = 1 .. n
  BY <1>4, LenProperties
<1>6. /\ failures' \in Seq(Failure) /\ Len(failures') = Len(failures) + 1
      /\ \A i \in 1 .. Len(failures) : failures'[i] = failures[i]
      /\ failures'[Len(failures) + 1] = f
  BY <1>3, <1>4, AppendProperties
<1>7. DOMAIN failures' = 1 .. Len(failures) + 1
  BY <1>6, LenProperties
<1> QED BY <1>3, <1>4, <1>5, <1>6, <1>7

\* A failure is closed by a success of its own automation, in the transaction
\* that stores the success, and that transaction leaves none of them open
\* (indexer.service.ts persist).
THEOREM FailuresCloseWithSuccess == Spec => FailureClosedBySuccess
<1> DEFINE A == \A i \in DOMAIN failures :
                    failures[i].open => (failures'[i].open <=> failures[i].pair \notin Stored)
<1>1. IndexerInv /\ [Next]_vars => [A]_vars
  <2> SUFFICES ASSUME IndexerInv, Next, NEW i \in DOMAIN failures, failures[i].open
               PROVE  failures'[i].open <=> failures[i].pair \notin Stored
    OBVIOUS
  <2>1. CASE persist
    BY <2>1, PersistResolves, ResolvedTyped
  <2>2. CASE failures' = failures /\ Stored = {}
    BY <2>2
  <2> SUFFICES ASSUME Stored = {}, NEW h \in Handler, updateOpenRow(h) \/ createRow(h)
               PROVE  failures'[i].open <=> failures[i].pair \notin Stored
    <3>1. IngestNext(Len(chain)) =>
              failures' = failures \/ \E h \in Handler : updateOpenRow(h) \/ createRow(h)
      BY DEF IngestNext, receiveReport, createConflicts
    <3> QED BY <2>1, <2>2, <3>1, TableSteps DEF failureVars
  <2>3. CASE updateOpenRow(h)
    BY <2>3, RowCounted DEF IndexerInv, TypeOK
  <2>4. CASE createRow(h)
    BY <2>4, RowAdded DEF IndexerInv, TypeOK
  <2> QED BY <2>3, <2>4
<1>2. [A]_vars => [LET stored == {PairOf(r.key) : r \in {q \in rows' \ rows : Event[q.key].kind = "exec"}}
                   IN  \A i \in DOMAIN failures :
                           failures[i].open => (failures'[i].open <=> failures[i].pair \notin stored)]_vars
  BY DEF Stored
<1> QED BY <1>1, <1>2, IndexerInvariant, PTL DEF Spec, FailureClosedBySuccess

\* Two open rows of an automation are one row.
OneOpen ==
    \A i, j \in DOMAIN failures :
        failures[i].open /\ failures[j].open /\ failures[i].pair = failures[j].pair => i = j

\* The unique index, the count by row id and the resolving transaction keep it.
LEMMA OneOpenStays ==
    ASSUME IndexerInv, OneOpen, [Next]_vars
    PROVE  OneOpen'
<1>1. CASE UNCHANGED vars
  BY <1>1 DEF vars, failureVars, OneOpen
<1>2. CASE persist
  <2>1. /\ DOMAIN failures' = DOMAIN failures
        /\ \A i \in DOMAIN failures : /\ failures'[i].pair = failures[i].pair
                                      /\ failures'[i].open => failures[i].open
    BY <1>2, PersistResolves, ResolvedTyped
  <2> QED BY <2>1 DEF OneOpen
<1>3. CASE failures' = failures
  BY <1>3 DEF OneOpen
<1>4. ASSUME NEW h \in Handler, updateOpenRow(h) PROVE OneOpen'
  <2>1. /\ DOMAIN failures' = DOMAIN failures
        /\ \A i \in DOMAIN failures : /\ failures'[i].pair = failures[i].pair
                                      /\ failures'[i].open => failures[i].open
    BY <1>4, RowCounted DEF IndexerInv, TypeOK
  <2> QED BY <2>1 DEF OneOpen
<1>5. ASSUME NEW h \in Handler, createRow(h) PROVE OneOpen'
  <2>1. PICK n \in Nat, f \in Failure :
            /\ DOMAIN failures = 1 .. n /\ DOMAIN failures' = 1 .. n + 1
            /\ \A i \in 1 .. n : failures'[i] = failures[i]
            /\ failures'[n + 1] = f /\ OpenRows(f.pair) = {}
    BY <1>5, RowAdded DEF IndexerInv, TypeOK
  <2>2. \A i \in 1 .. n : ~(failures[i].pair = f.pair /\ failures[i].open)
    BY <2>1 DEF OpenRows
  <2>3. \A i \in 1 .. n + 1 : i \in 1 .. n \/ i = n + 1
    OBVIOUS
  <2> QED BY <2>1, <2>2, <2>3 DEF OneOpen
<1>6. CASE IngestNext(Len(chain))
  <2>1. failures' = failures \/ \E h \in Handler : updateOpenRow(h) \/ createRow(h)
    BY <1>6 DEF IngestNext, receiveReport, createConflicts
  <2> QED BY <1>3, <1>4, <1>5, <2>1
<1> QED BY <1>1, <1>2, <1>3, <1>6, TableSteps DEF failureVars

\* At most one open failure per automation, however many reports race
\* (failure-ingest.service.ts, and the partial unique index of the migration).
LEMMA OpenFailuresUnique == Spec => []OneOpenFailure
<1>1. Init => OneOpen
  BY DEF Init, FailureInit, OneOpen
<1>2. IndexerInv /\ OneOpen /\ [Next]_vars => OneOpen'
  BY OneOpenStays
<1>3. OneOpen => OneOpenFailure
  <2> SUFFICES ASSUME OneOpen, NEW p \in Pair PROVE Cardinality(OpenRows(p)) <= 1
    BY DEF OneOpenFailure
  <2>1. CASE OpenRows(p) = {}
    BY <2>1, FS_EmptySet
  <2>2. CASE OpenRows(p) # {}
    <3>1. PICK i : i \in OpenRows(p)
      BY <2>2
    <3>2. OpenRows(p) = {i}
      BY <3>1 DEF OneOpen, OpenRows
    <3>3. Cardinality({i}) = 1
      BY FS_Singleton
    <3> QED BY <3>2, <3>3
  <2> QED BY <2>1, <2>2
<1> QED BY <1>1, <1>2, <1>3, IndexerInvariant, PTL DEF Spec

\* The attempts of an automation can be counted, and are the reports accepted.
Accounted ==
    \A p \in Pair : IsFiniteSet(Attempts(p)) /\ Cardinality(Attempts(p)) = accepted[p]

\* The row a handler has found stays a row of its automation, open or not.
HandlersOK ==
    \A h \in Handler :
        handlers[h].busy /\ handlers[h].open # NoRow =>
            /\ handlers[h].open \in DOMAIN failures
            /\ failures[handlers[h].open].pair = handlers[h].pair

\* What a handler works on.
LEMMA HandlerTyped ==
    ASSUME FailureTypeOK, NEW h \in Handler, handlers[h].busy
    PROVE  handlers[h] \in Report /\ handlers[h].pair \in Pair
<1>1. handlers[h] \in Report \cup {Idle}
  BY DEF FailureTypeOK
<1>2. handlers[h] \in Report
  BY <1>1 DEF Idle
<1> QED BY <1>2 DEF Report

\* A table whose rows keep their place and automation keeps the handlers' rows.
LEMMA HandlersKept ==
    ASSUME HandlersOK, DOMAIN failures \subseteq DOMAIN failures',
           \A i \in DOMAIN failures : failures'[i].pair = failures[i].pair,
           \A h \in Handler : handlers'[h] = handlers[h] \/ handlers'[h] = Idle
    PROVE  HandlersOK'
<1> SUFFICES ASSUME NEW h \in Handler, handlers'[h].busy, handlers'[h].open # NoRow
             PROVE  /\ handlers'[h].open \in DOMAIN failures'
                    /\ failures'[handlers'[h].open].pair = handlers'[h].pair
  BY DEF HandlersOK
<1>1. handlers'[h] = handlers[h]
  BY DEF Idle
<1> QED BY <1>1 DEF HandlersOK

\* No step makes a handler update a row of another automation.
LEMMA HandlersStay ==
    ASSUME IndexerInv, HandlersOK, [Next]_vars
    PROVE  HandlersOK'
<1>0. FailureTypeOK /\ handlers \in [Handler -> Report \cup {Idle}] /\ failures \in Seq(Failure)
  BY DEF IndexerInv, TypeOK, FailureTypeOK
<1>1. CASE UNCHANGED failureVars
  BY <1>1 DEF failureVars, HandlersOK
<1>2. CASE persist
  <2>1. /\ DOMAIN failures' = DOMAIN failures /\ handlers' = handlers
        /\ \A i \in DOMAIN failures : failures'[i].pair = failures[i].pair
    BY <1>2, PersistResolves, ResolvedTyped DEF persist
  <2> QED BY <2>1, HandlersKept
<1>3. CASE IngestNext(Len(chain))
  <2>1. PICK h \in Handler : \/ \E p \in Pair, at \in 1 .. Len(chain) : receiveReport(h, p, at)
                             \/ updateOpenRow(h) \/ createRow(h) \/ createConflicts(h)
    BY <1>3 DEF IngestNext
  <2>2. CASE \E p \in Pair, at \in 1 .. Len(chain) : receiveReport(h, p, at)
    <3>1. PICK p \in Pair, at \in 1 .. Len(chain) : receiveReport(h, p, at)
      BY <2>2
    <3>2. PICK row \in FirstOpen(p) : handlers' =
              [handlers EXCEPT ![h] = [busy |-> TRUE, pair |-> p, at |-> at, open |-> row]]
      BY <3>1 DEF receiveReport
    <3>3. row # NoRow => row \in DOMAIN failures /\ failures[row].pair = p
      BY <3>2 DEF FirstOpen, OpenRows
    <3>4. failures' = failures
      BY <3>1 DEF receiveReport
    <3>5. handlers'[h].open = row /\ handlers'[h].pair = p
      BY <1>0, <3>2
    <3>6. \A g \in Handler \ {h} : handlers'[g] = handlers[g]
      BY <1>0, <3>2
    <3> QED BY <3>3, <3>4, <3>5, <3>6 DEF HandlersOK
  <2>3. CASE updateOpenRow(h) \/ createRow(h) \/ createConflicts(h)
    <3>1. handlers' = [handlers EXCEPT ![h] = Idle]
      BY <2>3 DEF updateOpenRow, createRow, createConflicts, Answer
    <3>2. \A g \in Handler : handlers'[g] = handlers[g] \/ handlers'[g] = Idle
      BY <1>0, <3>1
    <3>3. /\ DOMAIN failures \subseteq DOMAIN failures'
          /\ \A i \in DOMAIN failures : failures'[i].pair = failures[i].pair
      <4>1. CASE updateOpenRow(h)
        BY <1>0, <4>1, RowCounted
      <4>2. CASE createRow(h)
        <5>1. PICK n \in Nat : /\ DOMAIN failures = 1 .. n /\ DOMAIN failures' = 1 .. n + 1
                               /\ \A i \in 1 .. n : failures'[i] = failures[i]
          BY <1>0, <4>2, RowAdded
        <5> QED BY <5>1
      <4>3. CASE createConflicts(h)
        BY <4>3 DEF createConflicts
      <4> QED BY <2>3, <4>1, <4>2, <4>3
    <3> QED BY <3>2, <3>3, HandlersKept
  <2> QED BY <2>1, <2>2, <2>3
<1> QED BY <1>1, <1>2, <1>3, TableSteps DEF vars

\* An attempt is numbered within its row.
LEMMA AttemptOf ==
    ASSUME NEW p \in Pair, NEW a
    PROVE  a \in Attempts(p) <=>
             \E i \in DOMAIN failures :
                 failures[i].pair = p /\ a \in {i} \X (1 .. failures[i].attempts)
BY DEF Attempts

\* A table that keeps its rows' attempts keeps their number.
LEMMA AttemptsKept ==
    ASSUME Accounted, accepted' = accepted, DOMAIN failures' = DOMAIN failures,
           \A i \in DOMAIN failures : /\ failures'[i].pair = failures[i].pair
                                      /\ failures'[i].attempts = failures[i].attempts
    PROVE  Accounted'
<1>1. \A p \in Pair : Attempts(p)' = Attempts(p)
  BY DEF Attempts
<1> QED BY <1>1 DEF Accounted

\* One new attempt of one automation counts one accepted report.
LEMMA AttemptAdded ==
    ASSUME Accounted, accepted \in [Pair -> Nat], NEW q \in Pair, NEW a, a \notin Attempts(q),
           accepted' = [accepted EXCEPT ![q] = @ + 1],
           Attempts(q)' = Attempts(q) \cup {a},
           \A p \in Pair : p # q => Attempts(p)' = Attempts(p)
    PROVE  Accounted'
<1> SUFFICES ASSUME NEW p \in Pair
             PROVE  IsFiniteSet(Attempts(p)') /\ Cardinality(Attempts(p)') = accepted'[p]
  BY DEF Accounted
<1>1. IsFiniteSet(Attempts(p)) /\ Cardinality(Attempts(p)) = accepted[p]
  BY DEF Accounted
<1>2. CASE p # q
  BY <1>1, <1>2
<1>3. CASE p = q
  <2>1. /\ IsFiniteSet(Attempts(p) \cup {a})
        /\ Cardinality(Attempts(p) \cup {a}) = Cardinality(Attempts(p)) + 1
    BY <1>1, <1>3, FS_AddElement
  <2>2. accepted'[p] = accepted[p] + 1
    BY <1>3
  <2> QED BY <1>1, <1>3, <2>1, <2>2
<1> QED BY <1>2, <1>3

\* A report counted on a row, closed or not, is a new attempt of its automation.
LEMMA RowAttempted ==
    ASSUME FailureTypeOK, HandlersOK, Accounted, NEW h \in Handler, updateOpenRow(h)
    PROVE  Accounted'
<1>1. handlers[h].busy /\ handlers[h].open # NoRow
  BY DEF updateOpenRow
<1>2. PICK q \in Pair : q = handlers[h].pair
  BY <1>1, HandlerTyped
<1>3. PICK j \in DOMAIN failures : j = handlers[h].open /\ failures[j].pair = q
  BY <1>1, <1>2 DEF HandlersOK
<1>4. PICK n \in Nat : n = failures[j].attempts
  <2>1. failures[j] \in Failure
    BY LenProperties, ElementOfSeq DEF FailureTypeOK
  <2> QED BY <2>1 DEF Failure
<1>5. /\ DOMAIN failures' = DOMAIN failures
      /\ \A i \in DOMAIN failures : failures'[i].pair = failures[i].pair
      /\ \A i \in DOMAIN failures : i # j => failures'[i].attempts = failures[i].attempts
      /\ failures'[j].attempts = n + 1
  BY <1>3, <1>4, RowCounted
<1>6. accepted \in [Pair -> Nat] /\ accepted' = [accepted EXCEPT ![q] = @ + 1]
  BY <1>2 DEF updateOpenRow, Count, FailureTypeOK
<1>7. <<j, n + 1>> \notin Attempts(q)
  <2>1. ASSUME NEW i \in DOMAIN failures, <<j, n + 1>> \in {i} \X (1 .. failures[i].attempts)
        PROVE  FALSE
    <3>1. i = j /\ n + 1 \in 1 .. n
      BY <1>4, <2>1
    <3> QED BY <3>1
  <2> QED BY <2>1, AttemptOf
<1>8. \A p \in Pair : p # q => Attempts(p)' = Attempts(p)
  <2> SUFFICES ASSUME NEW p \in Pair, p # q PROVE Attempts(p)' = Attempts(p)
    OBVIOUS
  <2>1. \A i \in {i \in DOMAIN failures : failures[i].pair = p} : failures'[i].attempts = failures[i].attempts
    BY <1>3, <1>5
  <2>2. {i \in DOMAIN failures' : failures'[i].pair = p} = {i \in DOMAIN failures : failures[i].pair = p}
    BY <1>5
  <2> QED BY <2>1, <2>2 DEF Attempts
<1>9. Attempts(q)' = Attempts(q) \cup {<<j, n + 1>>}
  <2> DEFINE Of(i) == {i} \X (1 .. failures[i].attempts)
             Now(i) == {i} \X (1 .. failures'[i].attempts)
             mine == {i \in DOMAIN failures : failures[i].pair = q}
  <2>1. {i \in DOMAIN failures' : failures'[i].pair = q} = mine
    BY <1>5
  <2>2. \A i \in mine : i # j => Now(i) = Of(i)
    BY <1>5
  <2>3. j \in mine /\ Of(j) = {j} \X (1 .. n) /\ Now(j) = {j} \X (1 .. n + 1)
    BY <1>3, <1>4, <1>5
  <2>4. {j} \X (1 .. n + 1) = {j} \X (1 .. n) \cup {<<j, n + 1>>}
    <3>1. 1 .. n + 1 = (1 .. n) \cup {n + 1}
      OBVIOUS
    <3> QED BY <3>1
  <2>5. Attempts(q) = UNION {Of(i) : i \in mine} /\ Attempts(q)' = UNION {Now(i) : i \in mine}
    BY <2>1 DEF Attempts
  <2> HIDE DEF Of, Now, mine
  <2>6. Now(j) = Of(j) \cup {<<j, n + 1>>}
    BY <2>3, <2>4
  <2> QED BY <2>2, <2>3, <2>5, <2>6
<1> QED BY <1>6, <1>7, <1>8, <1>9, AttemptAdded

\* A new row has one attempt.
LEMMA RowBegun ==
    ASSUME FailureTypeOK, Accounted, NEW h \in Handler, createRow(h)
    PROVE  Accounted'
<1>1. PICK n \in Nat, f \in Failure :
          /\ DOMAIN failures = 1 .. n /\ DOMAIN failures' = 1 .. n + 1
          /\ \A i \in 1 .. n : failures'[i] = failures[i]
          /\ failures'[n + 1] = f
          /\ f.pair = handlers[h].pair /\ f.attempts = 1
  BY RowAdded
<1>2. PICK q \in Pair : q = f.pair
  BY DEF Failure
<1>3. accepted \in [Pair -> Nat] /\ accepted' = [accepted EXCEPT ![q] = @ + 1]
  BY <1>1, <1>2 DEF createRow, Count, FailureTypeOK
<1>4. <<n + 1, 1>> \notin Attempts(q)
  <2>1. ASSUME NEW i \in DOMAIN failures, <<n + 1, 1>> \in {i} \X (1 .. failures[i].attempts)
        PROVE  FALSE
    <3>1. n + 1 \in 1 .. n
      BY <1>1, <2>1
    <3> QED BY <3>1
  <2> QED BY <2>1, AttemptOf
<1>5. /\ \A i \in DOMAIN failures : i \in DOMAIN failures' /\ i # n + 1
      /\ \A i \in DOMAIN failures' : i \in DOMAIN failures \/ i = n + 1
      /\ n + 1 \in DOMAIN failures'
  BY <1>1
<1>6. \A p \in Pair : p # q => Attempts(p)' = Attempts(p)
  <2> SUFFICES ASSUME NEW p \in Pair, p # q PROVE Attempts(p)' = Attempts(p)
    OBVIOUS
  <2>1. {i \in DOMAIN failures' : failures'[i].pair = p} = {i \in DOMAIN failures : failures[i].pair = p}
    BY <1>1, <1>2, <1>5
  <2>2. \A i \in {i \in DOMAIN failures : failures[i].pair = p} : failures'[i].attempts = failures[i].attempts
    BY <1>1
  <2> QED BY <2>1, <2>2 DEF Attempts
<1>7. Attempts(q)' = Attempts(q) \cup {<<n + 1, 1>>}
  <2> DEFINE Of(i) == {i} \X (1 .. failures[i].attempts)
             Now(i) == {i} \X (1 .. failures'[i].attempts)
             mine == {i \in DOMAIN failures : failures[i].pair = q}
  <2>1. {i \in DOMAIN failures' : failures'[i].pair = q} = mine \cup {n + 1}
    BY <1>1, <1>2, <1>5
  <2>2. \A i \in mine : Now(i) = Of(i)
    BY <1>1
  <2>3. Now(n + 1) = {<<n + 1, 1>>}
    <3>1. 1 .. failures'[n + 1].attempts = {1}
      BY <1>1
    <3> QED BY <3>1
  <2>4. Attempts(q) = UNION {Of(i) : i \in mine} /\ Attempts(q)' = UNION {Now(i) : i \in mine \cup {n + 1}}
    BY <2>1 DEF Attempts
  <2> HIDE DEF Of, Now, mine
  <2> QED BY <2>2, <2>3, <2>4
<1> QED BY <1>3, <1>4, <1>6, <1>7, AttemptAdded

\* No step loses or doubles a report.
LEMMA AccountStays ==
    ASSUME IndexerInv, HandlersOK, Accounted, [Next]_vars
    PROVE  Accounted'
<1>1. FailureTypeOK
  BY DEF IndexerInv, TypeOK
<1>2. CASE UNCHANGED failureVars
  BY <1>2, AttemptsKept DEF failureVars
<1>3. CASE persist
  <2>1. /\ DOMAIN failures' = DOMAIN failures
        /\ \A i \in DOMAIN failures : /\ failures'[i].pair = failures[i].pair
                                      /\ failures'[i].attempts = failures[i].attempts
    BY <1>3, PersistResolves, ResolvedTyped
  <2>2. accepted' = accepted
    BY <1>3 DEF persist
  <2> QED BY <2>1, <2>2, AttemptsKept
<1>4. CASE IngestNext(Len(chain))
  <2>1. PICK h \in Handler : \/ failures' = failures /\ accepted' = accepted
                             \/ updateOpenRow(h) \/ createRow(h)
    BY <1>4 DEF IngestNext, receiveReport, createConflicts
  <2>2. CASE failures' = failures /\ accepted' = accepted
    BY <2>2, AttemptsKept
  <2>3. CASE updateOpenRow(h)
    BY <1>1, <2>3, RowAttempted
  <2>4. CASE createRow(h)
    BY <1>1, <2>4, RowBegun
  <2> QED BY <2>1, <2>2, <2>3, <2>4
<1> QED BY <1>2, <1>3, <1>4, TableSteps DEF vars

\* One failure per automation is open, and no report answered with success is
\* lost or counted twice, however the handlers interleave with each other and
\* with the indexer's transaction (failure-ingest.service.ts: the update by id
\* that increments the count, and the partial unique index).
THEOREM LedgerStaysExact == Spec => []LedgerExact
<1>1. Init => HandlersOK /\ Accounted
  <2> SUFFICES ASSUME Init PROVE HandlersOK /\ Accounted
    OBVIOUS
  <2>1. failures = <<>> /\ handlers = [h \in Handler |-> Idle] /\ accepted = [p \in Pair |-> 0]
    BY DEF Init, FailureInit
  <2>2. HandlersOK
    BY <2>1 DEF HandlersOK, Idle
  <2>3. ASSUME NEW p \in Pair PROVE Attempts(p) = {}
    BY <2>1 DEF Attempts
  <2> QED BY <2>1, <2>2, <2>3, FS_EmptySet DEF Accounted
<1>2. IndexerInv /\ HandlersOK /\ Accounted /\ [Next]_vars => HandlersOK' /\ Accounted'
  BY HandlersStay, AccountStays
<1>3. Accounted /\ OneOpenFailure => LedgerExact
  BY DEF Accounted, LedgerExact, AttemptsAccounted
<1> QED BY <1>1, <1>2, <1>3, IndexerInvariant, OpenFailuresUnique, PTL DEF Spec

=============================================================================
