---------------------------- MODULE RangePlanner ----------------------------
(***************************************************************************)
(* The pure block-range planner of the execution indexer: which windows    *)
(* of blocks a tick scans, and how a rejected window is split.             *)
(***************************************************************************)
EXTENDS Integers, Sequences

Lesser(a, b) == IF a <= b THEN a ELSE b

\* A window of blocks, both bounds included.
Window(from, to) == [from |-> from, to |-> to]

\* Mutant: a single safe block is not worth a window.
Plan_NeedsTwo(head, cursor, maxRange, confirmations) ==
    LET safeHead == head - confirmations
        from     == cursor + 1
        count    == (safeHead - from) \div maxRange + 1
    IN  IF safeHead <= from THEN <<>>
        ELSE [i \in 1 .. count |-> Window(from + (i - 1) * maxRange,
                                          Lesser(from + i * maxRange - 1, safeHead))]

\* Mutant: plans up to the head.
Plan_NoLag(head, cursor, maxRange, confirmations) ==
    LET from  == cursor + 1
        count == (head - from) \div maxRange + 1
    IN  IF head < from THEN <<>>
        ELSE [i \in 1 .. count |-> Window(from + (i - 1) * maxRange,
                                          Lesser(from + i * maxRange - 1, head))]

\* RangePlanner.plan: consecutive windows of at most maxRange blocks from the
\* cursor's successor to the newest confirmed block.
Plan(head, cursor, maxRange, confirmations) ==
    LET safeHead == head - confirmations
        from     == cursor + 1
        count    == (safeHead - from) \div maxRange + 1
    IN  IF safeHead < from THEN <<>>
        ELSE [i \in 1 .. count |-> Window(from + (i - 1) * maxRange,
                                          Lesser(from + i * maxRange - 1, safeHead))]

\* Mutant: the middle block belongs to neither half.
Halve_DropsMiddle(range) ==
    LET mid == (range.from + range.to) \div 2
    IN  IF range.to <= range.from THEN <<range>>
        ELSE <<Window(range.from, mid - 1), Window(mid + 1, range.to)>>

\* RangePlanner.halve: a single block cannot be narrowed.
Halve(range) ==
    LET mid == (range.from + range.to) \div 2
    IN  IF range.to <= range.from THEN <<range>>
        ELSE <<Window(range.from, mid), Window(mid + 1, range.to)>>
=============================================================================
