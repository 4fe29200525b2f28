---------------------------- MODULE LpPositions -----------------------------
(***************************************************************************)
(* How the cockpit reads a vault's PancakeSwap V3 positions: it counts the  *)
(* position NFTs and, one after the other, asks for the id, the position,   *)
(* its uncollected fees, the pool's price and the token prices, while the   *)
(* vault and the market move on.  Each position is read for itself: a       *)
(* failing call makes it an error row.  Closed positions stay with the      *)
(* vault for ever, so ids keep their index.                                 *)
(***************************************************************************)
EXTENDS PancakeActions, Sequences

CONSTANTS
    NFTs,       \* positions a vault may hold: [lower, upper, liquidity, fees0, fees1]
    LegPrice,   \* dollar prices of a token; Unpriced for none
    Unpriced,
    MaxShifts   \* bound: movements and failing calls during a read

\* A range has a width; a price is an amount.
ASSUME PositionsAssumption ==
    /\ MaxShifts \in Nat
    /\ NFTs \subseteq [lower : DOMAIN SqrtRatio, upper : DOMAIN SqrtRatio,
                       liquidity : Nat, fees0 : Nat, fees1 : Nat]
    /\ \A n \in NFTs : n.lower < n.upper
    /\ LegPrice \subseteq Nat \cup {Unpriced} /\ Unpriced \notin Nat

VARIABLES
    held,       \* the vault's NFTs, in the order of their index
    market,     \* slot0: a tick and a price within it
    listing,    \* the read under way
    rows,       \* what it has found
    shifts

positionVars == <<held, market, listing, rows, shifts>>

Market == UNION {[tick : {t}, sqrt : PricesAt(t)] : t \in Tick}

NoNFT == [lower |-> 0, upper |-> 0, liquidity |-> 0, fees0 |-> 0, fees1 |-> 0]

\* History: `moved`, the position changed since it was looked at; `changed`, one
\* has since the read began.
PositionsInit ==
    /\ held \in {<<n>> : n \in NFTs} \cup {<<m, n>> : m \in NFTs, n \in NFTs}
    /\ market \in Market
    /\ listing = [step |-> "count", i |-> 0, count |-> 0, n |-> NoNFT, fees |-> <<0, 0>>,
                  moved |-> FALSE, changed |-> FALSE]
    /\ rows = <<>>
    /\ shifts = 0

(***************************************************************************)
(* The amounts of a position (lp-math.ts).                                 *)
(***************************************************************************)
getAmount0(sa, sb, liquidity) == ((liquidity * Q96 * (sb - sa)) \div sb) \div sa
getAmount1(sa, sb, liquidity) == (liquidity * (sb - sa)) \div Q96

\* Mutant: the price is not held to the range.
getAmountsForLiquidity_Unclamped(sp, sa, sb, liquidity) ==
    [amount0 |-> IF sp < sb THEN getAmount0(sp, sb, liquidity) ELSE 0,
     amount1 |-> IF sp > sa THEN getAmount1(sa, sp, liquidity) ELSE 0]

getAmountsForLiquidity(sp, sa, sb, liquidity) ==
    CASE sp <= sa -> [amount0 |-> getAmount0(sa, sb, liquidity), amount1 |-> 0]
      [] sp > sa /\ sp < sb -> [amount0 |-> getAmount0(sp, sb, liquidity),
                                amount1 |-> getAmount1(sa, sp, liquidity)]
      [] OTHER -> [amount0 |-> 0, amount1 |-> getAmount1(sa, sb, liquidity)]

Usd(amount, price) == IF price = Unpriced THEN Unpriced ELSE amount * price
Sum0(x, y) == IF x = Unpriced /\ y = Unpriced THEN Unpriced
              ELSE (IF x = Unpriced THEN 0 ELSE x) + (IF y = Unpriced THEN 0 ELSE y)

\* The row of a position: its principal as legs, its value with the fees.
buildLpPosition(i, n, fees0, fees1, m, p0, p1) ==
    LET a == getAmountsForLiquidity(m.sqrt, SqrtRatio[n.lower], SqrtRatio[n.upper], n.liquidity) IN
    [kind |-> "lp", i |-> i,
     legs |-> <<[amount |-> a.amount0, usd |-> Usd(a.amount0, p0)],
                [amount |-> a.amount1, usd |-> Usd(a.amount1, p1)]>>,
     value |-> Sum0(Usd(a.amount0 + fees0, p0), Usd(a.amount1 + fees1, p1)),
     earnings |-> Sum0(Usd(fees0, p0), Usd(fees1, p1)),
     inRange |-> n.lower <= m.tick /\ m.tick < n.upper,
     \* history: what it was made of
     of |-> n, at |-> m, p |-> <<p0, p1>>, moved |-> listing.moved]

ErrorRow(i) == [kind |-> "error", i |-> i, legs |-> <<>>, value |-> Unpriced]

(***************************************************************************)
(* The read.                                                               *)
(***************************************************************************)
Shift == shifts < MaxShifts /\ shifts' = shifts + 1
At(step, i) == [step |-> step, i |-> i, count |-> listing.count, n |-> NoNFT,
                fees |-> <<0, 0>>, moved |-> FALSE, changed |-> listing.changed]
NextToken == IF listing.i < listing.count THEN At("position", listing.i + 1) ELSE At("done", listing.i)

balanceOf ==
    /\ listing.step = "count"
    /\ listing' = [At("position", 1) EXCEPT !.count = Len(held)]
    /\ UNCHANGED <<held, market, rows, shifts>>

\* tokenOfOwnerByIndex and positions.
readPosition ==
    /\ listing.step = "position"
    /\ listing' = [At("fees", listing.i) EXCEPT !.n = held[listing.i]]
    /\ UNCHANGED <<held, market, rows, shifts>>

\* Mutant: positions without liquidity are passed over, with their fees.
readFees_SkipsClosed ==
    /\ listing.step = "fees"
    /\ LET n == held[listing.i] IN
         listing' = IF listing.n.liquidity = 0 THEN NextToken
                    ELSE [listing EXCEPT !.step = "price", !.fees = <<n.fees0, n.fees1>>]
    /\ UNCHANGED <<held, market, rows, shifts>>

\* The static call of collect; an empty position is passed over.
readFees ==
    /\ listing.step = "fees"
    /\ LET n == held[listing.i] IN
         listing' = IF listing.n.liquidity = 0 /\ n.fees0 = 0 /\ n.fees1 = 0 THEN NextToken
                    ELSE [listing EXCEPT !.step = "price", !.fees = <<n.fees0, n.fees1>>]
    /\ UNCHANGED <<held, market, rows, shifts>>

\* slot0, and the tokens' prices.
readPrice ==
    /\ listing.step = "price"
    /\ \E p0 \in LegPrice, p1 \in LegPrice :
         rows' = Append(rows, buildLpPosition(listing.i, listing.n, listing.fees[1],
                                              listing.fees[2], market, p0, p1))
    /\ listing' = NextToken
    /\ UNCHANGED <<held, market, shifts>>

\* A call for the position fails.
readPositionFails ==
    /\ listing.step \in {"position", "fees", "price"}
    /\ Shift
    /\ rows' = Append(rows, ErrorRow(listing.i))
    /\ listing' = NextToken
    /\ UNCHANGED <<held, market>>

\* The next request, or the next tick of the snapshot loop.
readAgain ==
    /\ listing.step = "done"
    /\ listing' = [At("count", 0) EXCEPT !.count = 0, !.changed = FALSE]
    /\ rows' = <<>>
    /\ UNCHANGED <<held, market, shifts>>

(***************************************************************************)
(* Vault and market.                                                       *)
(***************************************************************************)
\* Liquidity is taken out with all fees, or fees accrue; a position is minted.
changePosition(i, n) ==
    /\ listing.step # "done"
    /\ Shift
    /\ n.lower = held[i].lower /\ n.upper = held[i].upper /\ n # held[i]
    /\ held' = [held EXCEPT ![i] = n]
    /\ listing' = [listing EXCEPT !.moved = @ \/ i = listing.i, !.changed = TRUE]
    /\ UNCHANGED <<market, rows>>

mintPosition(n) ==
    /\ listing.step # "done"
    /\ Shift
    /\ held' = Append(held, n)
    /\ listing' = [listing EXCEPT !.changed = TRUE]
    /\ UNCHANGED <<market, rows>>

marketMoves ==
    /\ listing.step # "done"
    /\ Shift
    /\ market' \in Market \ {market}
    /\ UNCHANGED <<held, listing, rows>>

PositionsNext ==
    \/ balanceOf \/ readPosition \/ readFees \/ readPrice \/ readPositionFails \/ readAgain
    \/ \E i \in DOMAIN held, n \in NFTs : changePosition(i, n)
    \/ \E n \in NFTs : mintPosition(n)
    \/ marketMoves

PositionsSpec == PositionsInit /\ [][PositionsNext]_positionVars

-----------------------------------------------------------------------------
\* validateValuedPosition, of conformance.ts: what every adapter must answer.
Conforms(row) ==
    /\ row.kind \in {"lp", "error"}
    /\ row.value = Unpriced \/ row.value \in Nat
    /\ \A l \in DOMAIN row.legs : row.legs[l].amount \in Nat

\* Floor(x / y) = n, without dividing.
IsQuotient(n, x, y) == n * y <= x /\ x < (n + 1) * y

\* The amounts are what the position's share of the pool is at that price: below
\* the range all of it token0, above it token1, rounded down once.
AmountsExact(row) ==
    LET n == row.of sa == SqrtRatio[n.lower] sb == SqrtRatio[n.upper]
        sp == Clamp(row.at.sqrt, sa, sb)
    IN  /\ IsQuotient(row.legs[1].amount, n.liquidity * Q96 * (sb - sp), sb * sp)
        /\ IsQuotient(row.legs[2].amount, n.liquidity * (sp - sa), Q96)
        /\ ~row.inRange => row.legs[1].amount = 0 \/ row.legs[2].amount = 0

\* A finished read has one row, in order, for every position that was held when
\* it began, but those that were empty when they were looked at; a failure stays
\* with its position.  A row's amounts are those of its position at the price
\* read with it; undisturbed and priced, its value is the worth of the position
\* with its fees, and it never is less than the fees alone
\* (pancake-v3.adapter.ts: "one broken NFT becomes an error row, not a failed panel").
LpRowsTrue ==
    /\ \A r \in DOMAIN rows : Conforms(rows[r]) /\ (r > 1 => rows[r - 1].i < rows[r].i)
    /\ listing.step = "done" /\ ~listing.changed =>
         \A i \in DOMAIN held :
           LET worth == held[i].liquidity + held[i].fees0 + held[i].fees1 > 0 IN
             /\ worth => \E r \in DOMAIN rows : rows[r].i = i
             /\ ~worth => \A r \in DOMAIN rows : rows[r].i = i => rows[r].kind = "error"
    /\ \A r \in DOMAIN rows : rows[r].kind = "lp" =>
         LET row == rows[r] n == row.of IN
         /\ AmountsExact(row)
         /\ row.value # Unpriced => row.value >= row.earnings
         /\ (row.value = Unpriced) = (row.p = <<Unpriced, Unpriced>>)
         /\ ~row.moved /\ Unpriced \notin {row.p[1], row.p[2]} =>
              row.value = (row.legs[1].amount + n.fees0) * row.p[1]
                            + (row.legs[2].amount + n.fees1) * row.p[2]
=============================================================================
