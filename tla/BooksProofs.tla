---------------------------- MODULE BooksProofs -----------------------------
(***************************************************************************)
(* What a vault is shown to be worth, for any amounts, prices, movements,   *)
(* failures and clicks: a valuation whose reads agree is the vault's net    *)
(* equity, the profit of a range is what the vault gained in it, the rows   *)
(* of its PancakeSwap V3 positions are worth what the positions are, a      *)
(* mint's range holds the tick, the sale before it leaves the balances in   *)
(* that range's ratio, an Aave step that the oracle sizes is accepted and   *)
(* meets its target, and a panel at rest shows what it last asked for.      *)
(*                                                                         *)
(* Amounts are rounded down more than once.  Every quotient is kept as the  *)
(* two bounds that define it, and what is nested becomes one quotient by    *)
(* the product before it is compared with anything.                         *)
(***************************************************************************)
EXTENDS LpPositions, AaveActions, Cockpit, Panels, SequenceTheorems, FiniteSetTheorems, TLAPS

(***************************************************************************)
(* Amounts.                                                                *)
(***************************************************************************)

LEMMA TimesGrows ==
    ASSUME NEW x \in Nat, NEW y \in Nat, NEW z \in Nat, x <= y
    PROVE  x * z <= y * z /\ x * z \in Nat
OBVIOUS

LEMMA TimesGrowsStrictly ==
    ASSUME NEW x \in Nat, NEW y \in Nat, NEW z \in Nat \ {0}, x < y
    PROVE  x * z < y * z
<1>1. x + 1 <= y
  OBVIOUS
<1>2. (x + 1) * z <= y * z
  BY <1>1, TimesGrows
<1>3. (x + 1) * z = x * z + z
  OBVIOUS
<1> QED
  BY <1>2, <1>3, TimesGrows

LEMMA Quotients ==
    ASSUME NEW x \in Nat, NEW y \in Nat \ {0}
    PROVE  x \div y \in Nat /\ IsQuotient(x \div y, x, y)
<1>1. x \div y \in Nat
  OBVIOUS
<1>2. y * (x \div y) <= x /\ x < y * ((x \div y) + 1)
  OBVIOUS
<1>3. y * (x \div y) = (x \div y) * y /\ y * ((x \div y) + 1) = ((x \div y) + 1) * y
  BY <1>1
<1> QED
  BY <1>1, <1>2, <1>3 DEF IsQuotient

\* Of some numbers one is the least.
LEMMA LeastOfSet ==
    ASSUME NEW T, T \subseteq Nat, T # {}
    PROVE  \E x \in T : \A y \in T : x <= y
<1>1. PICK R : R = OpToRel(<, Nat) /\ IsWellFoundedOn(R, Nat)
  BY NatLessThanWellFounded
<1>2. PICK x \in T : \A y \in T : ~(<<y, x>> \in R)
  BY <1>1, WFMin
<1>3. \A y \in Nat, z \in Nat : y < z => <<y, z>> \in R
  BY <1>1 DEF OpToRel
<1>4. \A y \in T : x \in Nat /\ y \in Nat /\ ~(y < x)
  BY <1>2, <1>3
<1> QED BY <1>2, <1>4

\* Dividing twice is dividing once, by the product.
LEMMA QuotientOfQuotient ==
    ASSUME NEW x \in Nat, NEW y \in Nat \ {0}, NEW z \in Nat \ {0}
    PROVE  /\ (x \div y) \div z \in Nat
           /\ IsQuotient((x \div y) \div z, x, y * z)
<1> DEFINE m == x \div y
           n == m \div z
<1>1. m \in Nat /\ IsQuotient(m, x, y)
  BY Quotients
<1> HIDE DEF m
<1>2. n \in Nat /\ IsQuotient(n, m, z)
  BY <1>1, Quotients
<1> HIDE DEF n
<1>3. n * (y * z) <= x
  <2>1. n * z \in Nat /\ n * z <= m
    BY <1>2 DEF IsQuotient
  <2>2. (n * z) * y <= m * y
    BY <1>1, <2>1, TimesGrows
  <2>3. (n * z) * y = n * (y * z)
    BY <1>2
  <2>4. m * y <= x /\ m * y \in Nat /\ n * (y * z) \in Nat
    BY <1>1, <1>2 DEF IsQuotient
  <2> QED
    BY <2>2, <2>3, <2>4
<1>4. x < (n + 1) * (y * z)
  <2>1. (n + 1) * z \in Nat /\ m + 1 <= (n + 1) * z /\ m + 1 \in Nat
    BY <1>1, <1>2 DEF IsQuotient
  <2>2. (m + 1) * y <= ((n + 1) * z) * y
    BY <2>1, TimesGrows
  <2>3. ((n + 1) * z) * y = (n + 1) * (y * z)
    BY <1>2
  <2>4. x < (m + 1) * y /\ (m + 1) * y \in Nat /\ (n + 1) * (y * z) \in Nat
    BY <1>1, <1>2 DEF IsQuotient
  <2> QED
    BY <2>2, <2>3, <2>4
<1> QED
  BY <1>2, <1>3, <1>4 DEF IsQuotient, m, n

\* A position's amounts are its share of the pool at the price, rounded down once.
LEMMA AmountsRounded ==
    ASSUME NEW sp \in Nat \ {0}, NEW sa \in Nat \ {0}, NEW sb \in Nat \ {0}, sa < sb,
           NEW liquidity \in Nat
    PROVE  LET a == getAmountsForLiquidity(sp, sa, sb, liquidity)
               s == Clamp(sp, sa, sb)
           IN  /\ a.amount0 \in Nat /\ a.amount1 \in Nat
               /\ IsQuotient(a.amount0, liquidity * Q96 * (sb - s), sb * s)
               /\ IsQuotient(a.amount1, liquidity * (s - sa), Q96)
               /\ sp <= sa => a.amount1 = 0
               /\ sp >= sb => a.amount0 = 0
<1> DEFINE a == getAmountsForLiquidity(sp, sa, sb, liquidity)
           s == Clamp(sp, sa, sb)
<1>1. Q96 \in Nat \ {0} /\ liquidity * Q96 \in Nat
  BY TicksAssumption
<1>2. ASSUME NEW y \in Nat \ {0} PROVE IsQuotient(0, 0, y)
  BY DEF IsQuotient
<1>3. ASSUME NEW x \in Nat \ {0}, NEW y \in Nat \ {0} PROVE x * y \in Nat \ {0}
  OBVIOUS
<1>4. ASSUME NEW x \in Nat, NEW y \in Nat PROVE x * y \in Nat
  OBVIOUS
\* Token0 from a price up to the range's end, token1 from its beginning up to a price.
<1>5. ASSUME NEW p \in Nat \ {0}, p <= sb
      PROVE  /\ getAmount0(p, sb, liquidity) \in Nat
             /\ IsQuotient(getAmount0(p, sb, liquidity), liquidity * Q96 * (sb - p), sb * p)
  <2>1. sb - p \in Nat
    BY <1>5
  <2>2. liquidity * Q96 * (sb - p) \in Nat
    BY <1>1, <1>4, <2>1
  <2> QED
    BY <2>2, QuotientOfQuotient DEF getAmount0
<1>6. ASSUME NEW p \in Nat \ {0}, sa <= p
      PROVE  /\ getAmount1(sa, p, liquidity) \in Nat
             /\ IsQuotient(getAmount1(sa, p, liquidity), liquidity * (p - sa), Q96)
  <2>1. p - sa \in Nat
    BY <1>6
  <2>2. liquidity * (p - sa) \in Nat
    BY <1>4, <2>1
  <2> QED
    BY <1>1, <2>2, Quotients DEF getAmount1
<1>7. CASE sp <= sa
  <2>1. a.amount0 = getAmount0(sa, sb, liquidity) /\ a.amount1 = 0
    BY <1>7 DEF getAmountsForLiquidity
  <2>2. s = sa /\ ~(sp >= sb)
    BY <1>7 DEF Clamp
  <2>3. liquidity * (sa - sa) = 0
    OBVIOUS
  <2> HIDE DEF a, s
  <2>4. IsQuotient(a.amount1, liquidity * (s - sa), Q96)
    BY <1>1, <1>2, <2>1, <2>2, <2>3
  <2>5. a.amount0 \in Nat /\ IsQuotient(a.amount0, liquidity * Q96 * (sb - s), sb * s)
    BY <1>5, <2>1, <2>2
  <2> QED
    BY <2>1, <2>2, <2>4, <2>5 DEF a, s
<1>8. CASE sp > sa /\ sp < sb
  <2>1. a.amount0 = getAmount0(sp, sb, liquidity) /\ a.amount1 = getAmount1(sa, sp, liquidity)
    BY <1>8 DEF getAmountsForLiquidity
  <2>2. s = sp
    BY <1>8 DEF Clamp
  <2> HIDE DEF a, s
  <2>3. a.amount0 \in Nat /\ IsQuotient(a.amount0, liquidity * Q96 * (sb - s), sb * s)
    BY <1>5, <1>8, <2>1, <2>2
  <2>4. a.amount1 \in Nat /\ IsQuotient(a.amount1, liquidity * (s - sa), Q96)
    BY <1>6, <1>8, <2>1, <2>2
  <2> QED
    BY <1>8, <2>3, <2>4 DEF a, s
<1>9. CASE sp >= sb
  <2>1. a.amount0 = 0 /\ a.amount1 = getAmount1(sa, sb, liquidity)
    BY <1>9 DEF getAmountsForLiquidity
  <2>2. s = sb /\ ~(sp <= sa)
    BY <1>9 DEF Clamp
  <2>3. liquidity * Q96 * (sb - sb) = 0
    BY <1>1
  <2> HIDE DEF a, s
  <2>4. a.amount1 \in Nat /\ IsQuotient(a.amount1, liquidity * (s - sa), Q96)
    BY <1>6, <2>1, <2>2
  <2>5. IsQuotient(a.amount0, liquidity * Q96 * (sb - s), sb * s)
    BY <1>2, <1>3, <2>1, <2>2, <2>3
  <2> QED
    BY <2>1, <2>2, <2>4, <2>5 DEF a, s
<1> QED
  BY <1>7, <1>8, <1>9

(***************************************************************************)
(* Rows.                                                                   *)
(***************************************************************************)

Worth(n) == n.liquidity + n.fees0 + n.fees1 > 0

\* What the property asks of a row, wherever it stands.
RowTrue(row) ==
    /\ Conforms(row)
    /\ row.kind = "lp" =>
         LET n == row.of IN
         /\ AmountsExact(row)
         /\ row.value # Unpriced => row.value >= row.earnings
         /\ (row.value = Unpriced) = (row.p = <<Unpriced, Unpriced>>)
         /\ ~row.moved /\ Unpriced \notin {row.p[1], row.p[2]} =>
              row.value = (row.legs[1].amount + n.fees0) * row.p[1]
                            + (row.legs[2].amount + n.fees1) * row.p[2]

LEMMA ErrorRowTrue == ASSUME NEW i PROVE RowTrue(ErrorRow(i)) /\ ErrorRow(i).i = i /\ ErrorRow(i).kind = "error"
BY DEF RowTrue, ErrorRow, Conforms

\* Prices and sums of what has one.
LEMMA Priced ==
    ASSUME NEW x \in Nat, NEW p \in LegPrice
    PROVE  /\ Usd(x, p) \in Nat \cup {Unpriced} /\ (Usd(x, p) = Unpriced <=> p = Unpriced)
           /\ p # Unpriced => Usd(x, p) = x * p
<1>1. CASE p = Unpriced
  BY <1>1 DEF Usd
<1>2. CASE p # Unpriced
  <2>1. p \in Nat /\ Unpriced \notin Nat
    BY <1>2, PositionsAssumption
  <2>2. x * p \in Nat
    BY <2>1
  <2> QED
    BY <1>2, <2>1, <2>2 DEF Usd
<1> QED
  BY <1>1, <1>2

LEMMA Summed ==
    ASSUME NEW x \in Nat \cup {Unpriced}, NEW y \in Nat \cup {Unpriced}
    PROVE  /\ Sum0(x, y) \in Nat \cup {Unpriced}
           /\ Sum0(x, y) = Unpriced <=> x = Unpriced /\ y = Unpriced
           /\ x # Unpriced /\ y # Unpriced => Sum0(x, y) = x + y
BY PositionsAssumption DEF Sum0

\* A price lies with its tick, on the range's side where the tick lies.
LEMMA MarketSides ==
    ASSUME NEW n \in NFTs, NEW m \in Market
    PROVE  /\ m.sqrt \in Nat \ {0} /\ m.tick \in Int
           /\ SqrtRatio[n.lower] \in Nat \ {0} /\ SqrtRatio[n.upper] \in Nat \ {0}
           /\ SqrtRatio[n.lower] < SqrtRatio[n.upper]
           /\ n.lower \in Int /\ n.upper \in Int
           /\ m.tick < n.lower => m.sqrt <= SqrtRatio[n.lower]
           /\ n.upper <= m.tick => m.sqrt >= SqrtRatio[n.upper]
<1>1. PICK t \in Tick : m \in [tick : {t}, sqrt : PricesAt(t)]
  BY DEF Market
<1>2. /\ m.tick = t /\ m.sqrt \in SqrtRatio[t] .. SqrtRatio[t + 1] - 1
      /\ t \in DOMAIN SqrtRatio /\ t + 1 \in DOMAIN SqrtRatio
      /\ n.lower \in DOMAIN SqrtRatio /\ n.upper \in DOMAIN SqrtRatio /\ n.lower < n.upper
  BY <1>1, TicksAssumption, PositionsAssumption DEF PricesAt
<1>3. /\ \A k \in DOMAIN SqrtRatio : k \in Int /\ SqrtRatio[k] \in Nat \ {0}
      /\ \A k, l \in DOMAIN SqrtRatio : k < l => SqrtRatio[k] < SqrtRatio[l]
  BY TicksAssumption
<1>4. m.sqrt \in Nat \ {0} /\ SqrtRatio[t] <= m.sqrt /\ m.sqrt < SqrtRatio[t + 1]
  BY <1>2, <1>3
<1>5. ASSUME t < n.lower PROVE m.sqrt <= SqrtRatio[n.lower]
  <2>1. t + 1 < n.lower \/ t + 1 = n.lower
    BY <1>2, <1>3, <1>5
  <2>2. SqrtRatio[t + 1] <= SqrtRatio[n.lower]
    BY <1>2, <1>3, <2>1
  <2> QED
    BY <1>2, <1>3, <1>4, <2>2
<1>6. ASSUME n.upper <= t PROVE m.sqrt >= SqrtRatio[n.upper]
  <2>1. n.upper < t \/ n.upper = t
    BY <1>2, <1>3, <1>6
  <2>2. SqrtRatio[n.upper] <= SqrtRatio[t]
    BY <1>2, <1>3, <2>1
  <2> QED
    BY <1>2, <1>3, <1>4, <2>2
<1> QED
  BY <1>2, <1>3, <1>4, <1>5, <1>6

LEMMA BuiltRowTrue ==
    ASSUME NEW i, NEW n \in NFTs, NEW f0 \in Nat, NEW f1 \in Nat, NEW m \in Market,
           NEW p0 \in LegPrice, NEW p1 \in LegPrice,
           ~listing.moved => f0 = n.fees0 /\ f1 = n.fees1
    PROVE  LET row == buildLpPosition(i, n, f0, f1, m, p0, p1)
           IN  RowTrue(row) /\ row.i = i /\ row.kind = "lp"
<1> DEFINE row == buildLpPosition(i, n, f0, f1, m, p0, p1)
           sa == SqrtRatio[n.lower]
           sb == SqrtRatio[n.upper]
           a == getAmountsForLiquidity(m.sqrt, sa, sb, n.liquidity)
           s == Clamp(m.sqrt, sa, sb)
<1>1. /\ row.kind = "lp" /\ row.i = i
      /\ row.legs = <<[amount |-> a.amount0, usd |-> Usd(a.amount0, p0)],
                      [amount |-> a.amount1, usd |-> Usd(a.amount1, p1)]>>
      /\ row.value = Sum0(Usd(a.amount0 + f0, p0), Usd(a.amount1 + f1, p1))
      /\ row.earnings = Sum0(Usd(f0, p0), Usd(f1, p1))
      /\ row.inRange <=> n.lower <= m.tick /\ m.tick < n.upper
      /\ row.of = n /\ row.at = m /\ row.p = <<p0, p1>> /\ row.moved = listing.moved
  BY DEF buildLpPosition
<1>2. /\ DOMAIN row.legs = 1 .. 2
      /\ row.legs[1].amount = a.amount0 /\ row.legs[2].amount = a.amount1
      /\ row.p[1] = p0 /\ row.p[2] = p1
  BY <1>1
<1>3. /\ m.sqrt \in Nat \ {0} /\ m.tick \in Int
      /\ sa \in Nat \ {0} /\ sb \in Nat \ {0} /\ sa < sb /\ n.lower \in Int /\ n.upper \in Int
      /\ m.tick < n.lower => m.sqrt <= sa
      /\ n.upper <= m.tick => m.sqrt >= sb
  BY MarketSides
<1>4. n.liquidity \in Nat /\ n.fees0 \in Nat /\ n.fees1 \in Nat
  BY PositionsAssumption
<1> HIDE DEF sa, sb
<1>5. /\ a.amount0 \in Nat /\ a.amount1 \in Nat
      /\ IsQuotient(a.amount0, n.liquidity * Q96 * (sb - s), sb * s)
      /\ IsQuotient(a.amount1, n.liquidity * (s - sa), Q96)
      /\ m.sqrt <= sa => a.amount1 = 0
      /\ m.sqrt >= sb => a.amount0 = 0
  BY <1>3, <1>4, AmountsRounded
<1> HIDE DEF row, a
<1>6. AmountsExact(row)
  <2>1. ~row.inRange => a.amount0 = 0 \/ a.amount1 = 0
    BY <1>1, <1>3, <1>5
  <2> QED
    BY <1>1, <1>2, <1>5, <2>1 DEF AmountsExact, sa, sb
<1> HIDE DEF s
<1> DEFINE v0 == Usd(a.amount0 + f0, p0)
           v1 == Usd(a.amount1 + f1, p1)
           e0 == Usd(f0, p0)
           e1 == Usd(f1, p1)
<1>7. /\ a.amount0 + f0 \in Nat /\ a.amount1 + f1 \in Nat
      /\ f0 <= a.amount0 + f0 /\ f1 <= a.amount1 + f1
  BY <1>5
<1>8. /\ v0 \in Nat \cup {Unpriced} /\ (v0 = Unpriced <=> p0 = Unpriced)
      /\ p0 # Unpriced => v0 = (a.amount0 + f0) * p0
  BY <1>7, Priced
<1>9. /\ v1 \in Nat \cup {Unpriced} /\ (v1 = Unpriced <=> p1 = Unpriced)
      /\ p1 # Unpriced => v1 = (a.amount1 + f1) * p1
  BY <1>7, Priced
<1>10. /\ e0 \in Nat \cup {Unpriced} /\ (e0 = Unpriced <=> p0 = Unpriced)
       /\ p0 # Unpriced => e0 = f0 * p0
  BY Priced
<1>11. /\ e1 \in Nat \cup {Unpriced} /\ (e1 = Unpriced <=> p1 = Unpriced)
       /\ p1 # Unpriced => e1 = f1 * p1
  BY Priced
<1>12. /\ p0 # Unpriced => p0 \in Nat
       /\ p1 # Unpriced => p1 \in Nat
       /\ Unpriced \notin Nat
  BY PositionsAssumption
<1>13. p0 # Unpriced => e0 <= v0
  BY <1>7, <1>8, <1>10, <1>12, TimesGrows
<1>14. p1 # Unpriced => e1 <= v1
  BY <1>7, <1>9, <1>11, <1>12, TimesGrows
<1>15. row.value = Sum0(v0, v1) /\ row.earnings = Sum0(e0, e1)
  BY <1>1
<1> HIDE DEF v0, v1, e0, e1
<1>16. row.value \in Nat \cup {Unpriced} /\ (row.value = Unpriced <=> p0 = Unpriced /\ p1 = Unpriced)
  <2>1. /\ Sum0(v0, v1) \in Nat \cup {Unpriced}
        /\ Sum0(v0, v1) = Unpriced <=> v0 = Unpriced /\ v1 = Unpriced
    BY <1>8, <1>9, Summed
  <2> QED
    BY <1>8, <1>9, <1>15, <2>1
<1>17. row.value # Unpriced => row.value >= row.earnings
  <2>1. ASSUME p0 # Unpriced, p1 # Unpriced PROVE row.value >= row.earnings
    <3>1. row.value = v0 + v1 /\ row.earnings = e0 + e1
      BY <1>8, <1>9, <1>10, <1>11, <1>15, <2>1, Summed
    <3>2. v0 \in Nat /\ v1 \in Nat /\ e0 \in Nat /\ e1 \in Nat
      BY <1>8, <1>9, <1>10, <1>11, <2>1
    <3> QED
      BY <1>13, <1>14, <2>1, <3>1, <3>2
  <2>2. ASSUME p0 # Unpriced, p1 = Unpriced PROVE row.value >= row.earnings
    <3>1. v0 \in Nat /\ e0 \in Nat /\ v1 = Unpriced /\ e1 = Unpriced
      BY <1>8, <1>9, <1>10, <1>11, <2>2
    <3>2. row.value = v0 + 0 /\ row.earnings = e0 + 0
      BY <1>12, <1>15, <3>1 DEF Sum0
    <3> QED
      BY <1>13, <2>2, <3>1, <3>2
  <2>3. ASSUME p0 = Unpriced, p1 # Unpriced PROVE row.value >= row.earnings
    <3>1. v1 \in Nat /\ e1 \in Nat /\ v0 = Unpriced /\ e0 = Unpriced
      BY <1>8, <1>9, <1>10, <1>11, <2>3
    <3>2. row.value = 0 + v1 /\ row.earnings = 0 + e1
      BY <1>12, <1>15, <3>1 DEF Sum0
    <3> QED
      BY <1>14, <2>3, <3>1, <3>2
  <2> QED
    BY <1>16, <2>1, <2>2, <2>3
<1>18. (row.value = Unpriced) = (row.p = <<Unpriced, Unpriced>>)
  <2>1. row.p = <<Unpriced, Unpriced>> <=> p0 = Unpriced /\ p1 = Unpriced
    BY <1>1
  <2> QED
    BY <1>16, <2>1
<1>19. ASSUME ~row.moved, p0 # Unpriced, p1 # Unpriced
       PROVE  row.value = (row.legs[1].amount + n.fees0) * p0 + (row.legs[2].amount + n.fees1) * p1
  <2>1. f0 = n.fees0 /\ f1 = n.fees1
    BY <1>1, <1>19
  <2>2. row.value = v0 + v1
    BY <1>8, <1>9, <1>15, <1>19, Summed
  <2> QED
    BY <1>2, <1>8, <1>9, <1>19, <2>1, <2>2
<1>20. Conforms(row)
  BY <1>1, <1>2, <1>5, <1>16 DEF Conforms
<1>21. RowTrue(row)
  BY <1>1, <1>2, <1>6, <1>17, <1>18, <1>19, <1>20 DEF RowTrue
<1> QED
  BY <1>1, <1>21 DEF row

(***************************************************************************)
(* The read.                                                               *)
(***************************************************************************)

ListingFields == {"step", "i", "count", "n", "fees", "moved", "changed"}
Underway(l) == l.step \in {"position", "fees", "price"}

\* What was read of a position is what it is, unless it moved meanwhile.
ListingOK(l, h) ==
    /\ DOMAIN l = ListingFields
    /\ l.step \in {"count", "position", "fees", "price", "done"}
    /\ l.i \in Nat /\ l.count \in Nat /\ l.changed \in BOOLEAN /\ l.moved \in BOOLEAN
    /\ Underway(l) => l.i \in 1 .. l.count
    /\ l.step # "count" => l.count <= Len(h) /\ (~l.changed => l.count = Len(h))
    /\ l.moved => l.changed
    /\ l.step \in {"fees", "price"} => l.n \in NFTs /\ (~l.moved => l.n = h[l.i])
    /\ l.step = "price" => /\ l.fees[1] \in Nat /\ l.fees[2] \in Nat
                           /\ ~l.moved => /\ l.fees[1] = l.n.fees0 /\ l.fees[2] = l.n.fees1
                                          /\ Worth(l.n)

\* The positions that are behind the read.
Seen(l) == CASE l.step = "count" -> 0
             [] l.step = "done"  -> l.count
             [] OTHER            -> l.i - 1

Found(n, i, rs) ==
    /\ Worth(n) => \E r \in DOMAIN rs : rs[r].i = i
    /\ ~Worth(n) => \A r \in DOMAIN rs : rs[r].i = i => rs[r].kind = "error"

RowsOK(l, h, rs) ==
    /\ \E S : rs \in Seq(S)
    /\ \A r \in DOMAIN rs : RowTrue(rs[r]) /\ rs[r].i \in 1 .. Seen(l)
    /\ \A r \in DOMAIN rs : r > 1 => rs[r - 1].i < rs[r].i
    /\ ~l.changed => \A i \in 1 .. Seen(l) : Found(h[i], i, rs)

PositionsInv ==
    /\ held \in Seq(NFTs) /\ held # <<>> /\ market \in Market
    /\ ListingOK(listing, held) /\ RowsOK(listing, held, rows)

LEMMA AppendOne ==
    ASSUME NEW s, \E S : s \in Seq(S), NEW x
    PROVE  /\ \E S : Append(s, x) \in Seq(S)
           /\ Len(s) \in Nat /\ DOMAIN s = 1 .. Len(s) /\ DOMAIN Append(s, x) = 1 .. Len(s) + 1
           /\ \A k \in 1 .. Len(s) : Append(s, x)[k] = s[k]
           /\ Append(s, x)[Len(s) + 1] = x
<1>1. PICK S : s \in Seq(S)
  OBVIOUS
<1> DEFINE T == S \cup {x}
<1>2. s \in Seq(T) /\ x \in T
  BY <1>1
<1> HIDE DEF T
<1>3. Append(s, x) \in Seq(T) /\ Len(Append(s, x)) = Len(s) + 1
  BY <1>2
<1> QED
  BY <1>2, <1>3

\* On to the next position, or to the end.
LEMMA Advances ==
    ASSUME ListingOK(listing, held), Underway(listing)
    PROVE  /\ ListingOK(NextToken, held) /\ Seen(NextToken) = listing.i
           /\ NextToken.changed = listing.changed
<1> DEFINE l == listing
           m == NextToken
<1>1. /\ l.i \in 1 .. l.count /\ l.count \in Nat /\ l.changed \in BOOLEAN
      /\ l.count <= Len(held) /\ (~l.changed => l.count = Len(held))
  BY DEF ListingOK, Underway
<1>2. /\ DOMAIN m = ListingFields /\ m.count = l.count /\ m.moved = FALSE /\ m.changed = l.changed
      /\ m.step \in {"position", "done"}
  BY DEF NextToken, At, ListingFields
<1>3. l.i < l.count => m.step = "position" /\ m.i = l.i + 1
  BY DEF NextToken, At
<1>4. ~(l.i < l.count) => m.step = "done" /\ m.i = l.i
  BY DEF NextToken, At
<1> HIDE DEF l, m
<1>5. Seen(m) = l.i
  BY <1>1, <1>2, <1>3, <1>4 DEF Seen
<1>6. m.i \in Nat /\ (Underway(m) => m.i \in 1 .. m.count)
  BY <1>1, <1>2, <1>3, <1>4 DEF Underway
<1>7. ListingOK(m, held)
  BY <1>1, <1>2, <1>6 DEF ListingOK
<1> QED
  BY <1>2, <1>5, <1>7 DEF l, m

LEMMA RowAdded ==
    ASSUME NEW l, NEW m, NEW h, NEW rs, NEW row, RowsOK(l, h, rs), l.i \in Nat, Underway(l),
           Seen(m) = l.i, m.changed = l.changed, RowTrue(row), row.i = l.i, l.i >= 1,
           ~l.changed => Worth(h[l.i]) \/ row.kind = "error"
    PROVE  RowsOK(m, h, Append(rs, row))
<1> DEFINE t == Append(rs, row)
           k == Len(rs)
<1>1. /\ \E S : t \in Seq(S)
      /\ k \in Nat /\ DOMAIN rs = 1 .. k /\ DOMAIN t = 1 .. k + 1
      /\ \A r \in 1 .. k : t[r] = rs[r]
      /\ t[k + 1] = row
  BY AppendOne DEF RowsOK
<1> HIDE DEF t, k
<1>2. Seen(l) = l.i - 1
  BY DEF Seen, Underway
<1>3. \A r \in 1 .. k : RowTrue(rs[r]) /\ rs[r].i \in 1 .. l.i - 1
  BY <1>1, <1>2 DEF RowsOK
<1>4. \A r \in DOMAIN t : RowTrue(t[r]) /\ t[r].i \in 1 .. l.i
  <2> SUFFICES ASSUME NEW r \in 1 .. k + 1 PROVE RowTrue(t[r]) /\ t[r].i \in 1 .. l.i
    BY <1>1
  <2>1. CASE r = k + 1
    BY <1>1, <2>1
  <2>2. CASE r \in 1 .. k
    BY <1>1, <1>3, <2>2
  <2> QED
    BY <1>1, <2>1, <2>2
<1>5. ASSUME NEW r \in DOMAIN t, r > 1 PROVE t[r - 1].i < t[r].i
  <2>1. CASE r = k + 1
    <3>1. r - 1 \in 1 .. k /\ t[r] = row /\ t[r - 1] = rs[r - 1]
      BY <1>1, <1>5, <2>1
    <3> QED
      BY <1>3, <3>1
  <2>2. CASE r \in 1 .. k
    <3>1. r - 1 \in 1 .. k /\ t[r] = rs[r] /\ t[r - 1] = rs[r - 1]
      BY <1>1, <1>5, <2>2
    <3> QED
      BY <1>1, <1>5, <2>2, <3>1 DEF RowsOK
  <2> QED
    BY <1>1, <2>1, <2>2
<1>6. ASSUME ~m.changed, NEW i \in 1 .. l.i PROVE Found(h[i], i, t)
  <2>1. CASE i = l.i
    <3>1. Worth(h[i]) => \E r \in DOMAIN t : t[r].i = i
      BY <1>1, <2>1
    <3>2. ASSUME ~Worth(h[i]), NEW r \in DOMAIN t, t[r].i = i PROVE t[r].kind = "error"
      <4>1. r \notin 1 .. k
        BY <1>1, <1>3, <2>1, <3>2
      <4>2. t[r] = row
        BY <1>1, <4>1
      <4> QED
        BY <1>6, <2>1, <3>2, <4>2
    <3> QED
      BY <3>1, <3>2 DEF Found
  <2>2. CASE i \in 1 .. l.i - 1
    <3>1. Found(h[i], i, rs)
      BY <1>2, <1>6, <2>2 DEF RowsOK
    <3>2. Worth(h[i]) => \E r \in DOMAIN t : t[r].i = i
      BY <1>1, <3>1 DEF Found
    <3>3. ASSUME ~Worth(h[i]), NEW r \in DOMAIN t, t[r].i = i PROVE t[r].kind = "error"
      <4>1. r \in 1 .. k
        BY <1>1, <2>2, <3>3
      <4> QED
        BY <1>1, <3>1, <3>3, <4>1 DEF Found
    <3> QED
      BY <3>2, <3>3 DEF Found
  <2> QED
    BY <2>1, <2>2
<1> QED
  BY <1>1, <1>4, <1>5, <1>6 DEF RowsOK, t

\* An empty position is passed over.
LEMMA RowOmitted ==
    ASSUME NEW l, NEW m, NEW h, NEW rs, RowsOK(l, h, rs), l.i \in Nat, Underway(l), l.i >= 1,
           Seen(m) = l.i, m.changed = l.changed, ~l.changed => ~Worth(h[l.i])
    PROVE  RowsOK(m, h, rs)
<1>1. Seen(l) = l.i - 1
  BY DEF Seen, Underway
<1>2. \A r \in DOMAIN rs : RowTrue(rs[r]) /\ rs[r].i \in 1 .. l.i - 1
  BY <1>1 DEF RowsOK
<1>3. \A r \in DOMAIN rs : rs[r].i \in 1 .. l.i /\ rs[r].i # l.i
  BY <1>2
<1>4. ASSUME ~m.changed, NEW i \in 1 .. l.i PROVE Found(h[i], i, rs)
  <2>1. CASE i = l.i
    BY <1>3, <1>4, <2>1 DEF Found
  <2>2. CASE i \in 1 .. l.i - 1
    BY <1>1, <1>4, <2>2 DEF RowsOK
  <2> QED
    BY <2>1, <2>2
<1> QED
  BY <1>2, <1>3, <1>4 DEF RowsOK

(***************************************************************************)
(* Every step keeps what was read true.                                    *)
(***************************************************************************)

LEMMA CountKeeps == ASSUME PositionsInv, balanceOf \/ readAgain PROVE PositionsInv'
<1>1. CASE balanceOf
  <2> DEFINE m == listing'
  <2>1. /\ listing.step = "count" /\ listing' = [At("position", 1) EXCEPT !.count = Len(held)]
        /\ UNCHANGED <<held, market, rows>>
    BY <1>1 DEF balanceOf
  <2>2. /\ DOMAIN m = ListingFields /\ m.step = "position" /\ m.i = 1 /\ m.count = Len(held)
        /\ m.moved = FALSE /\ m.changed = listing.changed
    BY <2>1 DEF At, ListingFields
  <2>3. Len(held) \in Nat \ {0} /\ listing.changed \in BOOLEAN
    BY DEF PositionsInv, ListingOK
  <2> HIDE DEF m
  <2>4. ListingOK(m, held) /\ Seen(m) = 0
    <3>1. m.moved \in BOOLEAN /\ m.changed \in BOOLEAN /\ ~m.moved
      BY <2>2, <2>3
    <3>2. m.i \in Nat /\ m.count \in Nat /\ m.i \in 1 .. m.count
      BY <2>2, <2>3
    <3> QED
      BY <2>2, <2>3, <3>1, <3>2 DEF ListingOK, Underway, Seen
  <2>5. Seen(listing) = 0
    BY <2>1 DEF Seen
  <2>6. RowsOK(m, held, rows)
    BY <2>2, <2>4, <2>5 DEF PositionsInv, RowsOK
  <2> QED
    BY <2>1, <2>4, <2>6 DEF PositionsInv, m
<1>2. CASE readAgain
  <2> DEFINE m == listing'
  <2>1. /\ listing' = [At("count", 0) EXCEPT !.count = 0, !.changed = FALSE]
        /\ rows' = <<>> /\ UNCHANGED <<held, market>>
    BY <1>2 DEF readAgain
  <2>2. /\ DOMAIN m = ListingFields /\ m.step = "count" /\ m.i = 0 /\ m.count = 0
        /\ m.moved = FALSE /\ m.changed = FALSE
    BY <2>1 DEF At, ListingFields
  <2> HIDE DEF m
  <2>3. ListingOK(m, held) /\ Seen(m) = 0
    <3>1. m.moved \in BOOLEAN /\ m.changed \in BOOLEAN /\ ~m.moved
      BY <2>2
    <3> QED
      BY <2>2, <3>1 DEF ListingOK, Underway, Seen
  <2>4. RowsOK(m, held, <<>>)
    <3>1. <<>> \in Seq({}) /\ DOMAIN <<>> = {}
      OBVIOUS
    <3> QED
      BY <2>3, <3>1 DEF RowsOK
  <2> QED
    BY <2>1, <2>3, <2>4 DEF PositionsInv, m
<1> QED
  BY <1>1, <1>2

\* A position under the read.
LEMMA UnderRead ==
    ASSUME PositionsInv, Underway(listing)
    PROVE  /\ listing.i \in 1 .. Len(held) /\ listing.i \in Nat /\ listing.i >= 1
           /\ held[listing.i] \in NFTs
<1>1. /\ listing.i \in 1 .. listing.count /\ listing.count \in Nat /\ listing.count <= Len(held)
      /\ held \in Seq(NFTs)
  BY DEF PositionsInv, ListingOK, Underway
<1>2. listing.i \in 1 .. Len(held)
  BY <1>1
<1> QED
  BY <1>1, <1>2

LEMMA ReadPositionKeeps == ASSUME PositionsInv, readPosition PROVE PositionsInv'
<1> DEFINE l == listing
           m == listing'
<1>1. /\ l.step = "position" /\ m = [At("fees", l.i) EXCEPT !.n = held[l.i]]
      /\ UNCHANGED <<held, market, rows>>
  BY DEF readPosition
<1>2. Underway(l)
  BY <1>1 DEF Underway
<1>3. l.i \in 1 .. Len(held) /\ held[l.i] \in NFTs
  BY <1>2, UnderRead
<1>4. /\ DOMAIN m = ListingFields /\ m.step = "fees" /\ m.i = l.i /\ m.count = l.count
      /\ m.n = held[l.i] /\ m.moved = FALSE /\ m.changed = l.changed
  BY <1>1 DEF At, ListingFields
<1> HIDE DEF l, m
<1>5. ListingOK(l, held) /\ RowsOK(l, held, rows)
  BY DEF PositionsInv, l
<1>6. ListingOK(m, held)
  BY <1>1, <1>3, <1>4, <1>5 DEF ListingOK, Underway
<1>7. Seen(m) = Seen(l)
  BY <1>1, <1>4 DEF Seen
<1>8. RowsOK(m, held, rows)
  BY <1>4, <1>5, <1>7 DEF RowsOK
<1> QED
  BY <1>1, <1>6, <1>8 DEF PositionsInv, m

LEMMA ReadFeesKeeps == ASSUME PositionsInv, readFees PROVE PositionsInv'
<1> DEFINE l == listing
           m == listing'
           n == held[l.i]
           Empty == l.n.liquidity = 0 /\ n.fees0 = 0 /\ n.fees1 = 0
<1>1. /\ l.step = "fees" /\ UNCHANGED <<held, market, rows>>
      /\ m = IF Empty THEN NextToken
             ELSE [l EXCEPT !.step = "price", !.fees = <<n.fees0, n.fees1>>]
  BY DEF readFees
<1>2. Underway(l)
  BY <1>1 DEF Underway
<1>3. /\ l.i \in 1 .. Len(held) /\ l.i \in Nat /\ l.i >= 1 /\ n \in NFTs
      /\ ListingOK(l, held) /\ RowsOK(l, held, rows)
  BY <1>2, UnderRead DEF PositionsInv
<1>4. /\ l.n \in NFTs /\ (~l.moved => l.n = n)
      /\ n.fees0 \in Nat /\ n.fees1 \in Nat /\ n.liquidity \in Nat
      /\ l.moved \in BOOLEAN /\ (l.moved => l.changed)
  <2>1. l.n \in NFTs /\ (~l.moved => l.n = n) /\ l.moved \in BOOLEAN /\ (l.moved => l.changed)
    BY <1>1, <1>3 DEF ListingOK
  <2>2. n.fees0 \in Nat /\ n.fees1 \in Nat /\ n.liquidity \in Nat
    BY <1>3, PositionsAssumption
  <2> QED
    BY <2>1, <2>2
<1>5. CASE Empty
  <2>1. m = NextToken
    BY <1>1, <1>5
  <2>2. ~l.changed => ~Worth(n)
    BY <1>4, <1>5 DEF Worth
  <2>3. ListingOK(m, held) /\ Seen(m) = l.i /\ m.changed = l.changed
    BY <1>2, <1>3, <2>1, Advances
  <2> HIDE DEF l, m
  <2>4. RowsOK(m, held, rows)
    BY <1>2, <1>3, <2>2, <2>3, RowOmitted
  <2> QED
    BY <1>1, <2>3, <2>4 DEF PositionsInv, m
<1>6. CASE ~Empty
  <2>1. m = [l EXCEPT !.step = "price", !.fees = <<n.fees0, n.fees1>>]
    BY <1>1, <1>6
  <2>2. DOMAIN l = ListingFields
    BY <1>3 DEF ListingOK
  <2>3. /\ DOMAIN m = ListingFields /\ m.step = "price" /\ m.i = l.i /\ m.count = l.count
        /\ m.n = l.n /\ m.fees = <<n.fees0, n.fees1>> /\ m.moved = l.moved /\ m.changed = l.changed
    BY <2>1, <2>2 DEF ListingFields
  <2>4. m.fees[1] = n.fees0 /\ m.fees[2] = n.fees1
    BY <2>3
  <2>5. ~l.moved => Worth(l.n)
    BY <1>4, <1>6 DEF Worth
  <2> HIDE DEF l, m
  <2>6. ListingOK(m, held)
    BY <1>1, <1>3, <1>4, <2>3, <2>4, <2>5 DEF ListingOK, Underway
  <2>7. Seen(m) = Seen(l)
    BY <1>1, <2>3 DEF Seen
  <2>8. RowsOK(m, held, rows)
    BY <1>3, <2>3, <2>7 DEF RowsOK
  <2> QED
    BY <1>1, <2>6, <2>8 DEF PositionsInv, m
<1> QED
  BY <1>5, <1>6

LEMMA ReadPriceKeeps == ASSUME PositionsInv, readPrice PROVE PositionsInv'
<1> DEFINE l == listing
<1>1. l.step = "price" /\ listing' = NextToken /\ UNCHANGED <<held, market>>
  BY DEF readPrice
<1>2. PICK p0 \in LegPrice, p1 \in LegPrice :
        rows' = Append(rows, buildLpPosition(l.i, l.n, l.fees[1], l.fees[2], market, p0, p1))
  BY DEF readPrice
<1>3. Underway(l)
  BY <1>1 DEF Underway
<1>4. /\ l.i \in Nat /\ l.i >= 1
      /\ ListingOK(l, held) /\ RowsOK(l, held, rows) /\ market \in Market
  BY <1>3, UnderRead DEF PositionsInv
<1>5. /\ l.n \in NFTs /\ l.fees[1] \in Nat /\ l.fees[2] \in Nat
      /\ ~l.moved => /\ l.fees[1] = l.n.fees0 /\ l.fees[2] = l.n.fees1
                     /\ l.n = held[l.i] /\ Worth(l.n)
      /\ l.moved => l.changed
  BY <1>1, <1>4 DEF ListingOK
<1> DEFINE row == buildLpPosition(l.i, l.n, l.fees[1], l.fees[2], market, p0, p1)
<1>6. RowTrue(row) /\ row.i = l.i
  BY <1>4, <1>5, BuiltRowTrue
<1> HIDE DEF row
<1>7. /\ ListingOK(NextToken, held) /\ Seen(NextToken) = l.i
      /\ NextToken.changed = l.changed
  BY <1>3, <1>4, Advances
<1>8. ~l.changed => Worth(held[l.i])
  BY <1>5
<1> HIDE DEF l
<1>9. RowsOK(NextToken, held, Append(rows, row))
  BY <1>3, <1>4, <1>6, <1>7, <1>8, RowAdded
<1>10. rows' = Append(rows, row)
  BY <1>2 DEF row
<1> QED
  BY <1>1, <1>7, <1>9, <1>10 DEF PositionsInv

LEMMA ReadPositionFailsKeeps == ASSUME PositionsInv, readPositionFails PROVE PositionsInv'
<1>1. /\ Underway(listing) /\ listing' = NextToken /\ UNCHANGED <<held, market>>
      /\ rows' = Append(rows, ErrorRow(listing.i))
  BY DEF readPositionFails, Underway
<1>2. /\ listing.i \in Nat /\ listing.i >= 1
      /\ ListingOK(listing, held) /\ RowsOK(listing, held, rows)
  BY <1>1, UnderRead DEF PositionsInv
<1>3. /\ ListingOK(NextToken, held) /\ Seen(NextToken) = listing.i
      /\ NextToken.changed = listing.changed
  BY <1>1, <1>2, Advances
<1>4. /\ RowTrue(ErrorRow(listing.i)) /\ ErrorRow(listing.i).i = listing.i
      /\ ErrorRow(listing.i).kind = "error"
  BY ErrorRowTrue
<1>5. RowsOK(NextToken, held, Append(rows, ErrorRow(listing.i)))
  BY <1>1, <1>2, <1>3, <1>4, RowAdded
<1> QED
  BY <1>1, <1>3, <1>5 DEF PositionsInv

\* While the vault works: a position that changes under the read is marked.
LEMMA Disturbed ==
    ASSUME PositionsInv, UNCHANGED <<market, rows>>, DOMAIN listing' = ListingFields,
           listing'.step = listing.step, listing'.i = listing.i, listing'.count = listing.count,
           listing'.n = listing.n, listing'.fees = listing.fees,
           listing'.changed, listing'.changed \in BOOLEAN, listing'.moved \in BOOLEAN,
           held' \in Seq(NFTs), held' # <<>>, Len(held) <= Len(held'),
           ~listing'.moved =>
              ~listing.moved /\ (listing.i \in 1 .. Len(held) => held'[listing.i] = held[listing.i])
    PROVE  PositionsInv'
<1> DEFINE l == listing
           m == listing'
<1>1. /\ ListingOK(l, held) /\ RowsOK(l, held, rows) /\ Len(held) \in Nat /\ Len(held') \in Nat
      /\ market \in Market /\ held \in Seq(NFTs)
  BY DEF PositionsInv
<1>2. /\ DOMAIN m = ListingFields /\ m.step = l.step /\ m.i = l.i /\ m.count = l.count
      /\ m.n = l.n /\ m.fees = l.fees /\ m.changed /\ m.changed \in BOOLEAN /\ m.moved \in BOOLEAN
      /\ ~m.moved => ~l.moved /\ (l.i \in 1 .. Len(held) => held'[l.i] = held[l.i])
  OBVIOUS
<1> HIDE DEF l, m
<1>3. Underway(m) <=> Underway(l)
  BY <1>2 DEF Underway
<1>4. Underway(l) => l.i \in 1 .. Len(held)
  BY <1>1 DEF ListingOK, Underway
<1>5. l.step \in {"fees", "price"} => m.n \in NFTs /\ (~m.moved => m.n = held'[m.i])
  BY <1>1, <1>2, <1>4 DEF ListingOK, Underway
<1>6. l.step # "count" => m.count <= Len(held')
  BY <1>1, <1>2 DEF ListingOK
<1>7. ListingOK(m, held')
  BY <1>1, <1>2, <1>3, <1>5, <1>6 DEF ListingOK
<1>8. Seen(m) = Seen(l)
  BY <1>2 DEF Seen
<1>9. RowsOK(m, held', rows)
  BY <1>1, <1>2, <1>8 DEF RowsOK
<1> QED
  BY <1>1, <1>7, <1>9 DEF PositionsInv, m

LEMMA VaultKeeps ==
    ASSUME PositionsInv,
           \/ \E i \in DOMAIN held, n \in NFTs : changePosition(i, n)
           \/ \E n \in NFTs : mintPosition(n)
    PROVE  PositionsInv'
<1>1. /\ held \in Seq(NFTs) /\ held # <<>> /\ DOMAIN listing = ListingFields
      /\ DOMAIN held = 1 .. Len(held) /\ Len(held) \in Nat /\ listing.moved \in BOOLEAN
  BY DEF PositionsInv, ListingOK
<1>2. ASSUME NEW i \in DOMAIN held, NEW n \in NFTs, changePosition(i, n) PROVE PositionsInv'
  <2> DEFINE m == listing'
  <2>1. /\ UNCHANGED <<market, rows>> /\ held' = [held EXCEPT ![i] = n]
        /\ m = [listing EXCEPT !.moved = @ \/ i = listing.i, !.changed = TRUE]
    BY <1>2 DEF changePosition
  <2>2. /\ DOMAIN m = ListingFields /\ m.step = listing.step /\ m.i = listing.i
        /\ m.count = listing.count /\ m.n = listing.n /\ m.fees = listing.fees
        /\ m.changed = TRUE /\ m.moved = (listing.moved \/ i = listing.i)
    BY <1>1, <2>1 DEF ListingFields
  <2>3. held' \in Seq(NFTs) /\ Len(held') = Len(held)
    BY <1>1, <2>1
  <2>4. held' # <<>>
    BY <1>1, <2>3
  <2>5. \A j \in 1 .. Len(held) : j # i => held'[j] = held[j]
    BY <1>1, <2>1
  <2> HIDE DEF m
  <2>6. m.moved \in BOOLEAN /\ (~m.moved => ~listing.moved /\ i # listing.i)
    BY <1>1, <2>2
  <2>7. m.changed /\ m.changed \in BOOLEAN
    BY <2>2
  <2>8. Len(held) <= Len(held')
    BY <1>1, <2>3
  <2>9. ~m.moved => ~listing.moved
                      /\ (listing.i \in 1 .. Len(held) => held'[listing.i] = held[listing.i])
    BY <2>5, <2>6
  <2> QED
    BY <2>1, <2>2, <2>3, <2>4, <2>6, <2>7, <2>8, <2>9, Disturbed DEF m
<1>3. ASSUME NEW n \in NFTs, mintPosition(n) PROVE PositionsInv'
  <2> DEFINE m == listing'
  <2>1. /\ UNCHANGED <<market, rows>> /\ held' = Append(held, n)
        /\ m = [listing EXCEPT !.changed = TRUE]
    BY <1>3 DEF mintPosition
  <2>2. /\ DOMAIN m = ListingFields /\ m.step = listing.step /\ m.i = listing.i
        /\ m.count = listing.count /\ m.n = listing.n /\ m.fees = listing.fees
        /\ m.changed = TRUE /\ m.moved = listing.moved
    BY <1>1, <2>1 DEF ListingFields
  <2>3. /\ held' \in Seq(NFTs) /\ Len(held') = Len(held) + 1
        /\ \A j \in 1 .. Len(held) : held'[j] = held[j]
    BY <1>1, <2>1
  <2>4. held' # <<>> /\ Len(held) <= Len(held')
    BY <1>1, <2>3
  <2> HIDE DEF m
  <2>5. m.changed /\ m.changed \in BOOLEAN /\ m.moved \in BOOLEAN
    BY <1>1, <2>2
  <2>6. ~m.moved => ~listing.moved
                      /\ (listing.i \in 1 .. Len(held) => held'[listing.i] = held[listing.i])
    BY <2>2, <2>3
  <2> QED
    BY <2>1, <2>2, <2>3, <2>4, <2>5, <2>6, Disturbed DEF m
<1> QED
  BY <1>2, <1>3

LEMMA PositionsStart == ASSUME PositionsInit PROVE PositionsInv
<1>1. held \in Seq(NFTs) /\ held # <<>>
  <2>1. CASE held \in {<<n>> : n \in NFTs}
    <3>1. PICK n \in NFTs : held = <<n>>
      BY <2>1
    <3> QED
      BY <3>1
  <2>2. CASE held \in {<<m, n>> : m \in NFTs, n \in NFTs}
    <3>1. PICK m \in NFTs, n \in NFTs : held = <<m, n>>
      BY <2>2
    <3> QED
      BY <3>1
  <2> QED
    BY <2>1, <2>2 DEF PositionsInit
<1> DEFINE l == listing
<1>2. /\ market \in Market /\ rows = <<>>
      /\ DOMAIN l = ListingFields /\ l.step = "count" /\ l.i = 0 /\ l.count = 0
      /\ l.moved = FALSE /\ l.changed = FALSE
  BY DEF PositionsInit, ListingFields
<1> HIDE DEF l
<1>3. l.moved \in BOOLEAN /\ l.changed \in BOOLEAN /\ ~l.moved
  BY <1>2
<1>4. ListingOK(l, held) /\ Seen(l) = 0
  BY <1>2, <1>3 DEF ListingOK, Underway, Seen
<1>5. RowsOK(l, held, <<>>)
  <2>1. <<>> \in Seq({}) /\ DOMAIN <<>> = {}
    OBVIOUS
  <2> QED
    BY <1>4, <2>1 DEF RowsOK
<1> QED
  BY <1>1, <1>2, <1>4, <1>5 DEF PositionsInv, l

LEMMA PositionsSteps == ASSUME PositionsInv, [PositionsNext]_positionVars PROVE PositionsInv'
<1>1. CASE balanceOf \/ readAgain
  BY <1>1, CountKeeps
<1>2. CASE readPosition
  BY <1>2, ReadPositionKeeps
<1>3. CASE readFees
  BY <1>3, ReadFeesKeeps
<1>4. CASE readPrice
  BY <1>4, ReadPriceKeeps
<1>5. CASE readPositionFails
  BY <1>5, ReadPositionFailsKeeps
<1>6. CASE \/ \E i \in DOMAIN held, n \in NFTs : changePosition(i, n)
           \/ \E n \in NFTs : mintPosition(n)
  BY <1>6, VaultKeeps
<1>7. CASE marketMoves
  <2>1. market' \in Market /\ UNCHANGED <<held, listing, rows>>
    BY <1>7 DEF marketMoves
  <2> QED
    BY <2>1 DEF PositionsInv
<1>8. CASE UNCHANGED positionVars
  BY <1>8 DEF PositionsInv, positionVars
<1> QED
  BY <1>1, <1>2, <1>3, <1>4, <1>5, <1>6, <1>7, <1>8 DEF PositionsNext

LEMMA PositionsShown == ASSUME PositionsInv PROVE LpRowsTrue
<1>1. \A r \in DOMAIN rows : Conforms(rows[r]) /\ (r > 1 => rows[r - 1].i < rows[r].i)
  BY DEF PositionsInv, RowsOK, RowTrue
<1>2. ASSUME listing.step = "done", ~listing.changed, NEW i \in DOMAIN held
      PROVE  /\ Worth(held[i]) => \E r \in DOMAIN rows : rows[r].i = i
             /\ ~Worth(held[i]) => \A r \in DOMAIN rows : rows[r].i = i => rows[r].kind = "error"
  <2>1. listing.count = Len(held) /\ DOMAIN held = 1 .. Len(held)
    BY <1>2 DEF PositionsInv, ListingOK
  <2>2. i \in 1 .. Seen(listing)
    BY <1>2, <2>1 DEF Seen
  <2> QED
    BY <1>2, <2>2 DEF PositionsInv, RowsOK, Found
<1>3. \A r \in DOMAIN rows : rows[r].kind = "lp" => RowTrue(rows[r])
  BY DEF PositionsInv, RowsOK
<1> QED
  BY <1>1, <1>2, <1>3 DEF LpRowsTrue, Worth, RowTrue

\* Of whatever positions a vault holds, while they, the market and the vault change and
\* calls fail: the read has its rows in order, one for each that has anything to show, and
\* each is worth what its position is at the price read with it, rounded down once
\* (pancake-v3.adapter.ts, lp-math.ts).
THEOREM RowsTellPositions == PositionsSpec => []LpRowsTrue
<1>1. PositionsInit => PositionsInv
  BY PositionsStart
<1>2. PositionsInv /\ [PositionsNext]_positionVars => PositionsInv'
  BY PositionsSteps
<1>3. PositionsInv => LpRowsTrue
  BY PositionsShown
<1> QED
  BY <1>1, <1>2, <1>3, PTL DEF PositionsSpec

(***************************************************************************)
(* The range of a mint.                                                    *)
(***************************************************************************)

\* Only zero times a spacing lies within one spacing of zero.
LEMMA WithinOneSpacing ==
    ASSUME NEW d \in Int, NEW s \in Nat \ {0}, -s < d * s, d * s < s
    PROVE  d = 0
<1>1. CASE d >= 1
  <2>1. 1 * s <= d * s
    BY <1>1, TimesGrows
  <2> QED
    BY <2>1
<1>2. CASE d <= -1
  <2>1. -d \in Nat /\ 1 * s <= (-d) * s
    BY <1>2, TimesGrows
  <2>2. (-d) * s = -(d * s)
    OBVIOUS
  <2> QED
    BY <2>1, <2>2
<1> QED
  BY <1>1, <1>2

\* Solidity's quotient, on either side of zero.
LEMMA TowardsZero ==
    ASSUME NEW x \in Int, NEW s \in Nat \ {0}
    PROVE  /\ Quotient(x, s) \in Int /\ Quotient(x, s) * s \in Int
           /\ x >= 0 => Quotient(x, s) * s <= x /\ x < Quotient(x, s) * s + s
           /\ x < 0 => x <= Quotient(x, s) * s /\ Quotient(x, s) * s - s < x
<1>1. CASE x >= 0
  <2> DEFINE q == x \div s
  <2>1. q \in Nat /\ IsQuotient(q, x, s)
    BY <1>1, Quotients
  <2> HIDE DEF q
  <2>2. (q + 1) * s = q * s + s /\ q * s \in Int
    BY <2>1
  <2>3. Quotient(x, s) = q
    BY <1>1 DEF Quotient, q
  <2> QED
    BY <1>1, <2>1, <2>2, <2>3 DEF IsQuotient
<1>2. CASE x < 0
  <2> DEFINE q == (-x) \div s
  <2>1. q \in Nat /\ IsQuotient(q, -x, s)
    BY <1>2, Quotients
  <2> HIDE DEF q
  <2>2. (q + 1) * s = q * s + s /\ q * s \in Int /\ (-q) * s = -(q * s)
    BY <2>1
  <2>3. Quotient(x, s) = -q
    BY <1>2 DEF Quotient, q
  <2> QED
    BY <1>2, <2>1, <2>2, <2>3 DEF IsQuotient
<1> QED
  BY <1>1, <1>2

LEMMA MultiplesOnGrid ==
    ASSUME NEW k \in Int, NEW s \in Nat \ {0}
    PROVE  OnGrid(k * s, s)
<1> DEFINE q == Quotient(k * s, s)
<1>1. k * s \in Int
  OBVIOUS
<1>2. /\ q \in Int /\ q * s \in Int
      /\ k * s >= 0 => q * s <= k * s /\ k * s < q * s + s
      /\ k * s < 0 => k * s <= q * s /\ q * s - s < k * s
  BY <1>1, TowardsZero
<1> HIDE DEF q
<1>3. (k - q) * s = k * s - q * s
  BY <1>2
<1>4. -s < (k - q) * s /\ (k - q) * s < s
  BY <1>1, <1>2, <1>3
<1>5. k - q = 0
  BY <1>2, <1>4, WithinOneSpacing
<1>6. k * s = q * s
  BY <1>2, <1>5
<1> QED
  BY <1>6 DEF OnGrid, q

\* The floor is the multiple at or just below, also below zero.
LEMMA RoundedDown ==
    ASSUME NEW x \in Int, NEW s \in Nat \ {0}
    PROVE  /\ roundDown(x, s) \in Int /\ OnGrid(roundDown(x, s), s)
           /\ roundDown(x, s) <= x /\ x < roundDown(x, s) + s
           /\ OnGrid(x, s) => roundDown(x, s) = x
<1> DEFINE q == Quotient(x, s)
<1>1. /\ q \in Int /\ q * s \in Int
      /\ x >= 0 => q * s <= x /\ x < q * s + s
      /\ x < 0 => x <= q * s /\ q * s - s < x
  BY TowardsZero
<1>2. OnGrid(x, s) <=> x = q * s
  BY DEF OnGrid
<1>3. roundDown(x, s) = q * s - (IF x < 0 /\ x # q * s THEN s ELSE 0)
  BY <1>2 DEF roundDown
<1> HIDE DEF q
<1>4. (q - 1) * s = q * s - s
  BY <1>1
<1>5. OnGrid(q * s, s) /\ OnGrid((q - 1) * s, s)
  <2>1. q - 1 \in Int
    BY <1>1
  <2> QED
    BY <1>1, <2>1, MultiplesOnGrid
<1>6. CASE x < 0 /\ x # q * s
  BY <1>1, <1>2, <1>3, <1>4, <1>5, <1>6
<1>7. CASE ~(x < 0 /\ x # q * s)
  <2>1. roundDown(x, s) = q * s
    BY <1>1, <1>3, <1>7
  <2> QED
    BY <1>1, <1>2, <1>5, <1>7, <2>1
<1> QED
  BY <1>6, <1>7

\* And the ceiling the one at or just above.
LEMMA RoundedUp ==
    ASSUME NEW x \in Int, NEW s \in Nat \ {0}
    PROVE  /\ roundUp(x, s) \in Int /\ OnGrid(roundUp(x, s), s)
           /\ x <= roundUp(x, s) /\ roundUp(x, s) < x + s
<1> DEFINE q == Quotient(x, s)
<1>1. /\ q \in Int /\ q * s \in Int
      /\ x >= 0 => q * s <= x /\ x < q * s + s
      /\ x < 0 => x <= q * s /\ q * s - s < x
  BY TowardsZero
<1>2. OnGrid(x, s) <=> x = q * s
  BY DEF OnGrid
<1>3. roundUp(x, s) = q * s + (IF x > 0 /\ x # q * s THEN s ELSE 0)
  BY <1>2 DEF roundUp
<1> HIDE DEF q
<1>4. (q + 1) * s = q * s + s
  BY <1>1
<1>5. OnGrid(q * s, s) /\ OnGrid((q + 1) * s, s)
  <2>1. q + 1 \in Int
    BY <1>1
  <2> QED
    BY <1>1, <2>1, MultiplesOnGrid
<1>6. CASE x > 0 /\ x # q * s
  BY <1>1, <1>2, <1>3, <1>4, <1>5, <1>6
<1>7. CASE ~(x > 0 /\ x # q * s)
  <2>1. roundUp(x, s) = q * s
    BY <1>1, <1>3, <1>7
  <2> QED
    BY <1>1, <1>5, <1>7, <2>1
<1> QED
  BY <1>6, <1>7

LEMMA RangesHold ==
    ASSUME NEW t \in Int, NEW delta \in Nat, NEW s \in Nat \ {0}
    PROVE  LET r == resolveTicks(t, delta, s) IN
           RangeHolds(t, delta, s) /\ r.lower \in Int /\ r.upper \in Int /\ r.lower < r.upper
<1> DEFINE low == roundDown(t - delta, s)
           high == roundUp(t + delta, s)
           r == resolveTicks(t, delta, s)
<1>1. /\ low \in Int /\ OnGrid(low, s) /\ low <= t - delta /\ t - delta < low + s
      /\ OnGrid(t - delta, s) => low = t - delta
  BY RoundedDown
<1>2. high \in Int /\ OnGrid(high, s) /\ t + delta <= high /\ high < t + delta + s
  BY RoundedUp
<1>3. r.lower = low /\ r.upper = IF low = high THEN high + s ELSE high
  BY DEF resolveTicks
<1>4. OnGrid(high + s, s)
  <2>1. PICK k \in Int : high = k * s
    BY <1>2, TowardsZero DEF OnGrid
  <2>2. high + s = (k + 1) * s
    BY <2>1
  <2> QED
    BY <2>2, MultiplesOnGrid
<1> HIDE DEF low, high, r
<1>5. CASE low = high
  \* No width was asked for, and the tick is on the grid: one spacing above it.
  <2>1. r.lower = low /\ r.upper = low + s /\ t - delta <= t + delta /\ t - delta = low /\ t = low
    BY <1>1, <1>2, <1>3, <1>5
  <2> QED
    BY <1>1, <1>2, <1>4, <1>5, <2>1 DEF RangeHolds, r
<1>6. CASE low # high
  <2>1. r.lower = low /\ r.upper = high
    BY <1>3, <1>6
  <2>2. t < high
    <3>1. CASE t = high
      <4>1. t - delta = t
        BY <1>2, <3>1
      <4> QED
        BY <1>1, <1>2, <1>6, <3>1, <4>1
    <3> QED
      BY <1>2, <3>1
  <2> QED
    BY <1>1, <1>2, <2>1, <2>2 DEF RangeHolds, r
<1> QED
  BY <1>5, <1>6 DEF r

(***************************************************************************)
(* The swap to the ratio.  Amounts are compared scaled by Q2, the square   *)
(* of the price's unit; P is the square of the price and S the product of  *)
(* the two.                                                                *)
(***************************************************************************)

\* Two values stand in the ratio A : B of the legs, up to the rounding.
Balanced(value0, value1, A, B, P, Q2, S) ==
    /\ value0 * B + (A + B) * Q2 >= value1 * A
    /\ value0 * B <= value1 * A + (A + B) * (P + 2 * S + Q2)

\* What is known of token0's value v and the share t of it and b1 that is aimed at.
Aimed(v, t, b0, b1, A, B, P, Q2, S) ==
    /\ v * Q2 <= b0 * P /\ b0 * P <= v * Q2 + Q2 + S
    /\ t * (A + B) <= (v + b1) * A /\ (v + b1) * A <= t * (A + B) + (A + B)

\* The aim in scaled amounts.
LEMMA AimScaled ==
    ASSUME NEW v \in Nat, NEW t \in Nat, NEW b0 \in Nat, NEW b1 \in Nat, NEW A \in Nat,
           NEW B \in Nat, NEW P \in Nat, NEW Q2 \in Nat, NEW S \in Nat,
           Aimed(v, t, b0, b1, A, B, P, Q2, S)
    PROVE  /\ (v * Q2) * B <= (b0 * P) * B /\ (b0 * P) * B <= (v * Q2) * B + (Q2 + S) * B
           /\ (t * Q2) * (A + B) <= (v * Q2) * A + (b1 * Q2) * A
           /\ (v * Q2) * A + (b1 * Q2) * A <= (t * Q2) * (A + B) + (A + B) * Q2
<1> DEFINE u == A + B
<1>1. u \in Nat /\ v * Q2 \in Nat /\ b0 * P \in Nat /\ v * Q2 + Q2 + S \in Nat
  OBVIOUS
<1>2. (v * Q2) * B <= (b0 * P) * B /\ (b0 * P) * B <= (v * Q2 + Q2 + S) * B
  BY <1>1, TimesGrows DEF Aimed
<1>3. (v * Q2 + Q2 + S) * B = (v * Q2) * B + (Q2 + S) * B
  OBVIOUS
<1> HIDE DEF u
<1>4. t * u \in Nat /\ (v + b1) * A \in Nat /\ t * u + u \in Nat
  BY <1>1
<1>5. t * u <= (v + b1) * A /\ (v + b1) * A <= t * u + u
  BY DEF Aimed, u
<1>6. (t * u) * Q2 <= ((v + b1) * A) * Q2 /\ ((v + b1) * A) * Q2 <= (t * u + u) * Q2
  BY <1>4, <1>5, TimesGrows
<1>7. /\ (t * u) * Q2 = (t * Q2) * u
      /\ ((v + b1) * A) * Q2 = (v * Q2) * A + (b1 * Q2) * A
      /\ (t * u + u) * Q2 = (t * Q2) * u + u * Q2
  BY <1>1
<1> QED
  BY <1>2, <1>3, <1>6, <1>7 DEF u

\* Selling token0: as much as the excess is worth, or all there is.
LEMMA FirstSold ==
    ASSUME NEW v \in Nat, NEW t \in Nat, NEW b0 \in Nat, NEW b1 \in Nat, NEW A \in Nat,
           NEW B \in Nat, NEW P \in Nat, NEW Q2 \in Nat, NEW S \in Nat,
           Aimed(v, t, b0, b1, A, B, P, Q2, S), t <= v,
           NEW in0 \in Nat, in0 <= b0, in0 * P <= (v - t) * Q2,
           in0 = b0 \/ (v - t) * Q2 <= in0 * P + S + P
    PROVE  Balanced((b0 - in0) * P, b1 * Q2 + in0 * P, A, B, P, Q2, S)
<1> DEFINE bp == b0 * P
           ip == in0 * P
           bq == b1 * Q2
           vq == v * Q2
           tq == t * Q2
           u == A + B
<1>1. /\ vq * B <= bp * B /\ bp * B <= vq * B + (Q2 + S) * B
      /\ tq * u <= vq * A + bq * A /\ vq * A + bq * A <= tq * u + u * Q2
  BY AimScaled
<1>2. (b0 - in0) * P = bp - ip /\ (v - t) * Q2 = vq - tq
  OBVIOUS
<1>3. bp \in Nat /\ ip \in Nat /\ bq \in Nat /\ vq \in Nat /\ tq \in Nat /\ u \in Nat
  OBVIOUS
<1>4. ip <= vq - tq /\ (ip = bp \/ vq - tq <= ip + S + P) /\ vq - tq \in Nat
  BY <1>2, <1>3
<1>5. u = A + B
  OBVIOUS
<1> SUFFICES Balanced(bp - ip, bq + ip, A, B, P, Q2, S)
  BY <1>2
<1> HIDE DEF bp, ip, bq, vq, tq, u
<1>6. (bp - ip) * B = bp * B - ip * B /\ (bq + ip) * A = bq * A + ip * A
  BY <1>3
<1>7. ip * u = ip * A + ip * B /\ (vq - tq) * u = vq * A + vq * B - tq * u
  BY <1>3, <1>5
<1>8. ip * u <= (vq - tq) * u
  BY <1>3, <1>4, TimesGrows
<1>9. (bp - ip) * B + u * Q2 >= (bq + ip) * A
  <2>1. /\ bp * B \in Int /\ ip * B \in Int /\ ip * A \in Int /\ bq * A \in Int /\ ip * u \in Int
        /\ vq * A \in Int /\ vq * B \in Int /\ tq * u \in Int /\ u * Q2 \in Int
    BY <1>3
  <2> QED
    BY <1>1, <1>6, <1>7, <1>8, <2>1
<1>10. (bp - ip) * B <= (bq + ip) * A + u * (P + 2 * S + Q2)
  <2>1. /\ bp * B \in Nat /\ ip * B \in Nat /\ ip * A \in Nat /\ bq * A \in Nat /\ ip * u \in Nat
        /\ vq * A \in Nat /\ vq * B \in Nat /\ tq * u \in Nat /\ u * Q2 \in Nat
        /\ u * P \in Nat /\ u * S \in Nat /\ (Q2 + S) * B \in Nat
    BY <1>3
  <2>2. u * (P + 2 * S + Q2) = u * P + 2 * (u * S) + u * Q2
    BY <1>3
  <2>3. CASE ip = bp
    BY <1>6, <2>1, <2>2, <2>3
  <2>4. CASE vq - tq <= ip + S + P
    <3>1. (vq - tq) * u <= (ip + S + P) * u
      BY <1>3, <1>4, <2>4, TimesGrows
    <3>2. (ip + S + P) * u = ip * u + u * S + u * P
      BY <1>3
    <3>3. (Q2 + S) * B <= u * Q2 + u * S
      <4>1. B <= u /\ Q2 + S \in Nat
        BY <1>5
      <4>2. B * (Q2 + S) <= u * (Q2 + S)
        BY <1>3, <4>1, TimesGrows
      <4>3. B * (Q2 + S) = (Q2 + S) * B /\ u * (Q2 + S) = u * Q2 + u * S
        BY <1>3
      <4> QED
        BY <4>2, <4>3
    <3> QED
      BY <1>1, <1>6, <1>7, <2>1, <2>2, <3>1, <3>2, <3>3
  <2> QED
    BY <1>4, <2>3, <2>4
<1> QED
  BY <1>9, <1>10 DEF Balanced, u

\* Selling token1: what is lacking, or all there is.
LEMMA SecondSold ==
    ASSUME NEW v \in Nat, NEW t \in Nat, NEW b0 \in Nat, NEW b1 \in Nat, NEW A \in Nat,
           NEW B \in Nat, NEW P \in Nat, NEW Q2 \in Nat, NEW S \in Nat,
           Aimed(v, t, b0, b1, A, B, P, Q2, S), v <= t,
           NEW in1 \in Nat, in1 <= b1, in1 <= t - v, in1 = b1 \/ in1 = t - v
    PROVE  Balanced(b0 * P + in1 * Q2, (b1 - in1) * Q2, A, B, P, Q2, S)
<1> DEFINE bp == b0 * P
           iq == in1 * Q2
           bq == b1 * Q2
           vq == v * Q2
           tq == t * Q2
           u == A + B
<1>1. /\ vq * B <= bp * B /\ bp * B <= vq * B + (Q2 + S) * B
      /\ tq * u <= vq * A + bq * A /\ vq * A + bq * A <= tq * u + u * Q2
  BY AimScaled
<1>2. (b1 - in1) * Q2 = bq - iq /\ (t - v) * Q2 = tq - vq
  OBVIOUS
<1>3. bp \in Nat /\ iq \in Nat /\ bq \in Nat /\ vq \in Nat /\ tq \in Nat /\ u \in Nat
  OBVIOUS
<1>4. iq <= tq - vq /\ (iq = bq \/ iq = tq - vq) /\ tq - vq \in Nat
  <2>1. t - v \in Nat /\ in1 * Q2 <= (t - v) * Q2 /\ (t - v) * Q2 \in Nat
    BY TimesGrows
  <2> QED
    BY <1>2, <2>1
<1>5. u = A + B
  OBVIOUS
<1> SUFFICES Balanced(bp + iq, bq - iq, A, B, P, Q2, S)
  BY <1>2
<1> HIDE DEF bp, iq, bq, vq, tq, u
<1>6. (bp + iq) * B = bp * B + iq * B /\ (bq - iq) * A = bq * A - iq * A
  BY <1>3
<1>7. iq * u = iq * A + iq * B /\ (tq - vq) * u = tq * u - vq * A - vq * B
  BY <1>3, <1>5
<1>8. iq * u <= (tq - vq) * u
  BY <1>3, <1>4, TimesGrows
<1>9. /\ bp * B \in Nat /\ iq * B \in Nat /\ iq * A \in Nat /\ bq * A \in Nat /\ iq * u \in Nat
      /\ vq * A \in Nat /\ vq * B \in Nat /\ tq * u \in Nat /\ u * Q2 \in Nat
      /\ u * P \in Nat /\ u * S \in Nat /\ (Q2 + S) * B \in Nat
  BY <1>3
<1>10. (bp + iq) * B + u * Q2 >= (bq - iq) * A
  <2>1. CASE iq = bq
    BY <1>6, <1>9, <2>1
  <2>2. CASE iq = tq - vq
    <3>1. iq * u = (tq - vq) * u
      BY <2>2
    <3> QED
      BY <1>1, <1>6, <1>7, <1>9, <3>1
  <2> QED
    BY <1>4, <2>1, <2>2
<1>11. (bp + iq) * B <= (bq - iq) * A + u * (P + 2 * S + Q2)
  <2>1. u * (P + 2 * S + Q2) = u * P + 2 * (u * S) + u * Q2
    BY <1>3
  <2>2. (Q2 + S) * B <= u * Q2 + u * S
    <3>1. B <= u /\ Q2 + S \in Nat
      BY <1>5
    <3>2. B * (Q2 + S) <= u * (Q2 + S)
      BY <1>3, <3>1, TimesGrows
    <3>3. B * (Q2 + S) = (Q2 + S) * B /\ u * (Q2 + S) = u * Q2 + u * S
      BY <1>3
    <3> QED
      BY <3>2, <3>3
  <2> QED
    BY <1>1, <1>6, <1>7, <1>8, <1>9, <2>1, <2>2
<1> QED
  BY <1>10, <1>11 DEF Balanced, u

\* The price applied twice: each time less than one unit is lost.
LEMMA PricedTwice ==
    ASSUME NEW x \in Nat, NEW p \in Nat \ {0}, NEW q \in Nat \ {0}
    PROVE  LET y == (((x * p) \div q) * p) \div q IN
           y \in Nat /\ y * (q * q) <= x * (p * p) /\ x * (p * p) <= y * (q * q) + q * q + p * q
<1> DEFINE m == (x * p) \div q
           y == (m * p) \div q
<1>1. m \in Nat /\ IsQuotient(m, x * p, q)
  <2>1. x * p \in Nat
    OBVIOUS
  <2> QED
    BY <2>1, Quotients
<1> HIDE DEF m
<1>2. y \in Nat /\ IsQuotient(y, m * p, q)
  <2>1. m * p \in Nat
    BY <1>1
  <2> QED
    BY <2>1, Quotients
<1> HIDE DEF y
<1>3. /\ y * q \in Nat /\ m * q \in Nat /\ y * q <= m * p /\ m * p <= y * q + q
      /\ m * q <= x * p /\ x * p <= m * q + q
  <2>1. (y + 1) * q = y * q + q /\ (m + 1) * q = m * q + q
    BY <1>1, <1>2
  <2> QED
    BY <1>1, <1>2, <2>1 DEF IsQuotient
<1>4. /\ (y * q) * q <= (m * p) * q /\ (m * p) * q <= (y * q + q) * q
      /\ (m * q) * p <= (x * p) * p /\ (x * p) * p <= (m * q + q) * p
  BY <1>1, <1>2, <1>3, TimesGrows
<1>5. /\ (y * q) * q = y * (q * q) /\ (y * q + q) * q = y * (q * q) + q * q
      /\ (m * p) * q = (m * q) * p /\ (m * q + q) * p = (m * q) * p + p * q
      /\ (x * p) * p = x * (p * p)
  BY <1>1, <1>2
<1>6. /\ y * (q * q) \in Nat /\ x * (p * p) \in Nat /\ (m * q) * p \in Nat
      /\ q * q \in Nat /\ p * q \in Nat
  BY <1>1, <1>2
<1>7. y * (q * q) <= x * (p * p) /\ x * (p * p) <= y * (q * q) + q * q + p * q
  BY <1>4, <1>5, <1>6
<1> QED
  BY <1>2, <1>7 DEF y, m

LEMMA LegsSized ==
    ASSUME tick \in Tick, tick \in Int, sqrtP \in Nat, NEW delta \in Delta
    PROVE  LET l == Legs(delta) IN l.sp \in Nat \ {0} /\ l.A \in Nat /\ l.B \in Nat
<1> DEFINE r == resolveTicks(tick, delta, Spacing)
           sa == SqrtRatio[r.lower]
           sb == SqrtRatio[r.upper]
           sp == Clamp(sqrtP, sa, sb)
<1>1. r.lower < r.upper
  BY RangesHold, TicksAssumption
<1>2. r.lower \in DOMAIN SqrtRatio /\ r.upper \in DOMAIN SqrtRatio
  BY RangesAssumption
<1>3. Legs(delta) = [sp |-> sp, A |-> (sp * (sb - sp)) \div sb, B |-> sp - sa]
  BY DEF Legs
<1> HIDE DEF r
<1>4. sa \in Nat \ {0} /\ sb \in Nat \ {0} /\ sa < sb
  BY <1>1, <1>2, TicksAssumption
<1> HIDE DEF sa, sb
<1>5. sp \in Nat \ {0} /\ sa <= sp /\ sp <= sb
  BY <1>4 DEF Clamp
<1> HIDE DEF sp
<1>6. sp - sa \in Nat /\ sb - sp \in Nat
  BY <1>4, <1>5
<1>7. sp * (sb - sp) \in Nat
  BY <1>5, <1>6
<1>8. (sp * (sb - sp)) \div sb \in Nat
  BY <1>4, <1>7, Quotients
<1> QED
  BY <1>3, <1>5, <1>6, <1>8

LEMMA SaleMeetsRatio ==
    ASSUME tick \in Tick, tick \in Int, sqrtP \in Nat, NEW delta \in Delta,
           NEW b0 \in Nat, NEW b1 \in Nat
    PROVE  LET l == Legs(delta)
               s == Sale(l, b0, b1)
               P == l.sp * l.sp
               Q2 == Q96 * Q96
           IN  /\ s.in0 \in Nat /\ s.in1 \in Nat /\ s.in0 <= b0 /\ s.in1 <= b1
               /\ Balanced((b0 - s.in0) * P + s.in1 * Q2, (b1 - s.in1) * Q2 + s.in0 * P,
                           l.A, l.B, P, Q2, l.sp * Q96)
<1> DEFINE l == Legs(delta)
           s == Sale(l, b0, b1)
           sp == l.sp
           A == l.A
           B == l.B
           P == sp * sp
           Q2 == Q96 * Q96
           S == sp * Q96
           v == toToken1(b0, sp)
           t == ((v + b1) * A) \div (A + B)
           z == toToken0(v - t, sp)
           y == t - v
<1>1. sp \in Nat \ {0} /\ A \in Nat /\ B \in Nat /\ Q96 \in Nat \ {0}
  BY LegsSized, TicksAssumption
<1>2. s = CASE A + B = 0 -> [in0 |-> 0, in1 |-> 0]
            [] A + B > 0 /\ v > t -> [in0 |-> Least(z, b0), in1 |-> 0]
            [] OTHER -> [in0 |-> 0, in1 |-> Least(y, b1)]
  BY DEF Sale
<1> HIDE DEF l, s, sp, A, B
<1>3. P \in Nat /\ Q2 \in Nat /\ S \in Nat
  BY <1>1
<1>4. v \in Nat /\ v * Q2 <= b0 * P /\ b0 * P <= v * Q2 + Q2 + S
  BY <1>1, PricedTwice DEF toToken1
<1> HIDE DEF v
<1> SUFFICES /\ s.in0 \in Nat /\ s.in1 \in Nat /\ s.in0 <= b0 /\ s.in1 <= b1
             /\ Balanced((b0 - s.in0) * P + s.in1 * Q2, (b1 - s.in1) * Q2 + s.in0 * P,
                         A, B, P, Q2, S)
  BY DEF l, s, sp, A, B
<1>5. CASE A + B = 0
  <2>1. A = 0 /\ B = 0 /\ s.in0 = 0 /\ s.in1 = 0
    BY <1>1, <1>2, <1>5
  <2> HIDE DEF P, Q2, S
  <2>2. ASSUME NEW x \in Nat, NEW x1 \in Nat PROVE Balanced(x, x1, 0, 0, P, Q2, S)
    BY <1>3, <2>2 DEF Balanced
  <2>3. (b0 - 0) * P + 0 * Q2 \in Nat /\ (b1 - 0) * Q2 + 0 * P \in Nat
    BY <1>3
  <2> QED
    BY <2>1, <2>2, <2>3
<1>6. CASE A + B > 0
  <2>1. A + B \in Nat \ {0} /\ (v + b1) * A \in Nat
    BY <1>1, <1>4, <1>6
  <2>2. t \in Nat /\ IsQuotient(t, (v + b1) * A, A + B)
    BY <2>1, Quotients
  <2> HIDE DEF t
  <2>3. (t + 1) * (A + B) = t * (A + B) + (A + B) /\ t * (A + B) \in Nat
    BY <1>1, <2>2
  <2>4. Aimed(v, t, b0, b1, A, B, P, Q2, S)
    BY <1>4, <2>1, <2>2, <2>3 DEF Aimed, IsQuotient
  <2>5. CASE v > t
    <3>1. s.in0 = Least(z, b0) /\ s.in1 = 0
      BY <1>2, <1>6, <2>5
    <3>2. v - t \in Nat
      BY <1>4, <2>2, <2>5
    <3>3. z \in Nat /\ z * P <= (v - t) * Q2 /\ (v - t) * Q2 <= z * P + P + Q96 * sp
      BY <1>1, <3>2, PricedTwice DEF toToken0
    <3> HIDE DEF z
    <3>4. Q96 * sp = S
      BY <1>1
    <3> DEFINE in0 == s.in0
    <3>5. in0 \in Nat /\ in0 <= b0 /\ in0 <= z /\ (in0 = b0 \/ in0 = z)
      BY <3>1, <3>3 DEF Least
    <3> HIDE DEF in0, P, Q2, S
    <3>6. in0 * P <= z * P /\ in0 * P \in Nat /\ z * P \in Nat /\ (v - t) * Q2 \in Nat
      BY <1>3, <3>2, <3>3, <3>5, TimesGrows
    <3>7. in0 * P <= (v - t) * Q2 /\ (in0 = b0 \/ (v - t) * Q2 <= in0 * P + S + P)
      BY <1>3, <3>3, <3>4, <3>5, <3>6
    <3>8. t <= v
      BY <1>4, <2>2, <2>5
    <3>9. Balanced((b0 - in0) * P, b1 * Q2 + in0 * P, A, B, P, Q2, S)
      BY <1>1, <1>3, <1>4, <2>2, <2>4, <3>5, <3>7, <3>8, FirstSold
    <3>10. /\ (b0 - in0) * P + 0 * Q2 = (b0 - in0) * P
           /\ (b1 - 0) * Q2 + in0 * P = b1 * Q2 + in0 * P
      BY <1>3, <3>5
    <3> QED
      BY <3>1, <3>5, <3>9, <3>10 DEF in0
  <2>6. CASE ~(v > t)
    <3>1. s.in0 = 0 /\ s.in1 = Least(y, b1)
      BY <1>1, <1>2, <1>6, <2>6
    <3>2. v <= t /\ y \in Nat
      BY <1>4, <2>2, <2>6
    <3> DEFINE in1 == s.in1
    <3>3. in1 \in Nat /\ in1 <= b1 /\ in1 <= t - v /\ (in1 = b1 \/ in1 = t - v)
      BY <3>1, <3>2 DEF Least
    <3> HIDE DEF in1, P, Q2, S
    <3>4. Balanced(b0 * P + in1 * Q2, (b1 - in1) * Q2, A, B, P, Q2, S)
      BY <1>1, <1>3, <1>4, <2>2, <2>4, <3>2, <3>3, SecondSold
    <3>5. /\ (b0 - 0) * P + in1 * Q2 = b0 * P + in1 * Q2
          /\ (b1 - in1) * Q2 + 0 * P = (b1 - in1) * Q2
      BY <1>3, <3>3
    <3> QED
      BY <3>1, <3>3, <3>4, <3>5 DEF in1
  <2> QED
    BY <2>5, <2>6
<1> QED
  BY <1>1, <1>5, <1>6

\* The market is where its price is; that is all a range and a sale depend on.
MarketInv == tick \in Tick /\ sqrtP \in PricesAt(tick)

LEMMA MarketPlaced ==
    ASSUME MarketInv
    PROVE  tick \in Int /\ sqrtP \in Nat
<1>1. /\ tick \in DOMAIN SqrtRatio /\ tick \in Int
      /\ SqrtRatio[tick] \in Nat /\ SqrtRatio[tick + 1] \in Nat
  BY TicksAssumption DEF MarketInv
<1>2. sqrtP \in SqrtRatio[tick] .. SqrtRatio[tick + 1] - 1
  BY DEF MarketInv, PricesAt
<1> QED
  BY <1>1, <1>2

LEMMA StepsCompute == ASSUME MarketInv PROVE LpStepsWork
<1>1. tick \in Tick /\ tick \in Int /\ sqrtP \in Nat
  BY MarketPlaced DEF MarketInv
<1>2. RangeHoldsTick
  BY <1>1, RangesHold, TicksAssumption DEF RangeHoldsTick
<1>3. ASSUME NEW delta \in Delta, NEW b0 \in Funds, NEW b1 \in Funds
      PROVE  LET l == Legs(delta)
                 s == Sale(l, b0, b1)
                 value0 == (b0 - s.in0) * l.sp * l.sp + s.in1 * Q96 * Q96
                 value1 == (b1 - s.in1) * Q96 * Q96 + s.in0 * l.sp * l.sp
                 unit == l.A + l.B
             IN /\ s.in0 <= b0 /\ s.in1 <= b1
                /\ value0 * l.B + unit * Q96 * Q96 >= value1 * l.A
                /\ value0 * l.B <= value1 * l.A + unit * (l.sp + Q96) * (l.sp + Q96)
  <2> DEFINE l == Legs(delta)
             s == Sale(l, b0, b1)
             in0 == s.in0
             in1 == s.in1
             sp == l.sp
             A == l.A
             B == l.B
             P == sp * sp
             Q2 == Q96 * Q96
  <2>1. b0 \in Nat /\ b1 \in Nat /\ Q96 \in Nat
    BY TicksAssumption
  <2>2. sp \in Nat /\ A \in Nat /\ B \in Nat
    BY <1>1, LegsSized
  <2>3. /\ in0 \in Nat /\ in1 \in Nat /\ in0 <= b0 /\ in1 <= b1
        /\ Balanced((b0 - in0) * P + in1 * Q2, (b1 - in1) * Q2 + in0 * P, A, B, P, Q2, sp * Q96)
    BY <1>1, <2>1, SaleMeetsRatio
  <2> SUFFICES /\ in0 <= b0 /\ in1 <= b1
               /\ ((b0 - in0) * sp * sp + in1 * Q96 * Q96) * B + (A + B) * Q96 * Q96
                     >= ((b1 - in1) * Q96 * Q96 + in0 * sp * sp) * A
               /\ ((b0 - in0) * sp * sp + in1 * Q96 * Q96) * B
                     <= ((b1 - in1) * Q96 * Q96 + in0 * sp * sp) * A
                          + (A + B) * (sp + Q96) * (sp + Q96)
    OBVIOUS
  <2> HIDE DEF l, s, in0, in1, sp, A, B
  <2>4. b0 - in0 \in Nat /\ b1 - in1 \in Nat /\ A + B \in Nat
    BY <2>1, <2>2, <2>3
  <2>5. ASSUME NEW x \in Nat
        PROVE  /\ x * sp * sp = x * P /\ x * Q96 * Q96 = x * Q2
               /\ x * (sp + Q96) * (sp + Q96) = x * (P + 2 * (sp * Q96) + Q2)
    BY <2>1, <2>2
  <2> HIDE DEF P, Q2
  <2> QED
    BY <2>3, <2>4, <2>5 DEF Balanced
<1>4. RatioMet
  BY ONLY <1>3 DEF RatioMet
<1> QED
  BY <1>2, <1>4 DEF LpStepsWork

LEMMA MarketSteps == ASSUME MarketInv, [LpNext]_lpVars PROVE MarketInv'
<1>1. CASE moveMarket
  BY <1>1 DEF moveMarket, MarketInv, PricesAt
<1>2. CASE UNCHANGED <<tick, sqrtP>>
  BY <1>2 DEF MarketInv, PricesAt
<1>3. moveMarket \/ UNCHANGED <<tick, sqrtP>>
  BY DEF LpNext, swapToRangeRatio, mint, swapStep, increaseLiquidity, decreaseLiquidity,
         collect, accrue, lpVars
<1> QED
  BY <1>1, <1>2, <1>3

\* For every table of ratios that grows, every spacing, width and pair of balances,
\* wherever the market is: the range a mint opens holds the tick and lies on the grid, also
\* below zero, and what the swap before it sells leaves the balances in that range's ratio,
\* never selling more than is held (PancakeSwapV3MintAction.sol,
\* PancakeSwapV3SwapToRangeRatioAction.sol).
THEOREM MintsAndSalesFit == LpSpec => []LpStepsWork
<1>1. LpInit => MarketInv
  BY DEF LpInit, MarketInv, PricesAt
<1>2. MarketInv /\ [LpNext]_lpVars => MarketInv'
  BY MarketSteps
<1>3. MarketInv => LpStepsWork
  BY StepsCompute
<1> QED
  BY <1>1, <1>2, <1>3, PTL DEF LpSpec

(***************************************************************************)
(* The Aave steps.  Collateral and debt are sums over the assets; a step     *)
(* changes one term.  Base units of the step and of the tokens it moves      *)
(* differ by what two divisions drop (BaseAdded), so a balance moved towards *)
(* a goal stops within one base unit past it and one token before it.        *)
(***************************************************************************)

\* Of some finite sets one has the fewest members.
LEMMA FewestOf ==
    ASSUME NEW Bad, Bad # {}, \A S \in Bad : IsFiniteSet(S)
    PROVE  \E S \in Bad : \A x \in S : S \ {x} \notin Bad
<1> DEFINE T == {Cardinality(S) : S \in Bad}
<1>1. T \subseteq Nat /\ T # {}
  BY FS_CardinalityType
<1>2. PICK n \in T : \A m \in T : n <= m
  BY <1>1, LeastOfSet
<1>3. PICK S \in Bad : n = Cardinality(S)
  BY <1>2
<1>4. ASSUME NEW x \in S, S \ {x} \in Bad PROVE FALSE
  <2>1. Cardinality(S \ {x}) = n - 1 /\ n \in Nat
    BY <1>1, <1>3, FS_RemoveElement
  <2>2. n <= Cardinality(S \ {x})
    BY <1>2, <1>4
  <2> QED BY <2>1, <2>2
<1> QED BY <1>4

\* A sum over the parts of a set.
Picked(S) == CHOOSE x \in S : TRUE
SumsUp(g, f, A) ==
    /\ g \in [SUBSET A -> Int] /\ g[{}] = 0
    /\ \A S \in SUBSET A : S # {} => g[S] = f[Picked(S)] + g[S \ {Picked(S)}]

LEMMA PickedIn == ASSUME NEW S, S # {} PROVE Picked(S) \in S
  BY DEF Picked

\* There is one for every finite set: none is the first to lack one.
LEMMA TotalsExist ==
    ASSUME NEW A, IsFiniteSet(A), NEW f \in [A -> Int]
    PROVE  \E g : SumsUp(g, f, A)
<1> DEFINE Sized(k) == {S \in SUBSET A : Cardinality(S) <= k}
           Up(g, k) == /\ g \in [Sized(k) -> Int] /\ g[{}] = 0
                       /\ \A S \in Sized(k) : S # {} => g[S] = f[Picked(S)] + g[S \ {Picked(S)}]
           T == {k \in Nat : ~\E g : Up(g, k)}
<1>1. \A S \in SUBSET A : /\ IsFiniteSet(S) /\ Cardinality(S) \in Nat /\ Cardinality(S) <= Cardinality(A)
                          /\ (Cardinality(S) = 0 <=> S = {})
                          /\ \A x \in S : Cardinality(S \ {x}) = Cardinality(S) - 1
  BY FS_Subset, FS_CardinalityType, FS_EmptySet, FS_RemoveElement
<1>2. Cardinality(A) \in Nat
  BY FS_CardinalityType
<1>3. T = {}
  <2> SUFFICES ASSUME T # {} PROVE FALSE
    OBVIOUS
  <2>1. PICK k \in T : \A m \in T : k <= m
    BY LeastOfSet
  <2>2. CASE k = 0
    <3>1. Sized(0) = {{}}
      BY <1>1
    <3>2. PICK g : g = [S \in Sized(0) |-> 0]
      OBVIOUS
    <3>3. Up(g, 0)
      BY <3>1, <3>2
    <3> QED BY <2>1, <2>2, <3>3
  <2>3. CASE k # 0
    <3>1. k - 1 \in Nat /\ ~(k <= k - 1)
      BY <2>1, <2>3
    <3>2. PICK g : Up(g, k - 1)
      BY <2>1, <3>1
    <3>3. PICK h : h = [S \in Sized(k) |-> IF S = {} THEN 0 ELSE f[Picked(S)] + g[S \ {Picked(S)}]]
      OBVIOUS
    <3>4. \A S \in Sized(k) : S # {} => Picked(S) \in S /\ S \ {Picked(S)} \in Sized(k - 1)
      BY <1>1, <2>1, PickedIn
    <3>5. \A S \in Sized(k - 1) : h[S] = g[S] /\ S \in Sized(k)
      <4>1. \A S \in Sized(k - 1) : S \in Sized(k)
        BY <1>1, <2>1
      <4>2. \A S \in Sized(k) : h[S] = IF S = {} THEN 0 ELSE f[Picked(S)] + g[S \ {Picked(S)}]
        BY <3>3
      <4>3. g[{}] = 0 /\ \A S \in Sized(k - 1) : S # {} => g[S] = f[Picked(S)] + g[S \ {Picked(S)}]
        BY <3>2
      <4> HIDE DEF Sized, Up
      <4> QED BY <4>1, <4>2, <4>3
    <3>6. \A S \in Sized(k) : h[S] \in Int
      BY <3>2, <3>3, <3>4
    <3>7. Up(h, k)
      <4>1. {} \in Sized(k)
        BY <1>1
      <4>2. h \in [Sized(k) -> Int]
        BY <3>3, <3>6
      <4> QED BY <3>3, <3>4, <3>5, <4>1, <4>2
    <3> QED BY <2>1, <3>7
  <2> QED BY <2>2, <2>3
<1>4. PICK g : Up(g, Cardinality(A))
  BY <1>2, <1>3
<1>5. Sized(Cardinality(A)) = SUBSET A
  BY <1>1
<1> QED BY <1>4, <1>5 DEF SumsUp

LEMMA TotalSums ==
    ASSUME NEW f \in [Asset -> Int]
    PROVE  \E g : SumsUp(g, f, Asset) /\ BaseTotal(f) = g[Asset]
<1> DEFINE Sum == CHOOSE g : g = [S \in SUBSET Asset |->
                      IF S = {} THEN 0 ELSE LET x == CHOOSE x \in S : TRUE IN f[x] + g[S \ {x}]]
<1>1. BaseTotal(f) = Sum[Asset]
  BY Zenon DEF BaseTotal, MapThenSumSet, MapThenFoldSet
<1>2. PICK g : SumsUp(g, f, Asset)
  BY TotalsExist, AaveAssumption
<1>3. g = [S \in SUBSET Asset |-> IF S = {} THEN 0 ELSE LET x == CHOOSE x \in S : TRUE IN f[x] + g[S \ {x}]]
  BY <1>2 DEF SumsUp, Picked
<1>4. Sum = [S \in SUBSET Asset |-> IF S = {} THEN 0 ELSE LET x == CHOOSE x \in S : TRUE IN f[x] + Sum[S \ {x}]]
  BY <1>3, Zenon
<1> HIDE DEF Sum
<1>5. \A S \in SUBSET Asset : S = {} => Sum[S] = 0
  BY <1>4
<1>6. \A S \in SUBSET Asset : S # {} => Sum[S] = f[Picked(S)] + Sum[S \ {Picked(S)}]
  BY <1>4 DEF Picked
<1> DEFINE Bad == {S \in SUBSET Asset : Sum[S] # g[S]}
<1>7. Bad = {}
  <2> SUFFICES ASSUME Bad # {} PROVE FALSE
    OBVIOUS
  <2>1. \A S \in Bad : IsFiniteSet(S)
    BY AaveAssumption, FS_Subset
  <2>2. PICK S \in Bad : \A x \in S : S \ {x} \notin Bad
    BY <2>1, FewestOf
  <2>3. S # {}
    BY <1>2, <1>5, <2>2 DEF SumsUp
  <2>4. Picked(S) \in S /\ S \ {Picked(S)} \in SUBSET Asset
    BY <2>2, <2>3, PickedIn
  <2>5. Sum[S \ {Picked(S)}] = g[S \ {Picked(S)}]
    BY <2>2, <2>4
  <2> QED BY <1>2, <1>6, <2>2, <2>3, <2>5 DEF SumsUp
<1> QED BY <1>1, <1>2, <1>7

\* A sum of multiples is the multiple of the sum, but for what one term adds.
LEMMA TotalScaled ==
    ASSUME NEW f \in [Asset -> Int], NEW h \in [Asset -> Int], NEW k \in Int, NEW a \in Asset,
           \A b \in Asset : b # a => h[b] = f[b] * k
    PROVE  BaseTotal(h) = BaseTotal(f) * k + (h[a] - f[a] * k) /\ BaseTotal(f) \in Int /\ BaseTotal(h) \in Int
<1>1. PICK g : SumsUp(g, f, Asset) /\ BaseTotal(f) = g[Asset]
  BY TotalSums
<1>2. PICK e : SumsUp(e, h, Asset) /\ BaseTotal(h) = e[Asset]
  BY TotalSums
<1> DEFINE Extra(S) == IF a \in S THEN h[a] - f[a] * k ELSE 0
           Bad == {S \in SUBSET Asset : e[S] # g[S] * k + Extra(S)}
<1>3. Bad = {}
  <2> SUFFICES ASSUME Bad # {} PROVE FALSE
    OBVIOUS
  <2>1. \A S \in Bad : IsFiniteSet(S)
    BY AaveAssumption, FS_Subset
  <2>2. PICK S \in Bad : \A x \in S : S \ {x} \notin Bad
    BY <2>1, FewestOf
  <2>3. S # {}
    <3>1. Extra({}) = 0 /\ 0 * k = 0 /\ g[{}] = 0 /\ e[{}] = 0
      BY <1>1, <1>2 DEF SumsUp
    <3>2. {} \notin Bad
      BY <3>1
    <3> QED BY <2>2, <3>2
  <2>4. PICK x : x = Picked(S)
    OBVIOUS
  <2>5. x \in S /\ x \in Asset /\ S \ {x} \in SUBSET Asset
    BY <2>2, <2>3, <2>4, PickedIn
  <2>6. e[S \ {x}] = g[S \ {x}] * k + Extra(S \ {x})
    BY <2>2, <2>5
  <2>7. e[S] = h[x] + e[S \ {x}] /\ g[S] = f[x] + g[S \ {x}] /\ g[S \ {x}] \in Int
    BY <1>1, <1>2, <2>2, <2>3, <2>4, <2>5 DEF SumsUp
  <2>8. f[x] \in Int /\ h[x] \in Int /\ f[x] * k \in Int /\ (f[x] + g[S \ {x}]) * k = f[x] * k + g[S \ {x}] * k
        /\ g[S \ {x}] * k \in Int
    BY <2>5, <2>7
  <2>9. CASE x = a
    <3>1. Extra(S \ {x}) = 0 /\ Extra(S) = h[x] - f[x] * k
      BY <2>5, <2>9
    <3> QED BY <2>2, <2>6, <2>7, <2>8, <3>1
  <2>10. CASE x # a
    <3>1. Extra(S \ {x}) = Extra(S) /\ Extra(S) \in Int /\ h[x] = f[x] * k
      BY <2>5, <2>10
    <3> QED BY <2>2, <2>6, <2>7, <2>8, <3>1
  <2> QED BY <2>9, <2>10
<1>4. e[Asset] = g[Asset] * k + Extra(Asset)
  BY <1>3
<1>5. g[Asset] \in Int /\ e[Asset] \in Int
  BY <1>1, <1>2 DEF SumsUp
<1> QED BY <1>1, <1>2, <1>4, <1>5

\* A sum of naturals is one.
LEMMA TotalNatural ==
    ASSUME NEW f \in [Asset -> Nat]
    PROVE  BaseTotal(f) \in Nat
<1>1. PICK g : SumsUp(g, f, Asset) /\ BaseTotal(f) = g[Asset]
  BY TotalSums
<1> DEFINE Bad == {S \in SUBSET Asset : g[S] \notin Nat}
<1>2. Bad = {}
  <2> SUFFICES ASSUME Bad # {} PROVE FALSE
    OBVIOUS
  <2>1. \A S \in Bad : IsFiniteSet(S)
    BY AaveAssumption, FS_Subset
  <2>2. PICK S \in Bad : \A x \in S : S \ {x} \notin Bad
    BY <2>1, FewestOf
  <2>3. S # {}
    <3>1. g[{}] = 0
      BY <1>1 DEF SumsUp
    <3>2. {} \notin Bad
      BY <3>1
    <3> QED BY <2>2, <3>2
  <2>4. Picked(S) \in S /\ S \ {Picked(S)} \in SUBSET Asset
    BY <2>2, <2>3, PickedIn
  <2>5. g[S \ {Picked(S)}] \in Nat
    BY <2>2, <2>4
  <2>6. f[Picked(S)] \in Nat
    BY <2>2, <2>4
  <2> QED BY <1>1, <2>2, <2>3, <2>5, <2>6 DEF SumsUp
<1> QED BY <1>1, <1>2


(***************************************************************************)
(* Amounts of a token and base units.                                      *)
(***************************************************************************)

LEMMA Cancelled ==
    ASSUME NEW x \in Int, NEW y \in Int, NEW z \in Nat \ {0}
    PROVE  (x * z < y * z => x < y) /\ (x * z <= y * z => x <= y)
<1>1. ASSUME NEW u \in Int, NEW w \in Int, u <= w PROVE u * z <= w * z
  <2>1. w - u \in Nat /\ (w - u) * z \in Nat
    BY <1>1
  <2>2. (w - u) * z = w * z - u * z /\ w * z \in Int /\ u * z \in Int
    OBVIOUS
  <2> QED BY <2>1, <2>2
<1>2. x * z \in Int /\ y * z \in Int
  OBVIOUS
<1>3. y <= x => y * z <= x * z
  BY <1>1
<1>4. y + 1 <= x => y * z + z <= x * z
  <2>1. y + 1 \in Int /\ (y + 1) * z = y * z + z
    OBVIOUS
  <2> QED BY <1>1, <2>1
<1>5. x < y \/ y <= x
  OBVIOUS
<1>6. x <= y \/ y + 1 <= x
  OBVIOUS
<1> QED
  BY ONLY <1>2, <1>3, <1>4, <1>5, <1>6, x \in Int, y \in Int, z \in Nat \ {0}

\* What y more tokens add to the base units of s, when y is worth no more than E (in
\* Norms), and when it is the most that is not.
LEMMA BaseAdded ==
    ASSUME NEW s \in Nat, NEW y \in Nat, NEW p \in Nat \ {0}, NEW U \in Nat \ {0},
           NEW N \in Nat \ {0}, NEW E \in Nat, NEW d, d = ((s + y) * p) \div U - (s * p) \div U
    PROVE  /\ d \in Nat
           /\ y * (p * N) <= E * U => N * d < E + N
           /\ y = (E * U) \div (p * N) => /\ y * (p * N) <= E * U
                                          /\ E < N * (d + ((1 * p) \div U + 2))
<1> DEFINE A == s * p
           B == y * p
<1>1. A \in Nat /\ B \in Nat /\ (s + y) * p = A + B /\ 1 * p = p
  OBVIOUS
<1> DEFINE qa == A \div U
           qb == B \div U
           qc == (A + B) \div U
           q1 == p \div U
<1>2. qa \in Nat /\ IsQuotient(qa, A, U)
  BY <1>1, Quotients
<1>3. qb \in Nat /\ IsQuotient(qb, B, U)
  BY <1>1, Quotients
<1>4. qc \in Nat /\ IsQuotient(qc, A + B, U)
  <2>1. PICK z \in Nat : z = A + B
    BY <1>1
  <2> QED BY <2>1, Quotients
<1>5. q1 \in Nat /\ IsQuotient(q1, p, U)
  BY Quotients
<1>6. d = qc - qa
  BY <1>1
<1> HIDE DEF A, B, qa, qb, qc, q1
<1>7. \A x \in Int : x * U \in Int
  OBVIOUS
<1>8. qb <= d
  <2>1. (qa + qb) * U = qa * U + qb * U /\ qa * U \in Int /\ qb * U \in Int /\ (qc + 1) * U \in Int
    BY <1>2, <1>3, <1>4
  <2>2. (qa + qb) * U < (qc + 1) * U
    BY <1>1, <1>2, <1>3, <1>4, <2>1 DEF IsQuotient
  <2>3. qa + qb < qc + 1
    BY <1>2, <1>3, <1>4, <2>2, Cancelled
  <2> QED BY <1>2, <1>3, <1>4, <1>6, <2>3
<1>9. d \in Nat
  BY <1>2, <1>3, <1>4, <1>6, <1>8
<1>10. d * U < B + U
  <2>1. d * U = qc * U - qa * U /\ (qa + 1) * U = qa * U + U /\ qa * U \in Int /\ qc * U \in Int
    BY <1>2, <1>4, <1>6
  <2> QED BY <1>1, <1>2, <1>4, <2>1 DEF IsQuotient
<1>11. ASSUME y * (p * N) <= E * U PROVE N * d < E + N
  <2>1. B * N <= E * U
    <3>1. y * (p * N) = (y * p) * N
      OBVIOUS
    <3> QED BY <1>11, <3>1 DEF B
  <2>2. (d * U) * N < (B + U) * N
    <3>1. d * U \in Nat /\ B + U \in Nat
      BY <1>1, <1>9
    <3> QED BY <1>10, <3>1, TimesGrowsStrictly
  <2>3. (d * U) * N = (N * d) * U /\ (B + U) * N = B * N + N * U /\ (E + N) * U = E * U + N * U
        /\ B * N \in Int /\ N * U \in Int /\ E * U \in Int /\ (N * d) * U \in Int
    BY <1>1, <1>9
  <2>4. (N * d) * U < (E + N) * U
    BY <2>1, <2>2, <2>3
  <2>5. N * d \in Int /\ E + N \in Int
    BY <1>9
  <2> QED BY <2>4, <2>5, Cancelled
<1>12. ASSUME y = (E * U) \div (p * N)
       PROVE  y * (p * N) <= E * U /\ E < N * (d + (q1 + 2))
  <2>1. p * N \in Nat \ {0} /\ E * U \in Nat
    OBVIOUS
  <2>2. IsQuotient(y, E * U, p * N)
    BY <1>12, <2>1, Quotients
  <2>3. E * U < (B + p) * N
    <3>1. (y + 1) * (p * N) = (y * p + p) * N
      OBVIOUS
    <3> QED BY <2>2, <3>1 DEF IsQuotient, B
  <2>4. B + p < (qb + q1 + 2) * U
    <3>1. (qb + 1) * U + (q1 + 1) * U = (qb + q1 + 2) * U /\ (qb + 1) * U \in Int /\ (q1 + 1) * U \in Int
      BY <1>3, <1>5
    <3> QED BY <1>1, <1>3, <1>5, <3>1 DEF IsQuotient
  <2>5. (B + p) * N <= ((qb + q1 + 2) * U) * N
    <3>1. B + p \in Nat /\ (qb + q1 + 2) * U \in Nat
      BY <1>1, <1>3, <1>5
    <3>2. B + p <= (qb + q1 + 2) * U
      BY <2>4, <3>1
    <3> QED BY <3>1, <3>2, TimesGrows
  <2>6. ((qb + q1 + 2) * U) * N = (N * (qb + q1 + 2)) * U /\ N * (qb + q1 + 2) \in Nat
    BY <1>3, <1>5
  <2>7. E * U < (N * (qb + q1 + 2)) * U
    <3>1. E * U \in Int /\ (B + p) * N \in Int /\ (N * (qb + q1 + 2)) * U \in Int
      BY <1>1, <2>6
    <3> QED BY <2>3, <2>5, <2>6, <3>1
  <2>8. E < N * (qb + q1 + 2)
    BY <2>6, <2>7, Cancelled
  <2>9. N * (qb + q1 + 2) <= N * (d + (q1 + 2))
    <3>1. (qb + q1 + 2) * N <= (d + (q1 + 2)) * N
      BY <1>3, <1>5, <1>8, <1>9, TimesGrows
    <3>2. (qb + q1 + 2) * N = N * (qb + q1 + 2) /\ (d + (q1 + 2)) * N = N * (d + (q1 + 2))
      BY <1>3, <1>5, <1>9
    <3> QED BY <3>1, <3>2
  <2>10. N * (d + (q1 + 2)) \in Int
    BY <1>5, <1>9
  <2> QED BY <2>2, <2>6, <2>8, <2>9, <2>10 DEF IsQuotient
<1> QED
  BY <1>1, <1>9, <1>11, <1>12 DEF q1

\* Comparing with a quotient, when what was divided is a multiple.
LEMMA QuotientBounds ==
    ASSUME NEW q \in Nat, NEW X \in Nat, NEW Y \in Nat \ {0}, NEW N \in Nat \ {0},
           IsQuotient(q, N * X, Y), NEW x \in Int
    PROVE  (N * x <= q => x * Y <= X) /\ (N * x > q => x * Y >= X)
<1>1. q * Y <= N * X /\ N * X < (q + 1) * Y
  BY DEF IsQuotient
<1>2. ASSUME NEW u \in Int, NEW w \in Int, u <= w PROVE u * Y <= w * Y
  <2>1. w - u \in Nat /\ (w - u) * Y \in Nat
    BY <1>2
  <2>2. (w - u) * Y = w * Y - u * Y /\ w * Y \in Int /\ u * Y \in Int
    OBVIOUS
  <2> QED BY <2>1, <2>2
<1>3. N * x \in Int /\ (N * x) * Y = (x * Y) * N /\ N * X = X * N /\ x * Y \in Int /\ q + 1 \in Int
      /\ (N * x) * Y \in Int /\ q * Y \in Int /\ (q + 1) * Y \in Int /\ X * N \in Int
  OBVIOUS
<1>4. ASSUME N * x <= q PROVE x * Y <= X
  <2>1. (N * x) * Y <= q * Y
    BY <1>2, <1>3, <1>4
  <2>2. (x * Y) * N <= X * N
    BY <1>1, <1>3, <2>1
  <2> QED BY <1>3, <2>2, Cancelled
<1>5. ASSUME N * x > q PROVE x * Y >= X
  <2>1. q + 1 <= N * x
    BY <1>3, <1>5
  <2>2. (q + 1) * Y <= (N * x) * Y
    BY <1>2, <1>3, <2>1
  <2>3. X * N <= (x * Y) * N
    BY <1>1, <1>3, <2>2
  <2>4. X <= x * Y
    BY <1>3, <2>3, Cancelled
  <2> QED BY <1>3, <2>4
<1> QED BY <1>4, <1>5

\* A balance raised towards a goal G = N * X \div Y by d does not cross it by more than
\* one, and comes as near as T.
LEMMA Raised ==
    ASSUME NEW G \in Nat, NEW X \in Nat, NEW Y \in Nat \ {0}, NEW N \in Nat \ {0},
           IsQuotient(G, N * X, Y), NEW V \in Nat, NEW E, E = Excess(G, N * V), NEW d \in Nat
    PROVE  /\ E > 0 /\ N * d < E + N => (V + d - 1) * Y <= X
           /\ \A T \in Nat : E < N * (d + T) => (V + d + T) * Y >= X
<1>1. N * V \in Nat /\ N * d \in Nat /\ E \in Nat /\ (E > 0 => E = G - N * V) /\ E >= G - N * V
  BY DEF Excess
<1>2. ASSUME E > 0, N * d < E + N PROVE (V + d - 1) * Y <= X
  <2>1. N * (V + d - 1) = N * V + N * d - N
    OBVIOUS
  <2>2. PICK x \in Int : x = V + d - 1
    OBVIOUS
  <2>3. N * x <= G
    BY <1>1, <1>2, <2>1, <2>2
  <2>4. N * x <= G => x * Y <= X
    BY QuotientBounds
  <2> QED BY <2>2, <2>3, <2>4
<1>3. ASSUME NEW T \in Nat, E < N * (d + T) PROVE (V + d + T) * Y >= X
  <2>1. N * (V + d + T) = N * V + N * (d + T) /\ N * (d + T) \in Int
    OBVIOUS
  <2>2. PICK x \in Int : x = V + d + T
    OBVIOUS
  <2>3. N * x > G
    BY <1>1, <1>3, <2>1, <2>2
  <2>4. N * x > G => x * Y >= X
    BY QuotientBounds
  <2> QED BY <2>2, <2>3, <2>4
<1> QED BY <1>2, <1>3

\* And one lowered towards it.
LEMMA Lowered ==
    ASSUME NEW G \in Nat, NEW X \in Nat, NEW Y \in Nat \ {0}, NEW N \in Nat \ {0},
           IsQuotient(G, N * X, Y), NEW V \in Nat, NEW E, E = Excess(N * V, G), NEW d \in Nat
    PROVE  /\ E > 0 /\ N * d < E + N => (V - d + 1) * Y >= X
           /\ \A T \in Nat : E < N * (d + T) => (V - d - T) * Y <= X
<1>1. N * V \in Nat /\ N * d \in Nat /\ E \in Nat /\ (E > 0 => E = N * V - G) /\ E >= N * V - G
  BY DEF Excess
<1>2. ASSUME E > 0, N * d < E + N PROVE (V - d + 1) * Y >= X
  <2>1. N * (V - d + 1) = N * V - N * d + N
    OBVIOUS
  <2>2. PICK x \in Int : x = V - d + 1
    OBVIOUS
  <2>3. N * x > G
    BY <1>1, <1>2, <2>1, <2>2
  <2>4. N * x > G => x * Y >= X
    BY QuotientBounds
  <2> QED BY <2>2, <2>3, <2>4
<1>3. ASSUME NEW T \in Nat, E < N * (d + T) PROVE (V - d - T) * Y <= X
  <2>1. N * (V - d - T) = N * V - N * (d + T) /\ N * (d + T) \in Int
    OBVIOUS
  <2>2. PICK x \in Int : x = V - d - T
    OBVIOUS
  <2>3. N * x <= G
    BY <1>1, <1>3, <2>1, <2>2
  <2>4. N * x <= G => x * Y <= X
    BY QuotientBounds
  <2> QED BY <2>2, <2>3, <2>4
<1> QED BY <1>2, <1>3

---------------------------------------------------------------------------
(* What the pool reports.                                                   *)

LEMMA AaveNumbers ==
    ASSUME AaveTypeOK
    PROVE  /\ Norm \in Nat \ {0} /\ Unit \in Nat \ {0} /\ Bps \in Nat \ {0} /\ Wad \in Nat \ {0}
           /\ \A a \in Asset : /\ price[a] \in Nat \ {0} /\ LT[a] \in Nat \ {0}
                               /\ wallet[a] \in Nat /\ supplied[a] \in Nat /\ owed[a] \in Nat
<1>1. Norm \in Nat \ {0} /\ Unit \in Nat \ {0} /\ Bps \in Nat \ {0} /\ Wad \in Nat \ {0}
  BY AaveAssumption
<1>2. \A a \in Asset : price[a] \in Nat \ {0}
  BY AaveAssumption DEF AaveTypeOK
<1> QED
  BY <1>1, <1>2, AaveAssumption DEF AaveTypeOK

LEMMA BaseNatural ==
    ASSUME AaveTypeOK, NEW a \in Asset, NEW x \in Nat
    PROVE  BaseOf(x, a) \in Nat /\ (x = 0 => BaseOf(x, a) = 0)
<1>1. price[a] \in Nat /\ Unit \in Nat \ {0}
  BY AaveNumbers
<1>2. x * price[a] \in Nat
  BY <1>1
<1>3. BaseOf(x, a) \in Nat
  BY <1>1, <1>2, Quotients DEF BaseOf
<1>4. ASSUME x = 0 PROVE BaseOf(x, a) = 0
  <2>1. x * price[a] = 0
    BY <1>1, <1>4
  <2> QED BY <1>1, <2>1 DEF BaseOf
<1> QED BY <1>3, <1>4

\* The worth of one balance changes the worth of all.
LEMMA WorthChanges ==
    ASSUME AaveTypeOK, NEW s \in [Asset -> Nat], NEW a \in Asset, NEW x \in Nat
    PROVE  /\ Collateral(s) \in Nat /\ Debt(s) = Collateral(s)
           /\ [s EXCEPT ![a] = x] \in [Asset -> Nat]
           /\ Collateral([s EXCEPT ![a] = x]) = Collateral(s) + BaseOf(x, a) - BaseOf(s[a], a)
           /\ Collateral([s EXCEPT ![a] = x]) \in Nat
<1> DEFINE n == [s EXCEPT ![a] = x]
           f == [b \in Asset |-> BaseOf(s[b], b)]
           h == [b \in Asset |-> BaseOf(n[b], b)]
<1>1. n \in [Asset -> Nat] /\ n[a] = x /\ \A b \in Asset : b # a => n[b] = s[b]
  OBVIOUS
<1> HIDE DEF n
<1>2. f \in [Asset -> Nat] /\ h \in [Asset -> Nat]
  BY <1>1, BaseNatural
<1>3. f \in [Asset -> Int] /\ h \in [Asset -> Int] /\ 1 \in Int
  BY <1>2
<1>4. \A b \in Asset : b # a => h[b] = f[b] * 1
  BY <1>1, <1>3
<1>5. f[a] = BaseOf(s[a], a) /\ h[a] = BaseOf(x, a) /\ f[a] \in Int /\ h[a] \in Int
  BY <1>1, <1>3
<1>6. Collateral(s) = BaseTotal(f) /\ Debt(s) = BaseTotal(f) /\ Collateral(n) = BaseTotal(h)
  BY DEF Collateral, Debt
<1> HIDE DEF f, h
<1>7. BaseTotal(f) \in Nat /\ BaseTotal(h) \in Nat
  BY <1>2, TotalNatural
<1>8. BaseTotal(h) = BaseTotal(f) * 1 + (h[a] - f[a] * 1)
  BY <1>3, <1>4, TotalScaled
<1>9. Collateral(n) = Collateral(s) + BaseOf(x, a) - BaseOf(s[a], a)
  BY <1>5, <1>6, <1>7, <1>8
<1> QED
  BY <1>1, <1>6, <1>7, <1>9 DEF n

LEMMA AverageNatural ==
    ASSUME AaveTypeOK, NEW s \in [Asset -> Nat], NEW bps \in [Asset -> Nat], Asset # {}
    PROVE  Average(bps, s) \in Nat
<1> DEFINE h == [b \in Asset |-> BaseOf(s[b], b) * bps[b]]
<1>1. h \in [Asset -> Nat]
  BY BaseNatural
<1>2. Average(bps, s) = IF Collateral(s) = 0 THEN 0 ELSE BaseTotal(h) \div Collateral(s)
  BY DEF Average
<1> HIDE DEF h
<1>3. BaseTotal(h) \in Nat
  BY <1>1, TotalNatural
<1>4. PICK a \in Asset : TRUE
  OBVIOUS
<1>5. Collateral(s) \in Nat
  BY <1>4, WorthChanges
<1>6. Collateral(s) # 0 => BaseTotal(h) \div Collateral(s) \in Nat
  BY <1>3, <1>5, Quotients
<1> QED BY <1>2, <1>6

\* Collateral of one threshold has that on average.
LEMMA AverageOfOne ==
    ASSUME AaveTypeOK, NEW s \in [Asset -> Nat], NEW a \in Asset,
           \A b \in Asset : s[b] > 0 => LT[b] = LT[a], Collateral(s) # 0
    PROVE  Average(LT, s) = LT[a]
<1> DEFINE f == [b \in Asset |-> BaseOf(s[b], b)]
           h == [b \in Asset |-> BaseOf(s[b], b) * LT[b]]
<1>1. LT[a] \in Nat \ {0} /\ LT \in [Asset -> Nat]
  BY AaveAssumption
<1>2. f \in [Asset -> Int] /\ h \in [Asset -> Int]
  BY <1>1, BaseNatural
<1>3. \A b \in Asset : h[b] = f[b] * LT[a]
  <2> SUFFICES ASSUME NEW b \in Asset PROVE h[b] = f[b] * LT[a]
    OBVIOUS
  <2>1. CASE s[b] > 0
    BY <2>1
  <2>2. CASE s[b] = 0
    <3>1. BaseOf(s[b], b) = 0
      BY <2>2, BaseNatural
    <3>2. LT[b] \in Nat
      BY <1>1
    <3> QED BY <1>1, <3>1, <3>2
  <2> QED BY <2>1, <2>2
<1>4. Collateral(s) = BaseTotal(f) /\ Average(LT, s) = BaseTotal(h) \div Collateral(s)
  BY DEF Collateral, Average
<1>5. f[a] \in Int /\ h[a] = f[a] * LT[a]
  BY <1>2, <1>3
<1> HIDE DEF f, h
<1>6. BaseTotal(h) = BaseTotal(f) * LT[a] + (h[a] - f[a] * LT[a])
  <2>1. PICK k \in Int : k = LT[a]
    BY <1>1
  <2>2. \A b \in Asset : b # a => h[b] = f[b] * k
    BY <1>3, <2>1
  <2>3. BaseTotal(h) = BaseTotal(f) * k + (h[a] - f[a] * k)
    BY <1>2, <2>2, TotalScaled
  <2> QED BY <2>1, <2>3
<1>7. Collateral(s) \in Nat \ {0}
  BY WorthChanges
<1>8. BaseTotal(h) = LT[a] * Collateral(s)
  BY <1>1, <1>4, <1>5, <1>6, <1>7
<1>9. (LT[a] * Collateral(s)) \div Collateral(s) = LT[a]
  <2>1. PICK c \in Nat \ {0} : c = Collateral(s)
    BY <1>7
  <2>2. \A x \in Nat : (x * c) \div c = x
    <3> TAKE x \in Nat
    <3>1. x * c \in Nat
      OBVIOUS
    <3> DEFINE q == (x * c) \div c
    <3>2. q \in Nat /\ IsQuotient(q, x * c, c)
      BY <3>1, Quotients
    <3> HIDE DEF q
    <3>3. q * c <= x * c /\ x * c < (q + 1) * c
      BY <3>2 DEF IsQuotient
    <3>4. q <= x /\ x < q + 1
      BY <3>2, <3>3, Cancelled
    <3> QED BY <3>2, <3>4 DEF q
  <2> QED BY <1>1, <2>1, <2>2
<1> QED BY <1>4, <1>8, <1>9

LEMMA TokensMoved ==
    ASSUME AaveTypeOK, NEW a \in Asset, NEW x \in Nat, NEW y \in Nat, NEW E \in Nat, y <= baseToToken(E, a),
           NEW d, d = BaseOf(x + y, a) - BaseOf(x, a)
    PROVE  /\ d \in Nat /\ Norm * d < E + Norm
           /\ y = baseToToken(E, a) => E < Norm * (d + (BaseOf(1, a) + 2))
           /\ y > 0 => E > 0
<1>1. PICK p \in Nat \ {0} : p = price[a]
  BY AaveNumbers
<1>2. Unit \in Nat \ {0} /\ Norm \in Nat \ {0} /\ p * Norm \in Nat \ {0} /\ E * Unit \in Nat
  <2>1. Unit \in Nat \ {0} /\ Norm \in Nat \ {0}
    BY AaveNumbers
  <2> QED BY <2>1
<1> DEFINE q == (E * Unit) \div (p * Norm)
<1>3. q \in Nat /\ IsQuotient(q, E * Unit, p * Norm) /\ baseToToken(E, a) = q
  BY <1>1, <1>2, Quotients DEF baseToToken
<1> HIDE DEF q
<1>4. y * (p * Norm) <= E * Unit
  <2>1. y * (p * Norm) <= q * (p * Norm) /\ q * (p * Norm) \in Nat
    BY <1>2, <1>3, TimesGrows
  <2>2. y * (p * Norm) \in Nat
    BY <1>2, TimesGrows
  <2> QED BY <1>2, <1>3, <2>1, <2>2 DEF IsQuotient
<1>5. d = ((x + y) * p) \div Unit - (x * p) \div Unit /\ BaseOf(1, a) = (1 * p) \div Unit
  BY <1>1 DEF BaseOf
<1>6. d \in Nat /\ Norm * d < E + Norm
  BY <1>2, <1>4, <1>5, BaseAdded
<1>7. y = baseToToken(E, a) => E < Norm * (d + (BaseOf(1, a) + 2))
  BY <1>2, <1>3, <1>5, BaseAdded DEF q
<1>8. ASSUME E = 0 PROVE y = 0
  <2>1. y * (p * Norm) <= 0 * (p * Norm)
    BY <1>2, <1>4, <1>8
  <2>2. y <= 0
    BY <1>2, <2>1, Cancelled
  <2> QED BY <2>2
<1> QED BY <1>6, <1>7, <1>8

LEMMA TokensNatural ==
    ASSUME AaveTypeOK, NEW a \in Asset, NEW E \in Nat
    PROVE  baseToToken(E, a) \in Nat /\ (E = 0 => baseToToken(E, a) = 0)
<1>1. PICK p \in Nat \ {0} : p = price[a]
  BY AaveNumbers
<1>2. Unit \in Nat \ {0} /\ Norm \in Nat \ {0}
  BY AaveNumbers
<1>3. p * Norm \in Nat \ {0} /\ E * Unit \in Nat /\ (E = 0 => E * Unit = 0)
  BY <1>2
<1> DEFINE q == (E * Unit) \div (p * Norm)
<1>4. q \in Nat /\ IsQuotient(q, E * Unit, p * Norm) /\ baseToToken(E, a) = q
  BY <1>1, <1>3, Quotients DEF baseToToken
<1>5. ASSUME E = 0 PROVE q = 0
  <2>1. \A z \in Nat \ {0} : 0 \div z = 0
    OBVIOUS
  <2> QED BY <1>3, <1>5, <2>1
<1> QED BY <1>4, <1>5

LEMMA HaircutLess ==
    ASSUME NEW m \in Nat
    PROVE  /\ applyHaircut(m) \in Nat /\ applyHaircut(m) <= m
           /\ \A n \in Nat : m * HaircutBps >= n * Bps => applyHaircut(m) <= m - n
<1>1. Bps \in Nat \ {0} /\ HaircutBps \in Nat /\ Bps - HaircutBps \in Nat
  BY AaveAssumption
<1>2. m * (Bps - HaircutBps) \in Nat
  BY <1>1
<1> DEFINE q == (m * (Bps - HaircutBps)) \div Bps
<1>3. q \in Nat /\ IsQuotient(q, m * (Bps - HaircutBps), Bps)
  BY <1>1, <1>2, Quotients
<1> HIDE DEF q
<1>4. m * (Bps - HaircutBps) = m * Bps - m * HaircutBps /\ m * Bps \in Nat /\ m * HaircutBps \in Nat
  BY <1>1
<1>5. q * Bps <= m * Bps - m * HaircutBps /\ q * Bps \in Nat
  BY <1>1, <1>3, <1>4 DEF IsQuotient
<1>6. \A n \in Nat : m * HaircutBps >= n * Bps => q <= m - n
  <2> SUFFICES ASSUME NEW n \in Nat, m * HaircutBps >= n * Bps PROVE q <= m - n
    OBVIOUS
  <2>1. (m - n) * Bps = m * Bps - n * Bps /\ n * Bps \in Nat /\ m - n \in Int
    BY <1>1
  <2>2. q * Bps <= (m - n) * Bps
    BY <1>4, <1>5, <2>1
  <2> QED BY <1>1, <1>3, <2>1, <2>2, Cancelled
<1>7. 0 * Bps = 0
  BY <1>1
<1>8. q <= m
  BY <1>3, <1>4, <1>6, <1>7
<1> QED
  BY <1>3, <1>6, <1>8 DEF q, applyHaircut

LEMMA BorrowFits ==
    ASSUME AaveTypeOK, NEW a \in Asset, NEW y \in Nat, NEW E \in Nat, y <= baseToToken(E, a),
           BorrowLimit \in Nat, BorrowLimit > Debt(owed), E <= Norm * (BorrowLimit - Debt(owed))
    PROVE  Debt([owed EXCEPT ![a] = @ + y]) <= BorrowLimit
<1> DEFINE d == BaseOf(owed[a] + y, a) - BaseOf(owed[a], a)
           v == BorrowLimit - Debt(owed)
<1>1. owed \in [Asset -> Nat] /\ owed[a] \in Nat /\ owed[a] + y \in Nat /\ Norm \in Nat \ {0}
  BY AaveNumbers DEF AaveTypeOK
<1>2. d \in Nat /\ Norm * d < E + Norm
  BY <1>1, TokensMoved
<1>3. /\ Debt(owed) \in Nat /\ Debt([owed EXCEPT ![a] = owed[a] + y]) = Collateral([owed EXCEPT ![a] = owed[a] + y])
      /\ Collateral([owed EXCEPT ![a] = owed[a] + y]) = Collateral(owed) + BaseOf(owed[a] + y, a) - BaseOf(owed[a], a)
      /\ Debt(owed) = Collateral(owed)
  BY <1>1, WorthChanges
<1>4. BaseOf(owed[a] + y, a) \in Nat /\ BaseOf(owed[a], a) \in Nat
  BY <1>1, BaseNatural
<1>5. Debt([owed EXCEPT ![a] = @ + y]) = Debt(owed) + d
  BY <1>3, <1>4
<1>6. v \in Nat
  BY <1>3
<1> HIDE DEF d, v
<1>7. d < v + 1
  <2>1. Norm * v + Norm = (v + 1) * Norm /\ d * Norm = Norm * d /\ Norm * v \in Nat /\ v + 1 \in Int
        /\ Norm * d \in Nat
    BY <1>1, <1>2, <1>6
  <2>2. E + Norm <= Norm * v + Norm
    BY <1>1, <2>1 DEF v
  <2>3. d * Norm < (v + 1) * Norm
    BY <1>1, <1>2, <2>1, <2>2
  <2> QED BY <1>1, <1>2, <1>6, <2>3, Cancelled
<1> QED BY <1>2, <1>3, <1>5, <1>6, <1>7 DEF v

\* The goals of the modes as quotients.
LEMMA Goals ==
    ASSUME AaveTypeOK, Asset # {},
           NEW C, C = Collateral(supplied), NEW D, D = Debt(owed), NEW L, L = Average(LT, supplied)
    PROVE  /\ C \in Nat /\ D \in Nat /\ L \in Nat
           /\ C * L * Wad \in Nat /\ D * Bps \in Nat
           /\ L # 0 => collateralFloor \in Nat /\ IsQuotient(collateralFloor, Norm * (D * Bps), L)
           /\ \A t \in Nat \ {0} :
                /\ Bps * t \in Nat \ {0} /\ t * D * Bps \in Nat
                /\ targetDebtBase(t) \in Nat /\ IsQuotient(targetDebtBase(t), Norm * (C * L * Wad), Bps * t)
                /\ L # 0 => /\ L * Wad \in Nat \ {0} /\ targetCollateralBase(t) \in Nat
                            /\ IsQuotient(targetCollateralBase(t), Norm * (t * D * Bps), L * Wad)
                /\ L = 0 => targetCollateralBase(t) = 0
<1>1. PICK a \in Asset : TRUE
  OBVIOUS
<1>2. Norm \in Nat \ {0} /\ Bps \in Nat \ {0} /\ Wad \in Nat \ {0}
  BY AaveNumbers
<1>3. supplied \in [Asset -> Nat] /\ owed \in [Asset -> Nat] /\ LT \in [Asset -> Nat]
  BY AaveAssumption DEF AaveTypeOK
<1>4. C \in Nat /\ D \in Nat
  BY <1>1, <1>3, WorthChanges
<1>5. L \in Nat
  BY <1>3, AverageNatural
<1>6. C * L * Wad \in Nat /\ D * Bps \in Nat
  BY <1>2, <1>4, <1>5
<1>7. ASSUME L # 0 PROVE collateralFloor \in Nat /\ IsQuotient(collateralFloor, Norm * (D * Bps), L)
  <2>1. Norm * D * Bps = Norm * (D * Bps) /\ Norm * (D * Bps) \in Nat
    BY <1>2, <1>4
  <2>2. collateralFloor = (Norm * (D * Bps)) \div L
    BY <2>1 DEF collateralFloor
  <2> QED BY <1>5, <1>7, <2>1, <2>2, Quotients
<1>8. ASSUME NEW t \in Nat \ {0}
      PROVE  /\ Bps * t \in Nat \ {0} /\ t * D * Bps \in Nat
             /\ targetDebtBase(t) \in Nat /\ IsQuotient(targetDebtBase(t), Norm * (C * L * Wad), Bps * t)
             /\ L # 0 => /\ L * Wad \in Nat \ {0} /\ targetCollateralBase(t) \in Nat
                         /\ IsQuotient(targetCollateralBase(t), Norm * (t * D * Bps), L * Wad)
             /\ L = 0 => targetCollateralBase(t) = 0
  <2>1. Bps * t \in Nat \ {0} /\ t * D * Bps \in Nat
    BY <1>2, <1>4
  <2>2. Norm * C * L * Wad = Norm * (C * L * Wad) /\ Norm * (C * L * Wad) \in Nat
    BY <1>2, <1>4, <1>5
  <2>3. targetDebtBase(t) = (Norm * (C * L * Wad)) \div (Bps * t)
    BY <2>2 DEF targetDebtBase
  <2>4. targetDebtBase(t) \in Nat /\ IsQuotient(targetDebtBase(t), Norm * (C * L * Wad), Bps * t)
    BY <2>1, <2>2, <2>3, Quotients
  <2>5. ASSUME L # 0
        PROVE  /\ L * Wad \in Nat \ {0} /\ targetCollateralBase(t) \in Nat
               /\ IsQuotient(targetCollateralBase(t), Norm * (t * D * Bps), L * Wad)
    <3>1. L * Wad \in Nat \ {0}
      BY <1>2, <1>5, <2>5
    <3>2. t * Norm * D * Bps = Norm * (t * D * Bps) /\ Norm * (t * D * Bps) \in Nat
      BY <1>2, <1>4
    <3>3. targetCollateralBase(t) = (Norm * (t * D * Bps)) \div (L * Wad)
      BY <2>5, <3>2 DEF targetCollateralBase
    <3> QED BY <3>1, <3>2, <3>3, Quotients
  <2>6. L = 0 => targetCollateralBase(t) = 0
    BY DEF targetCollateralBase
  <2> QED BY <2>1, <2>4, <2>5, <2>6
<1> QED BY <1>4, <1>5, <1>6, <1>7, <1>8

\* A withdrawal that leaves one base unit above health factor 1 is accepted.
LEMMA StaysHealthy ==
    ASSUME AaveTypeOK, NEW a \in Asset, NEW y \in 1 .. supplied[a], NEW E \in Nat, y <= baseToToken(E, a),
           Average(LT, supplied) # 0, OneThreshold("withdraw", a),
           E <= Norm * Collateral(supplied) - collateralFloor - Norm
    PROVE  Healthy([supplied EXCEPT ![a] = @ - y], owed)
<1> DEFINE C == Collateral(supplied)
           D == Debt(owed)
           L == Average(LT, supplied)
           F == collateralFloor
           s == [supplied EXCEPT ![a] = supplied[a] - y]
           x == supplied[a] - y
           d == BaseOf(x + y, a) - BaseOf(x, a)
<1>1. supplied \in [Asset -> Nat] /\ supplied[a] \in Nat /\ Norm \in Nat \ {0} /\ Bps \in Nat \ {0}
  BY AaveNumbers DEF AaveTypeOK
<1>2. x \in Nat /\ x + y = supplied[a] /\ y \in Nat
  BY <1>1
<1>3. d \in Nat /\ Norm * d < E + Norm
  BY <1>2, TokensMoved
<1>4. C \in Nat /\ D \in Nat /\ L \in Nat /\ D * Bps \in Nat /\ F \in Nat /\ IsQuotient(F, Norm * (D * Bps), L)
  BY Goals
<1>5. s \in [Asset -> Nat] /\ Collateral(s) = C + BaseOf(x, a) - BaseOf(supplied[a], a) /\ Collateral(s) \in Nat
  BY <1>1, <1>2, WorthChanges
<1>6. BaseOf(x, a) \in Nat /\ BaseOf(supplied[a], a) \in Nat
  BY <1>1, <1>2, BaseNatural
<1>7. Collateral(s) = C - d
  BY <1>2, <1>4, <1>5, <1>6
<1>8. C # 0
  BY DEF Average
<1>9. L = LT[a] /\ \A b \in Asset : supplied[b] > 0 => LT[b] = LT[a]
  <2>1. \A b \in Asset : supplied[b] > 0 => LT[b] = LT[a]
    BY DEF OneThreshold
  <2> QED BY <1>1, <1>8, <2>1, AverageOfOne
<1> HIDE DEF C, D, L, F, d
<1>10. Norm * (C - d) > F
  <2>1. Norm * (C - d) = Norm * C - Norm * d /\ Norm * C \in Nat /\ Norm * d \in Nat
    BY <1>1, <1>3, <1>4
  <2> QED BY <1>1, <1>3, <1>4, <2>1 DEF C, F
<1>11. (C - d) * L >= D * Bps
  <2>1. L \in Nat \ {0} /\ C - d \in Int
    BY <1>3, <1>4 DEF L
  <2> QED BY <1>1, <1>4, <1>10, <2>1, QuotientBounds
<1>12. Collateral(s) # 0
  <2>1. C - d = 0 => Norm * (C - d) = 0
    BY <1>1
  <2> QED BY <1>4, <1>7, <1>10, <2>1
<1>13. Average(LT, s) = LT[a]
  <2>1. \A b \in Asset : s[b] > 0 => LT[b] = LT[a]
    <3> SUFFICES ASSUME NEW b \in Asset, s[b] > 0, b # a PROVE LT[b] = LT[a]
      OBVIOUS
    <3>1. s[b] = supplied[b]
      BY <1>1
    <3> QED BY <1>9, <3>1
  <2> HIDE DEF s
  <2> QED BY <1>5, <1>12, <2>1, AverageOfOne
<1>14. Collateral(s) * Average(LT, s) >= Debt(owed) * Bps
  BY <1>7, <1>9, <1>11, <1>13 DEF D
<1> QED BY <1>14 DEF Healthy

\* What a mode asks for.
LEMMA ModeKinds ==
    /\ \A m \in Mode : m.mode \in {"fixed", "max", "target"}
    /\ \A m \in Mode : m.mode = "fixed" => m.value \in Nat
    /\ \A m \in Mode : m.mode = "max" => m = Maximum
    /\ \A m \in Mode : m.mode = "target" => m.value \in Target /\ m # Maximum
    /\ Maximum \in Mode /\ ToTarget \subseteq Mode /\ Maximum.mode = "max"
    /\ \A m \in ToTarget : m.mode = "target"
BY AaveAssumption DEF Mode, Fixed, ToTarget, Maximum

LEMMA TargetsAbove ==
    ASSUME NEW m \in Mode, m.mode = "target", ~Refused(m)
    PROVE  m.value \in Nat \ {0}
<1>1. PICK t \in Target : t = m.value
  BY ModeKinds
<1>2. t \in Nat /\ MinTargetHF \in Nat /\ ~(t <= MinTargetHF)
  BY <1>1, AaveAssumption DEF Refused
<1> QED BY <1>1, <1>2

LEMMA MaximumAsks ==
    ASSUME NEW a
    PROVE  /\ resolveAmount("supply", a, Maximum) = wallet[a]
           /\ resolveAmount("withdraw", a, Maximum) = maxWithdraw(a)
           /\ resolveAmount("borrow", a, Maximum) = maxBorrow(a)
           /\ resolveAmount("repay", a, Maximum) = maxRepay(a)
BY DEF resolveAmount, Maximum

LEMMA TargetAsks ==
    ASSUME NEW a, NEW m \in Mode, m.mode = "target"
    PROVE  /\ resolveAmount("supply", a, m) = targetHfSupply(a, m.value)
           /\ resolveAmount("withdraw", a, m) = targetHfWithdraw(a, m.value)
           /\ resolveAmount("borrow", a, m) = targetHfBorrow(a, m.value)
           /\ resolveAmount("repay", a, m) = targetHfRepay(a, m.value)
BY ModeKinds DEF resolveAmount

LEMMA LowerOf ==
    ASSUME NEW x \in Nat, NEW y \in Nat
    PROVE  Lower(x, y) \in Nat /\ Lower(x, y) <= x /\ Lower(x, y) <= y /\ Lower(x, y) \in {x, y}
BY DEF Lower

LEMMA ExcessOf ==
    ASSUME NEW x \in Nat, NEW y \in Nat
    PROVE  /\ Excess(x, y) \in Nat /\ Excess(x, y) >= x - y /\ Excess(x, y) <= x
           /\ (Excess(x, y) > 0 => Excess(x, y) = x - y) /\ (x <= y => Excess(x, y) = 0)
BY DEF Excess

\* The amounts that are sized by the oracle, and the base units they are sized by.
LEMMA AvailableOf ==
    ASSUME AaveTypeOK, Asset # {}
    PROVE  /\ BorrowLimit \in Nat /\ Available \in Nat
           /\ Available # 0 => BorrowLimit > Debt(owed) /\ Available = BorrowLimit - Debt(owed)
           /\ BorrowLimit > Debt(owed) => Available = BorrowLimit - Debt(owed)
<1>1. Average(LTV, supplied) \in Nat
  BY AverageNatural, AaveAssumption DEF AaveTypeOK
<1>2. Collateral(supplied) \in Nat /\ Debt(owed) \in Nat /\ Bps \in Nat \ {0}
  BY Goals, AaveNumbers
<1>3. Collateral(supplied) * Average(LTV, supplied) \in Nat
  BY <1>1, <1>2
<1>4. BorrowLimit \in Nat
  BY <1>2, <1>3, Quotients DEF BorrowLimit
<1> QED BY <1>2, <1>4 DEF Available

\* What a maximal withdrawal is sized by.
LEMMA SafeBase ==
    ASSUME AaveTypeOK, Asset # {}
    PROVE  /\ maxSafeWithdrawBase \in Nat
           /\ maxSafeWithdrawBase # 0 =>
                /\ Average(LT, supplied) # 0
                /\ ~DustMargin => maxSafeWithdrawBase <= Norm * Collateral(supplied) - collateralFloor - Norm
<1> DEFINE C == Collateral(supplied)
           F == collateralFloor
           M == Norm * C - F
<1>1. C \in Nat /\ Norm \in Nat \ {0} /\ Norm * C \in Nat
      /\ (Average(LT, supplied) # 0 => F \in Nat)
  <2>1. C \in Nat /\ Norm \in Nat \ {0} /\ (Average(LT, supplied) # 0 => F \in Nat)
    BY Goals, AaveNumbers
  <2> QED BY <2>1
<1>2. CASE Average(LT, supplied) = 0 \/ Norm * C <= F
  BY <1>2 DEF maxSafeWithdrawBase
<1>3. CASE Average(LT, supplied) # 0 /\ ~(Norm * C <= F)
  <2>1. M \in Nat /\ maxSafeWithdrawBase = applyHaircut(M)
    BY <1>1, <1>3 DEF maxSafeWithdrawBase
  <2>2. applyHaircut(M) \in Nat /\ \A n \in Nat : M * HaircutBps >= n * Bps => applyHaircut(M) <= M - n
    BY <2>1, HaircutLess
  <2>3. ASSUME ~DustMargin PROVE M * HaircutBps >= Norm * Bps
    <3>1. HaircutBps \in Nat /\ Bps \in Nat
      BY AaveAssumption
    <3>2. M * HaircutBps \in Nat /\ Norm * Bps \in Nat
      BY <1>1, <2>1, <3>1
    <3>3. ~(M * HaircutBps < Norm * Bps)
      BY <2>3 DEF DustMargin
    <3> QED BY <3>2, <3>3
  <2> HIDE DEF M
  <2>4. ~DustMargin => maxSafeWithdrawBase <= M - Norm
    BY <1>1, <2>1, <2>2, <2>3
  <2> QED BY <1>3, <2>1, <2>2, <2>4 DEF M
<1> QED BY <1>2, <1>3

\* Amounts are naturals, or everything.
LEMMA Resolved ==
    ASSUME AaveTypeOK, NEW op \in Op, NEW a \in Asset, NEW m \in Mode, ~Refused(m)
    PROVE  resolveAmount(op, a, m) \in Nat \cup {All} /\ (op \in {"supply", "borrow"} => resolveAmount(op, a, m) \in Nat)
<1>1. wallet[a] \in Nat /\ supplied[a] \in Nat /\ owed[a] \in Nat /\ Norm \in Nat \ {0}
  BY AaveNumbers
<1>2. Collateral(supplied) \in Nat /\ Debt(owed) \in Nat
  BY Goals
<1>3. Norm * Collateral(supplied) \in Nat /\ Norm * Debt(owed) \in Nat
  BY <1>1, <1>2
<1>4. CASE m.mode = "fixed"
  BY <1>4, ModeKinds DEF resolveAmount
<1>5. CASE m = Maximum
  <2>1. maxWithdraw(a) \in Nat \cup {All}
    BY <1>1, SafeBase, TokensNatural, LowerOf DEF maxWithdraw
  <2>2. maxBorrow(a) \in Nat
    <3>1. Norm * Available \in Nat
      BY <1>1, AvailableOf
    <3> QED BY <3>1, HaircutLess, TokensNatural DEF maxBorrow
  <2>3. maxRepay(a) \in Nat \cup {All}
    BY <1>1 DEF maxRepay
  <2> QED BY <1>1, <1>5, <2>1, <2>2, <2>3, MaximumAsks DEF Op
<1>6. CASE m.mode = "target"
  <2> DEFINE t == m.value
  <2>1. t \in Nat \ {0}
    BY <1>6, TargetsAbove
  <2>2. targetDebtBase(t) \in Nat /\ targetCollateralBase(t) \in Nat
    BY <2>1, Goals
  <2>3. targetHfSupply(a, t) \in Nat /\ targetHfWithdraw(a, t) \in Nat
    BY <1>1, <1>3, <2>2, ExcessOf, TokensNatural, LowerOf DEF targetHfSupply, targetHfWithdraw
  <2>4. targetHfBorrow(a, t) \in Nat /\ targetHfRepay(a, t) \in Nat
    BY <1>1, <1>3, <2>2, ExcessOf, TokensNatural, LowerOf DEF targetHfBorrow, targetHfRepay
  <2> HIDE DEF t
  <2> QED BY <1>6, <2>3, <2>4, TargetAsks DEF t, Op
<1> QED BY <1>4, <1>5, <1>6, ModeKinds

\* What a step moves when it does not revert.
LEMMA Executed ==
    ASSUME AaveTypeOK, NEW op \in Op, NEW a \in Asset, NEW m \in Mode, execute(op, a, m).ok,
           NEW x, x = resolveAmount(op, a, m), NEW y, y = execute(op, a, m).moved
    PROVE  /\ ~Refused(m) /\ x \in Nat \cup {All} /\ y \in Nat
           /\ op = "supply" => y = x /\ y <= wallet[a]
           /\ op = "withdraw" => y <= supplied[a] /\ (x # All => y = x)
           /\ op = "borrow" => y = x
           /\ op = "repay" => y <= wallet[a] /\ y <= owed[a] /\ (x # All => y = Lower(x, owed[a]))
<1>1. wallet[a] \in Nat /\ supplied[a] \in Nat /\ owed[a] \in Nat
  BY AaveNumbers
<1>2. ~Refused(m)
  BY DEF execute, Reverts
<1>3. x \in Nat \cup {All} /\ (op \in {"supply", "borrow"} => x \in Nat) /\ All \notin Nat /\ All # 0
  BY <1>2, Resolved DEF All
<1>4. CASE x = 0
  <2>1. y = 0
    BY <1>2, <1>4 DEF execute, Moves
  <2>2. Lower(0, owed[a]) = 0
    BY <1>1 DEF Lower
  <2> QED BY <1>1, <1>2, <1>3, <1>4, <2>1, <2>2
<1>5. CASE x # 0
  <2>1. execute(op, a, m) = pool(op, a, x)
    BY <1>2, <1>5 DEF execute
  <2>2. CASE op = "supply"
    <3>1. x \in 1 .. wallet[a] /\ y = x
      BY <2>1, <2>2 DEF pool, poolSupply, Moves, Reverts
    <3> QED BY <1>1, <1>2, <2>2, <3>1
  <2>3. CASE op = "withdraw"
    <3> DEFINE out == IF x = All THEN supplied[a] ELSE x
    <3>1. out \in 1 .. supplied[a] /\ y = out
      BY <2>1, <2>3 DEF pool, poolWithdraw, Moves, Reverts
    <3> QED BY <1>1, <1>2, <1>3, <2>3, <3>1
  <2>4. CASE op = "borrow"
    <3>1. y = x
      BY <2>1, <2>4 DEF pool, poolBorrow, Moves, Reverts
    <3> QED BY <1>2, <1>3, <2>4, <3>1
  <2>5. CASE op = "repay"
    <3> DEFINE in == IF x = All THEN owed[a] ELSE Lower(x, owed[a])
    <3>1. in \in 1 .. wallet[a] /\ y = in
      BY <2>1, <2>5 DEF pool, poolRepay, Moves, Reverts
    <3>2. in <= owed[a]
      BY <1>1, <1>3, LowerOf
    <3> QED BY <1>1, <1>2, <1>3, <2>5, <3>1, <3>2
  <2> QED BY <2>2, <2>3, <2>4, <2>5 DEF Op
<1> QED BY <1>4, <1>5

LEMMA WithdrawsSafely ==
    ASSUME AaveTypeOK, NEW a \in Asset, NEW m \in Mode, m = Maximum \/ m.mode = "target"
    PROVE  execute("withdraw", a, m).ok \/ NamedRevert("withdraw", a, m)
<1> SUFFICES ASSUME ~NamedRevert("withdraw", a, m) PROVE execute("withdraw", a, m).ok
  OBVIOUS
<1> DEFINE x == resolveAmount("withdraw", a, m)
<1>1. ~Refused(m) /\ OneThreshold("withdraw", a)
  BY DEF NamedRevert
<1>2. wallet[a] \in Nat /\ supplied[a] \in Nat /\ Norm \in Nat \ {0} /\ Debt(owed) \in Nat /\ Collateral(supplied) \in Nat
  BY AaveNumbers, Goals
<1>3. execute("withdraw", a, m) = IF x = 0 THEN Moves(0) ELSE poolWithdraw(a, x)
  BY <1>1 DEF execute, pool
<1>4. Moves(0).ok
  BY DEF Moves
\* An amount that is sized by E.
<1>5. ASSUME NEW E \in Nat, x = Lower(supplied[a], baseToToken(E, a)),
             E # 0 => /\ Average(LT, supplied) # 0
                      /\ E <= Norm * Collateral(supplied) - collateralFloor - Norm
      PROVE  execute("withdraw", a, m).ok
  <2>1. baseToToken(E, a) \in Nat /\ (E = 0 => baseToToken(E, a) = 0)
    BY TokensNatural
  <2>2. x \in Nat /\ x <= supplied[a] /\ x <= baseToToken(E, a)
    BY <1>2, <1>5, <2>1, LowerOf
  <2> HIDE DEF x
  <2>3. CASE x # 0
    <3>1. x \in 1 .. supplied[a] /\ E # 0 /\ x # All
      BY <1>2, <2>1, <2>2, <2>3 DEF All
    <3>2. Healthy([supplied EXCEPT ![a] = @ - x], owed)
      BY <1>1, <1>5, <2>2, <3>1, StaysHealthy
    <3> QED BY <1>3, <2>3, <3>1, <3>2 DEF poolWithdraw, Moves
  <2> QED BY <1>3, <1>4, <2>3
<1>6. CASE m = Maximum
  <2>1. x = maxWithdraw(a)
    BY <1>6, MaximumAsks
  <2>2. CASE Debt(owed) = 0
    <3>1. x = All /\ All # 0 /\ supplied[a] # 0
      BY <1>6, <2>1, <2>2 DEF maxWithdraw, All, NamedRevert
    <3>2. supplied[a] \in 1 .. supplied[a]
      BY <1>2, <3>1
    <3>3. Healthy([supplied EXCEPT ![a] = @ - supplied[a]], owed)
      BY <2>2 DEF Healthy
    <3> HIDE DEF x
    <3> QED BY <1>3, <3>1, <3>2, <3>3 DEF poolWithdraw, Moves
  <2>3. CASE Debt(owed) # 0
    <3>1. x = Lower(supplied[a], baseToToken(maxSafeWithdrawBase, a))
      BY <2>1, <2>3 DEF maxWithdraw
    <3>2. ~DustMargin
      BY <1>6 DEF NamedRevert
    <3> QED BY <1>5, <3>1, <3>2, SafeBase
  <2> QED BY <2>2, <2>3
<1>7. CASE m.mode = "target"
  <2> DEFINE t == m.value
             C == Collateral(supplied)
             E == Excess(Norm * C, targetCollateralBase(t))
  <2>1. t \in Nat \ {0}
    BY <1>1, <1>7, TargetsAbove
  <2>2. targetCollateralBase(t) \in Nat /\ (Average(LT, supplied) # 0 => collateralFloor \in Nat)
    BY <2>1, Goals
  <2>3. Norm * C \in Nat
    BY <1>2
  <2>4. E \in Nat /\ (E # 0 => E = Norm * C - targetCollateralBase(t))
    BY <2>2, <2>3, ExcessOf
  <2>5. x = targetHfWithdraw(a, t)
    BY <1>7, TargetAsks
  <2>6. CASE Debt(owed) = 0
    <3>1. x = 0
      BY <2>5, <2>6 DEF targetHfWithdraw
    <3> QED BY <1>3, <1>4, <3>1
  <2>7. CASE Debt(owed) # 0
    <3>1. x = Lower(supplied[a], baseToToken(E, a))
      BY <2>5, <2>7 DEF targetHfWithdraw
    <3>2. ~(targetCollateralBase(t) - collateralFloor < Norm)
      BY <1>7 DEF NamedRevert, DustAt
    <3> HIDE DEF E
    <3>3. CASE Average(LT, supplied) # 0
      <4>1. E # 0 => E <= Norm * C - collateralFloor - Norm
        BY <1>2, <2>2, <2>3, <2>4, <3>2, <3>3
      <4> QED BY <1>5, <2>4, <3>1, <3>3, <4>1
    <3>4. CASE Average(LT, supplied) = 0
      <4>1. C = 0
        <5> SUFFICES ASSUME C # 0 PROVE FALSE
          OBVIOUS
        <5>1. \A b \in Asset : supplied[b] > 0 => LT[b] = LT[a]
          BY <1>1 DEF OneThreshold
        <5>2. Average(LT, supplied) = LT[a] /\ LT[a] # 0
          BY <5>1, AverageOfOne, AaveNumbers DEF AaveTypeOK
        <5> QED BY <3>4, <5>2
      <4>2. Norm * C = 0
        BY <1>2, <4>1
      <4>3. E = 0
        BY <2>2, <2>3, <4>2, ExcessOf DEF E
      <4> QED BY <1>5, <3>1, <4>3
    <3> QED BY <3>3, <3>4
  <2> QED BY <2>6, <2>7
<1> QED BY <1>6, <1>7

LEMMA OthersSafe ==
    ASSUME AaveTypeOK, NEW op \in Op \ {"withdraw"}, NEW a \in Asset, NEW m \in Mode, m = Maximum \/ m.mode = "target"
    PROVE  execute(op, a, m).ok \/ NamedRevert(op, a, m)
<1> SUFFICES ASSUME ~NamedRevert(op, a, m) PROVE execute(op, a, m).ok
  OBVIOUS
<1> DEFINE x == resolveAmount(op, a, m)
           t == m.value
<1>1. ~Refused(m)
  BY DEF NamedRevert
<1>2. wallet[a] \in Nat /\ owed[a] \in Nat /\ Norm \in Nat \ {0} /\ Debt(owed) \in Nat /\ Collateral(supplied) \in Nat
  BY AaveNumbers, Goals
<1>3. execute(op, a, m) = IF x = 0 THEN Moves(0) ELSE pool(op, a, x)
  BY <1>1 DEF execute
<1>4. Moves(0).ok /\ \A z : Moves(z).ok
  BY DEF Moves
<1>5. m.mode = "target" =>
        /\ t \in Nat \ {0}
        /\ targetDebtBase(t) \in Nat /\ targetCollateralBase(t) \in Nat
        /\ Norm * Debt(owed) \in Nat /\ Norm * Collateral(supplied) \in Nat
  <2>1. Norm * Debt(owed) \in Nat /\ Norm * Collateral(supplied) \in Nat
    BY <1>2
  <2> QED BY <1>1, <2>1, TargetsAbove, Goals
<1>6. CASE op = "supply"
  <2>1. x \in Nat /\ x <= wallet[a]
    <3>1. CASE m = Maximum
      BY <1>2, <1>6, <3>1, MaximumAsks
    <3>2. CASE m.mode = "target"
      <4>1. x = targetHfSupply(a, t)
        BY <1>6, <3>2, TargetAsks
      <4>2. PICK E \in Nat : E = Excess(targetCollateralBase(t), Norm * Collateral(supplied))
        BY <1>5, <3>2, ExcessOf
      <4>3. x = 0 \/ x = Lower(wallet[a], baseToToken(E, a))
        BY <4>1, <4>2 DEF targetHfSupply
      <4> HIDE DEF x
      <4>4. PICK b \in Nat : b = baseToToken(E, a)
        BY <4>2, TokensNatural
      <4>5. PICK w \in Nat : w = wallet[a]
        BY <1>2
      <4>6. Lower(w, b) \in Nat /\ Lower(w, b) <= w
        BY LowerOf
      <4> QED BY <4>3, <4>4, <4>5, <4>6
    <3> QED BY <3>1, <3>2
  <2> HIDE DEF x
  <2>2. x # 0 => x \in 1 .. wallet[a]
    BY <1>2, <2>1
  <2> QED BY <1>3, <1>4, <1>6, <2>2 DEF pool, poolSupply
<1>7. CASE op = "repay"
  <2>1. x = 0 \/ (IF x = All THEN owed[a] ELSE Lower(x, owed[a])) \in 1 .. wallet[a]
    <3>1. CASE m = Maximum
      <4>1. x = maxRepay(a)
        BY <1>7, <3>1, MaximumAsks
      <4>2. CASE owed[a] = 0 \/ wallet[a] = 0
        BY <4>1, <4>2 DEF maxRepay
      <4>3. CASE owed[a] # 0 /\ wallet[a] # 0 /\ wallet[a] >= owed[a]
        <5>1. x = All
          BY <4>1, <4>3 DEF maxRepay
        <5> HIDE DEF x
        <5> QED BY <1>2, <4>3, <5>1
      <4>4. CASE owed[a] # 0 /\ wallet[a] # 0 /\ ~(wallet[a] >= owed[a])
        <5>1. x = wallet[a]
          BY <4>1, <4>4 DEF maxRepay
        <5>2. x # All /\ Lower(x, owed[a]) = wallet[a]
          BY <1>2, <4>4, <5>1 DEF All, Lower
        <5> HIDE DEF x
        <5> QED BY <1>2, <4>4, <5>2
      <4> QED BY <4>2, <4>3, <4>4
    <3>2. CASE m.mode = "target"
      <4>1. x = targetHfRepay(a, t)
        BY <1>7, <3>2, TargetAsks
      <4>2. owed[a] # 0
        BY <1>7, <3>2 DEF NamedRevert
      <4>3. x \in Nat /\ x <= wallet[a]
        <5>1. PICK E \in Nat : E = Excess(Norm * Debt(owed), targetDebtBase(t))
          BY <1>5, <3>2, ExcessOf
        <5>2. x = 0 \/ x = Lower(wallet[a], baseToToken(E, a))
          BY <4>1, <5>1 DEF targetHfRepay
        <5> HIDE DEF x
        <5>3. PICK b \in Nat : b = baseToToken(E, a)
          BY <5>1, TokensNatural
        <5>4. PICK w \in Nat : w = wallet[a]
          BY <1>2
        <5>5. Lower(w, b) \in Nat /\ Lower(w, b) <= w
          BY LowerOf
        <5> QED BY <5>2, <5>3, <5>4, <5>5
      <4> HIDE DEF x
      <4>4. PICK o \in Nat : o = owed[a]
        BY <1>2
      <4>5. Lower(x, o) \in {x, o} /\ Lower(x, o) <= x
        BY <4>3, LowerOf
      <4> QED BY <1>2, <4>2, <4>3, <4>4, <4>5 DEF All
    <3> QED BY <3>1, <3>2
  <2> HIDE DEF x
  <2> QED BY <1>3, <1>4, <1>7, <2>1 DEF pool, poolRepay
<1>8. CASE op = "borrow"
  <2>1. BorrowLimit \in Nat /\ Available \in Nat
        /\ (Available # 0 => BorrowLimit > Debt(owed) /\ Available = BorrowLimit - Debt(owed))
    BY AvailableOf
  <2>2. ASSUME NEW E \in Nat, x = baseToToken(E, a),
               E # 0 => BorrowLimit > Debt(owed) /\ E <= Norm * (BorrowLimit - Debt(owed))
        PROVE  execute(op, a, m).ok
    <3>1. x \in Nat /\ (E = 0 => x = 0)
      BY <2>2, TokensNatural
    <3>2. x # 0 => Debt([owed EXCEPT ![a] = @ + x]) <= BorrowLimit
      <4> HIDE DEF x
      <4>1. x # 0 => E # 0 /\ x <= baseToToken(E, a)
        BY <2>2, <3>1
      <4> QED BY <2>1, <2>2, <3>1, <4>1, BorrowFits
    <3> HIDE DEF x
    <3>3. x # 0 => x > 0
      BY <3>1
    <3> QED BY <1>3, <1>4, <1>8, <3>2, <3>3 DEF pool, poolBorrow
  <2>3. CASE m = Maximum
    <3>1. x = maxBorrow(a)
      BY <1>8, <2>3, MaximumAsks
    <3>2. CASE Available = 0
      BY <1>3, <1>4, <3>1, <3>2 DEF maxBorrow
    <3>3. CASE Available # 0
      <4> DEFINE E == applyHaircut(Norm * Available)
      <4>1. Norm * Available \in Nat
        BY <1>2, <2>1
      <4>2. E \in Nat /\ E <= Norm * Available
        BY <4>1, HaircutLess
      <4>3. x = baseToToken(E, a)
        BY <3>1, <3>3 DEF maxBorrow
      <4> HIDE DEF E
      <4> QED BY <2>1, <2>2, <3>3, <4>2, <4>3
    <3> QED BY <3>2, <3>3
  <2>4. CASE m.mode = "target"
    <3> DEFINE E == Excess(targetDebtBase(t), Norm * Debt(owed))
    <3>1. x = baseToToken(E, a)
      BY <1>8, <2>4, TargetAsks DEF targetHfBorrow
    <3>2. E \in Nat /\ (E # 0 => E = targetDebtBase(t) - Norm * Debt(owed))
      <4>1. PICK G \in Nat : G = targetDebtBase(t)
        BY <1>5, <2>4
      <4>2. PICK B \in Nat : B = Norm * Debt(owed)
        BY <1>5, <2>4
      <4>3. E = Excess(G, B)
        BY <4>1, <4>2
      <4> HIDE DEF E, t
      <4> QED BY <4>1, <4>2, <4>3, ExcessOf
    <3>3. ~(targetDebtBase(t) > Norm * BorrowLimit)
      BY <1>8, <2>4 DEF NamedRevert
    <3> HIDE DEF E, t
    <3>4. E # 0 => BorrowLimit > Debt(owed) /\ E <= Norm * (BorrowLimit - Debt(owed))
      <4> SUFFICES ASSUME E # 0 PROVE BorrowLimit > Debt(owed) /\ E <= Norm * (BorrowLimit - Debt(owed))
        OBVIOUS
      <4>1. Norm * (BorrowLimit - Debt(owed)) = Norm * BorrowLimit - Norm * Debt(owed)
            /\ Norm * BorrowLimit \in Nat /\ Norm * Debt(owed) \in Nat
        BY <1>2, <2>1
      <4>2. E <= Norm * (BorrowLimit - Debt(owed))
        BY <1>5, <2>4, <3>2, <3>3, <4>1
      <4>3. ASSUME BorrowLimit <= Debt(owed) PROVE FALSE
        <5>1. BorrowLimit * Norm <= Debt(owed) * Norm
          BY <1>2, <2>1, <4>3, TimesGrows
        <5>2. BorrowLimit * Norm = Norm * BorrowLimit /\ Debt(owed) * Norm = Norm * Debt(owed)
          BY <1>2, <2>1
        <5> QED BY <3>2, <4>1, <4>2, <5>1, <5>2
      <4> QED BY <1>2, <2>1, <4>2, <4>3
    <3> QED BY <2>2, <3>1, <3>2, <3>4
  <2> QED BY <2>3, <2>4
<1> QED BY <1>6, <1>7, <1>8 DEF Op

LEMMA OraclesSafe ==
    ASSUME AaveTypeOK
    PROVE  OracleModesDoNotRevert
<1> SUFFICES ASSUME NEW op \in Op, NEW a \in Asset, NEW m \in {Maximum} \cup ToTarget
             PROVE  execute(op, a, m).ok \/ NamedRevert(op, a, m)
  BY DEF OracleModesDoNotRevert
<1>1. m \in Mode /\ (m = Maximum \/ m.mode = "target")
  BY ModeKinds
<1> QED BY <1>1, WithdrawsSafely, OthersSafe

LEMMA DebtChanges ==
    ASSUME AaveTypeOK, NEW a \in Asset, NEW x \in Nat
    PROVE  Debt([owed EXCEPT ![a] = x]) = Debt(owed) + BaseOf(x, a) - BaseOf(owed[a], a)
<1>1. owed \in [Asset -> Nat]
  BY DEF AaveTypeOK
<1>2. PICK n \in [Asset -> Nat] : n = [owed EXCEPT ![a] = x]
  BY <1>1
<1>3. Debt(n) = Collateral(n) /\ Debt(owed) = Collateral(owed)
  BY <1>1, WorthChanges
<1>4. Collateral(n) = Collateral(owed) + BaseOf(x, a) - BaseOf(owed[a], a)
  BY <1>1, <1>2, WorthChanges
<1> QED BY <1>2, <1>3, <1>4

\* Comparing health factors without dividing.
LEMMA FactorsCompared ==
    ASSUME AaveTypeOK, Asset # {}, NEW c \in Int, NEW d \in Int, NEW t \in Nat
    PROVE  /\ AtMost(c, d, t) <=> c * (Average(LT, supplied) * Wad) <= t * d * Bps
           /\ AtLeast(c, d, t) <=> c * (Average(LT, supplied) * Wad) >= t * d * Bps
           /\ AtMost(c, d, t) <=> c * Average(LT, supplied) * Wad <= d * (Bps * t)
           /\ AtLeast(c, d, t) <=> c * Average(LT, supplied) * Wad >= d * (Bps * t)
<1>1. PICK L \in Nat : L = Average(LT, supplied)
  BY Goals
<1>2. PICK w \in Nat : w = Wad
  BY AaveNumbers
<1>3. PICK b \in Nat : b = Bps
  BY AaveNumbers
<1>4. c * L * w = c * (L * w) /\ t * d * b = d * (b * t)
  OBVIOUS
<1> QED BY <1>1, <1>2, <1>3, <1>4 DEF AtMost, AtLeast

LEMMA SuppliesTarget ==
    ASSUME AaveTypeOK, Debt(owed) > 0, Collateral(supplied) > 0, NEW op \in {"supply", "withdraw"},
           NEW a \in Asset, NEW m \in Mode, m.mode = "target", execute(op, a, m).ok, OneThreshold(op, a),
           NEW t, t = m.value, NEW y, y = execute(op, a, m).moved,
           NEW c, c = Collateral(SuppliedAfter(op, a, y)), NEW d, d = Debt(OwedAfter(op, a, y))
    PROVE  /\ op = "supply" => /\ y > 0 => AtMost(c - 1, d, t)
                               /\ y < wallet[a] => AtLeast(c + (BaseOf(1, a) + 2), d, t)
           /\ op = "withdraw" => /\ y > 0 => AtLeast(c + 1, d, t)
                                 /\ y < supplied[a] => AtMost(c - (BaseOf(1, a) + 2), d, t)
<1> DEFINE C == Collateral(supplied)
           D == Debt(owed)
           L == Average(LT, supplied)
           G == targetCollateralBase(t)
           T == BaseOf(1, a) + 2
           x == resolveAmount(op, a, m)
           X == t * D * Bps
           Y == L * Wad
<1>1. /\ wallet[a] \in Nat /\ supplied[a] \in Nat /\ owed[a] \in Nat /\ Norm \in Nat \ {0}
      /\ supplied \in [Asset -> Nat]
  BY AaveNumbers DEF AaveTypeOK
<1>2. op \in Op /\ ~Refused(m) /\ x \in Nat \cup {All} /\ y \in Nat
      /\ (op = "supply" => y = x /\ y <= wallet[a])
      /\ (op = "withdraw" => y <= supplied[a] /\ (x # All => y = x))
  <2>1. op \in Op
    BY DEF Op
  <2> HIDE DEF x
  <2> QED BY <2>1, Executed DEF x
<1>3. t \in Nat \ {0} /\ t \in Nat
  BY <1>2, TargetsAbove
<1>4. C \in Nat /\ D \in Nat
  BY Goals
<1>5. L # 0
  <2>1. \A b \in Asset : supplied[b] > 0 => LT[b] = LT[a]
    BY DEF OneThreshold
  <2> QED BY <1>1, <2>1, AverageOfOne, AaveNumbers
<1>6. X \in Nat /\ Y \in Nat \ {0} /\ G \in Nat /\ IsQuotient(G, Norm * X, Y)
  BY <1>3, <1>5, Goals
<1>7. T \in Nat
  BY BaseNatural
<1>8. d = D
  BY DEF OwedAfter
<1>9. Norm * C \in Nat
  BY <1>1, <1>4
<1>10. CASE op = "supply"
  <2> DEFINE E == Excess(G, Norm * C)
             e == BaseOf(supplied[a] + y, a) - BaseOf(supplied[a], a)
  <2>1. E \in Nat
    BY <1>6, <1>9, ExcessOf
  <2>2. baseToToken(E, a) \in Nat
    BY <2>1, TokensNatural
  <2>3. y = Lower(wallet[a], baseToToken(E, a))
    BY <1>2, <1>10, TargetAsks DEF targetHfSupply
  <2> HIDE DEF E
  <2>4. y <= baseToToken(E, a) /\ (y < wallet[a] => y = baseToToken(E, a))
    <3>1. PICK b \in Nat : b = baseToToken(E, a)
      BY <2>2
    <3>2. PICK w \in Nat : w = wallet[a]
      BY <1>1
    <3>3. Lower(w, b) <= b /\ Lower(w, b) \in {w, b}
      BY LowerOf
    <3> QED BY <2>3, <3>1, <3>2, <3>3
  <2>5. e \in Nat /\ Norm * e < E + Norm /\ (y = baseToToken(E, a) => E < Norm * (e + T)) /\ (y > 0 => E > 0)
    BY <1>1, <1>2, <2>1, <2>4, TokensMoved
  <2>6. c = C + e
    <3>1. PICK n \in Nat : n = supplied[a] + y
      BY <1>1, <1>2
    <3>2. SuppliedAfter(op, a, y) = [supplied EXCEPT ![a] = n]
      BY <1>10, <3>1 DEF SuppliedAfter
    <3>3. c = C + BaseOf(n, a) - BaseOf(supplied[a], a)
      <4>1. Collateral([supplied EXCEPT ![a] = n]) = C + BaseOf(n, a) - BaseOf(supplied[a], a)
        BY <1>1, WorthChanges
      <4> QED BY <3>2, <4>1
    <3>4. BaseOf(n, a) \in Nat /\ BaseOf(supplied[a], a) \in Nat
      BY <1>1, BaseNatural
    <3> QED BY <1>4, <3>1, <3>3, <3>4
  <2>7. /\ E > 0 /\ Norm * e < E + Norm => (C + e - 1) * Y <= X
        /\ E < Norm * (e + T) => (C + e + T) * Y >= X
    <3>1. E = Excess(G, Norm * C)
      BY DEF E
    <3> HIDE DEF e, C, X, Y, G, T
    <3> QED BY <1>1, <1>4, <1>6, <1>7, <2>5, <3>1, Raised
  <2>8. c - 1 \in Int /\ c + T \in Int /\ d \in Int /\ C + e - 1 = c - 1 /\ C + e + T = c + T
    BY <1>4, <1>7, <1>8, <2>5, <2>6
  <2>9. y > 0 => AtMost(c - 1, d, t)
    BY <1>3, <1>8, <2>5, <2>7, <2>8, FactorsCompared
  <2>10. y < wallet[a] => AtLeast(c + T, d, t)
    BY <1>3, <1>8, <2>4, <2>5, <2>7, <2>8, FactorsCompared
  <2> QED BY <1>10, <2>9, <2>10
<1>11. CASE op = "withdraw"
  <2> DEFINE E == Excess(Norm * C, G)
             z == supplied[a] - y
             e == BaseOf(z + y, a) - BaseOf(z, a)
  <2>1. E \in Nat
    BY <1>6, <1>9, ExcessOf
  <2>2. baseToToken(E, a) \in Nat
    BY <2>1, TokensNatural
  <2>3. x = Lower(supplied[a], baseToToken(E, a))
    BY <1>11, TargetAsks DEF targetHfWithdraw
  <2> HIDE DEF E, x
  <2>4. y = x
    <3>1. PICK b \in Nat : b = baseToToken(E, a)
      BY <2>2
    <3> QED BY <1>1, <1>2, <1>11, <2>3, <3>1, LowerOf DEF All
  <2>5. y <= baseToToken(E, a) /\ (y < supplied[a] => y = baseToToken(E, a))
    BY <1>1, <2>2, <2>3, <2>4, LowerOf
  <2>6. z \in Nat /\ z + y = supplied[a]
    BY <1>1, <1>2, <1>11
  <2>7. e \in Nat /\ Norm * e < E + Norm /\ (y = baseToToken(E, a) => E < Norm * (e + T)) /\ (y > 0 => E > 0)
    <3>1. PICK n \in Nat : n = z
      BY <2>6
    <3>2. e = BaseOf(n + y, a) - BaseOf(n, a)
      BY <3>1
    <3> HIDE DEF z, e
    <3>3. y <= baseToToken(E, a)
      BY <2>5
    <3> QED BY <1>2, <2>1, <3>2, <3>3, TokensMoved
  <2>8. c = C - e
    <3>1. PICK n \in Nat : n = z
      BY <2>6
    <3>2. SuppliedAfter(op, a, y) = [supplied EXCEPT ![a] = n]
      BY <1>11, <3>1 DEF SuppliedAfter
    <3>3. c = C + BaseOf(n, a) - BaseOf(supplied[a], a)
      <4>1. Collateral([supplied EXCEPT ![a] = n]) = C + BaseOf(n, a) - BaseOf(supplied[a], a)
        BY <1>1, WorthChanges
      <4> QED BY <3>2, <4>1
    <3>4. BaseOf(n, a) \in Nat /\ BaseOf(supplied[a], a) \in Nat
      BY <1>1, BaseNatural
    <3> HIDE DEF z
    <3> QED BY <1>4, <2>6, <3>1, <3>3, <3>4
  <2>9. /\ E > 0 /\ Norm * e < E + Norm => (C - e + 1) * Y >= X
        /\ E < Norm * (e + T) => (C - e - T) * Y <= X
    <3>1. E = Excess(Norm * C, G)
      BY DEF E
    <3> HIDE DEF e, C, X, Y, G, T
    <3> QED BY <1>1, <1>4, <1>6, <1>7, <2>7, <3>1, Lowered
  <2>10. c + 1 \in Int /\ c - T \in Int /\ d \in Int /\ C - e + 1 = c + 1 /\ C - e - T = c - T
    BY <1>4, <1>7, <1>8, <2>7, <2>8
  <2>11. y > 0 => AtLeast(c + 1, d, t)
    BY <1>3, <1>8, <2>7, <2>9, <2>10, FactorsCompared
  <2>12. y < supplied[a] => AtMost(c - T, d, t)
    BY <1>3, <1>8, <2>5, <2>7, <2>9, <2>10, FactorsCompared
  <2> QED BY <1>11, <2>11, <2>12
<1> QED BY <1>10, <1>11

LEMMA DebtsTarget ==
    ASSUME AaveTypeOK, Debt(owed) > 0, NEW op \in {"borrow", "repay"},
           NEW a \in Asset, NEW m \in Mode, m.mode = "target", execute(op, a, m).ok,
           NEW t, t = m.value, NEW y, y = execute(op, a, m).moved,
           NEW c, c = Collateral(SuppliedAfter(op, a, y)), NEW d, d = Debt(OwedAfter(op, a, y))
    PROVE  /\ op = "borrow" => /\ y > 0 => AtLeast(c, d - 1, t)
                               /\ AtMost(c, d + (BaseOf(1, a) + 2), t)
           /\ op = "repay" => /\ y > 0 => AtMost(c, d + 1, t)
                              /\ y < Lower(wallet[a], owed[a]) => AtLeast(c, d - (BaseOf(1, a) + 2), t)
<1> DEFINE C == Collateral(supplied)
           D == Debt(owed)
           L == Average(LT, supplied)
           G == targetDebtBase(t)
           T == BaseOf(1, a) + 2
           x == resolveAmount(op, a, m)
           X == C * L * Wad
           Y == Bps * t
<1>1. /\ wallet[a] \in Nat /\ supplied[a] \in Nat /\ owed[a] \in Nat /\ Norm \in Nat \ {0}
      /\ owed \in [Asset -> Nat]
  BY AaveNumbers DEF AaveTypeOK
<1>2. op \in Op /\ ~Refused(m) /\ x \in Nat \cup {All} /\ y \in Nat
      /\ (op = "borrow" => y = x)
      /\ (op = "repay" => y <= wallet[a] /\ y <= owed[a] /\ (x # All => y = Lower(x, owed[a])))
  <2>1. op \in Op
    BY DEF Op
  <2> HIDE DEF x
  <2> QED BY <2>1, Executed DEF x
<1>3. t \in Nat \ {0} /\ t \in Nat
  BY <1>2, TargetsAbove
<1>4. C \in Nat /\ D \in Nat
  BY Goals
<1>6. X \in Nat /\ Y \in Nat \ {0} /\ G \in Nat /\ IsQuotient(G, Norm * X, Y)
  BY <1>3, Goals
<1>7. T \in Nat
  BY BaseNatural
<1>8. c = C
  BY DEF SuppliedAfter
<1>9. Norm * D \in Nat
  BY <1>1, <1>4
<1>10. CASE op = "borrow"
  <2> DEFINE E == Excess(G, Norm * D)
             e == BaseOf(owed[a] + y, a) - BaseOf(owed[a], a)
  <2>1. E \in Nat
    BY <1>6, <1>9, ExcessOf
  <2>3. y = baseToToken(E, a)
    BY <1>2, <1>10, TargetAsks DEF targetHfBorrow
  <2> HIDE DEF E
  <2>5. e \in Nat /\ Norm * e < E + Norm /\ E < Norm * (e + T) /\ (y > 0 => E > 0)
    <3>1. y <= baseToToken(E, a)
      BY <1>2, <2>3
    <3>2. e \in Nat /\ Norm * e < E + Norm /\ (y = baseToToken(E, a) => E < Norm * (e + T)) /\ (y > 0 => E > 0)
      <4>1. PICK n \in Nat : n = owed[a]
        BY <1>1
      <4>2. e = BaseOf(n + y, a) - BaseOf(n, a)
        BY <4>1
      <4> HIDE DEF e
      <4> QED BY <1>2, <2>1, <3>1, <4>2, TokensMoved
    <3> QED BY <2>3, <3>2
  <2>6. d = D + e
    <3>1. PICK n \in Nat : n = owed[a] + y
      BY <1>1, <1>2
    <3>2. OwedAfter(op, a, y) = [owed EXCEPT ![a] = n]
      BY <1>10, <3>1 DEF OwedAfter
    <3>3. d = D + BaseOf(n, a) - BaseOf(owed[a], a)
      BY <1>1, <3>2, DebtChanges
    <3>4. BaseOf(n, a) \in Nat /\ BaseOf(owed[a], a) \in Nat
      BY <1>1, BaseNatural
    <3> QED BY <1>4, <3>1, <3>3, <3>4
  <2>7. /\ E > 0 /\ Norm * e < E + Norm => (D + e - 1) * Y <= X
        /\ E < Norm * (e + T) => (D + e + T) * Y >= X
    <3>1. E = Excess(G, Norm * D)
      BY DEF E
    <3> HIDE DEF e, D, X, Y, G, T
    <3> QED BY <1>1, <1>4, <1>6, <1>7, <2>5, <3>1, Raised
  <2>8. d - 1 \in Int /\ d + T \in Int /\ c \in Int /\ D + e - 1 = d - 1 /\ D + e + T = d + T
    BY <1>4, <1>7, <1>8, <2>5, <2>6
  <2>9. y > 0 => AtLeast(c, d - 1, t)
    BY <1>3, <1>8, <2>5, <2>7, <2>8, FactorsCompared
  <2>10. AtMost(c, d + T, t)
    BY <1>3, <1>8, <2>5, <2>7, <2>8, FactorsCompared
  <2> QED BY <1>10, <2>9, <2>10
<1>11. CASE op = "repay"
  <2> DEFINE E == Excess(Norm * D, G)
             z == owed[a] - y
             e == BaseOf(z + y, a) - BaseOf(z, a)
  <2>1. E \in Nat
    BY <1>6, <1>9, ExcessOf
  <2>2. baseToToken(E, a) \in Nat
    BY <2>1, TokensNatural
  <2>3. x = Lower(wallet[a], baseToToken(E, a))
    BY <1>11, TargetAsks DEF targetHfRepay
  <2> HIDE DEF E, x
  <2>4. x \in Nat /\ x <= baseToToken(E, a) /\ x \in {wallet[a], baseToToken(E, a)} /\ y = Lower(x, owed[a])
    <3>1. PICK b \in Nat : b = baseToToken(E, a)
      BY <2>2
    <3>2. PICK w \in Nat : w = wallet[a]
      BY <1>1
    <3>3. Lower(w, b) \in Nat /\ Lower(w, b) <= b /\ Lower(w, b) \in {w, b}
      BY LowerOf
    <3>4. x # All
      BY <2>3, <3>1, <3>2, <3>3 DEF All
    <3> QED BY <1>2, <1>11, <2>3, <3>1, <3>2, <3>3, <3>4
  <2>5. y <= baseToToken(E, a) /\ (y < Lower(wallet[a], owed[a]) => y = baseToToken(E, a))
    <3>1. Lower(wallet[a], owed[a]) <= wallet[a] /\ Lower(wallet[a], owed[a]) <= owed[a]
          /\ Lower(wallet[a], owed[a]) \in Nat
      BY <1>1, LowerOf
    <3>2. y <= x /\ y \in {x, owed[a]}
      BY <1>1, <2>4, LowerOf
    <3> QED BY <1>1, <1>2, <2>2, <2>4, <3>1, <3>2
  <2>6. z \in Nat /\ z + y = owed[a]
    BY <1>1, <1>2, <1>11
  <2>7. e \in Nat /\ Norm * e < E + Norm /\ (y = baseToToken(E, a) => E < Norm * (e + T)) /\ (y > 0 => E > 0)
    <3>1. PICK n \in Nat : n = z
      BY <2>6
    <3>2. e = BaseOf(n + y, a) - BaseOf(n, a)
      BY <3>1
    <3> HIDE DEF z, e
    <3>3. y <= baseToToken(E, a)
      BY <2>5
    <3> QED BY <1>2, <2>1, <3>2, <3>3, TokensMoved
  <2>8. d = D - e
    <3>1. PICK n \in Nat : n = z
      BY <2>6
    <3>2. OwedAfter(op, a, y) = [owed EXCEPT ![a] = n]
      BY <1>11, <3>1 DEF OwedAfter
    <3>3. d = D + BaseOf(n, a) - BaseOf(owed[a], a)
      BY <1>1, <3>2, DebtChanges
    <3>4. BaseOf(n, a) \in Nat /\ BaseOf(owed[a], a) \in Nat
      BY <1>1, BaseNatural
    <3> HIDE DEF z
    <3> QED BY <1>4, <2>6, <3>1, <3>3, <3>4
  <2>9. /\ E > 0 /\ Norm * e < E + Norm => (D - e + 1) * Y >= X
        /\ E < Norm * (e + T) => (D - e - T) * Y <= X
    <3>1. E = Excess(Norm * D, G)
      BY DEF E
    <3> HIDE DEF e, D, X, Y, G, T
    <3> QED BY <1>1, <1>4, <1>6, <1>7, <2>7, <3>1, Lowered
  <2>10. d + 1 \in Int /\ d - T \in Int /\ c \in Int /\ D - e + 1 = d + 1 /\ D - e - T = d - T
    BY <1>4, <1>7, <1>8, <2>7, <2>8
  <2>11. y > 0 => AtMost(c, d + 1, t)
    BY <1>3, <1>8, <2>7, <2>9, <2>10, FactorsCompared
  <2>12. y < Lower(wallet[a], owed[a]) => AtLeast(c, d - T, t)
    BY <1>3, <1>8, <2>5, <2>7, <2>9, <2>10, FactorsCompared
  <2> QED BY <1>11, <2>11, <2>12
<1> QED BY <1>10, <1>11

LEMMA TargetsMet ==
    ASSUME AaveTypeOK
    PROVE  TargetMet
<1> DEFINE Met(op, a, m) ==
        LET done == execute(op, a, m)
            t == m.value
            c == Collateral(SuppliedAfter(op, a, done.moved))
            d == Debt(OwedAfter(op, a, done.moved))
            token == BaseOf(1, a) + 2
        IN  done.ok /\ OneThreshold(op, a) =>
              /\ done.moved > 0 =>
                   CASE op = "supply" -> AtMost(c - 1, d, t)
                     [] op = "repay" -> AtMost(c, d + 1, t)
                     [] op = "withdraw" -> AtLeast(c + 1, d, t)
                     [] OTHER -> AtLeast(c, d - 1, t)
              /\ CASE op = "supply" -> done.moved < wallet[a] => AtLeast(c + token, d, t)
                   [] op = "repay" ->
                        done.moved < Lower(wallet[a], owed[a]) => AtLeast(c, d - token, t)
                   [] op = "withdraw" -> done.moved < supplied[a] => AtMost(c - token, d, t)
                   [] OTHER -> AtMost(c, d + token, t)
<1> SUFFICES ASSUME Debt(owed) > 0, Collateral(supplied) > 0
             PROVE  \A op \in Op, a \in Asset, m \in ToTarget : Met(op, a, m)
  BY DEF TargetMet
<1> SUFFICES ASSUME NEW op \in Op, NEW a \in Asset, NEW m \in ToTarget PROVE Met(op, a, m)
  OBVIOUS
<1> SUFFICES ASSUME execute(op, a, m).ok, OneThreshold(op, a) PROVE Met(op, a, m)
  BY Zenon DEF Met
<1> DEFINE y == execute(op, a, m).moved
           t == m.value
           c == Collateral(SuppliedAfter(op, a, y))
           d == Debt(OwedAfter(op, a, y))
           token == BaseOf(1, a) + 2
<1>1. m \in Mode /\ m.mode = "target"
  BY ModeKinds
<1>2. op \in {"supply", "withdraw"} =>
           /\ op = "supply" => /\ y > 0 => AtMost(c - 1, d, t)
                               /\ y < wallet[a] => AtLeast(c + token, d, t)
           /\ op = "withdraw" => /\ y > 0 => AtLeast(c + 1, d, t)
                                 /\ y < supplied[a] => AtMost(c - token, d, t)
  BY <1>1, SuppliesTarget
<1>3. op \in {"borrow", "repay"} =>
           /\ op = "borrow" => /\ y > 0 => AtLeast(c, d - 1, t)
                               /\ AtMost(c, d + token, t)
           /\ op = "repay" => /\ y > 0 => AtMost(c, d + 1, t)
                              /\ y < Lower(wallet[a], owed[a]) => AtLeast(c, d - token, t)
  BY <1>1, DebtsTarget
<1> HIDE DEF y, t, c, d, token
<1>4. CASE op = "supply"
  BY <1>2, <1>4 DEF y, t, c, d, token
<1>5. CASE op = "withdraw"
  BY <1>2, <1>5 DEF y, t, c, d, token
<1>6. CASE op = "borrow"
  BY <1>3, <1>6 DEF y, t, c, d, token
<1>7. CASE op = "repay"
  BY <1>3, <1>7 DEF y, t, c, d, token
<1> QED BY <1>4, <1>5, <1>6, <1>7 DEF Op

LEMMA AaveMoves ==
    ASSUME AaveTypeOK, [AaveNext]_aaveVars
    PROVE  AaveTypeOK'
<1>1. CASE UNCHANGED aaveVars
  BY <1>1 DEF aaveVars, AaveTypeOK
<1>2. CASE movePrice
  BY <1>2 DEF movePrice, AaveTypeOK
<1>3. ASSUME NEW op \in Op, NEW a \in Asset, NEW m \in Mode, step(op, a, m) PROVE AaveTypeOK'
  <2> DEFINE done == execute(op, a, m)
  <2>1. PICK y : y = done.moved
    OBVIOUS
  <2>2. /\ done.ok /\ supplied' = SuppliedAfter(op, a, y) /\ owed' = OwedAfter(op, a, y)
        /\ wallet' = [wallet EXCEPT ![a] = IF op \in {"withdraw", "borrow"} THEN @ + y ELSE @ - y]
        /\ price' = price
    BY <1>3, <2>1 DEF step
  <2>3. /\ y \in Nat
        /\ op \in {"supply", "repay"} => y <= wallet[a]
        /\ op = "withdraw" => y <= supplied[a]
        /\ op = "repay" => y <= owed[a]
    BY <2>1, <2>2, Executed
  <2> HIDE DEF done
  <2>4. wallet[a] \in Nat /\ supplied[a] \in Nat /\ owed[a] \in Nat
    BY AaveNumbers
  <2>5. supplied' \in [Asset -> Nat]
    BY <2>2, <2>3, <2>4 DEF SuppliedAfter, AaveTypeOK
  <2>6. owed' \in [Asset -> Nat]
    BY <2>2, <2>3, <2>4 DEF OwedAfter, AaveTypeOK
  <2>7. wallet' \in [Asset -> Nat]
    BY <2>2, <2>3, <2>4 DEF AaveTypeOK, Op
  <2> QED BY <2>2, <2>5, <2>6, <2>7 DEF AaveTypeOK
<1> QED BY <1>1, <1>2, <1>3 DEF AaveNext

THEOREM AaveStepsFit == AaveSpec => []AaveStepsWork
<1>1. AaveInit => AaveTypeOK
  BY AaveAssumption DEF AaveInit, AaveTypeOK
<1>2. AaveTypeOK /\ [AaveNext]_aaveVars => AaveTypeOK'
  BY AaveMoves
<1>3. AaveTypeOK => AaveStepsWork
  BY OraclesSafe, TargetsMet DEF AaveStepsWork
<1> QED BY <1>1, <1>2, <1>3, PTL DEF AaveSpec

(***************************************************************************)
(* A valuation.  While every read made so far came from where the chain     *)
(* stands, the running total is the part of the vault's net equity that     *)
(* has been read.  A movement makes this void for the valuation under way   *)
(* and for the caches, and an exact total stays the net equity of where it  *)
(* was read.                                                               *)
(***************************************************************************)
Amounts == [idle : Int, supplied : Int, debt : Int, reserve : Int]
EventRow == {"nothing", "pending", "priced", "unpriced"}
Flaw == {"claims", "reserve", "tokens", "shown"}
Movement == [at : Int, usd : Int, net : Int, paidIn : Int, row : EventRow]
Snapshot == [asOf : Int, total : Int, seen : SUBSET Nat, flaws : SUBSET Flaw]
ReadingStep == {"none", "claims", "positions", "idle", "reserve", "valued", "prune"}

ChainOK ==
    /\ vault \in Amounts
    /\ moves \in Seq(Movement) /\ Now > 0
    /\ NetAt(Now) = NetEquity(vault)
    /\ clock \in Int /\ ticked \in Int

\* What a cached read has seen.
AaveOK(e) ==
    /\ e.at \in 0 .. Now /\ e.supplied \in Int /\ e.debt \in Int
    /\ e.claimed \in BOOLEAN /\ e.flaws \in SUBSET Flaw
    /\ e.at = Now /\ e.flaws = {} => e.supplied = vault.supplied /\ e.debt = vault.debt
TokensOK(e) ==
    /\ e.at \in 0 .. Now /\ e.idle \in Int /\ e.aTokens \in Int
    /\ e.flaws \in SUBSET Flaw
    /\ e.at = Now /\ e.flaws = {} => e.idle = vault.idle
CachesOK == (aave = NoEntry \/ AaveOK(aave)) /\ (portfolio = NoEntry \/ TokensOK(portfolio))

\* A total that was read at one point is the net equity of there.
Valued(v) == v.flaws = {} => \A k : v.seen = {k} => v.total = NetAt(k)

SoFar(v) ==
    CASE v.step = "idle" -> vault.supplied - vault.debt
      [] v.step = "reserve" -> vault.supplied - vault.debt + vault.idle
      [] OTHER -> 0

ReadingOK ==
    /\ reading \in [step : ReadingStep, loop : BOOLEAN, total : Int, claimed : BOOLEAN,
                    seen : SUBSET Nat, flaws : SUBSET Flaw]
    /\ reading.seen \subseteq 0 .. Now
    /\ reading.step \in {"claims", "positions"} => reading.total = 0 /\ reading.seen = {}
    /\ reading.step \in {"positions", "idle", "reserve"} /\ reading.flaws = {} => reading.claimed
    /\ reading.step \in {"idle", "reserve"} /\ reading.flaws = {} =>
         /\ reading.seen # {}
         /\ reading.seen = {Now} => reading.total = SoFar(reading)
    /\ reading.step = "valued" => Valued(reading)

SnapsOK ==
    /\ snaps \in Seq(Snapshot)
    /\ \A i \in DOMAIN snaps : snaps[i].seen \subseteq 0 .. Now /\ Valued(snaps[i])

CockpitInv == ChainOK /\ CachesOK /\ ReadingOK /\ SnapsOK

\* What was read before a movement is not from where the chain stands after it.
LEMMA MovementKeeps ==
    ASSUME CockpitInv, NEW v \in Amounts, NEW usd \in Int, Moved(v, usd)
    PROVE  CockpitInv'
<1> DEFINE m == [at |-> clock, usd |-> usd, net |-> NetEquity(v), paidIn |-> PaidInAt(Now) + usd,
                 row |-> IF usd = 0 THEN "nothing" ELSE "pending"]
<1>1. vault' = v /\ moves' = Append(moves, m)
      /\ UNCHANGED <<clock, portfolio, aave, reading, ticked, snaps>>
  BY DEF Moved
<1>2. moves \in Seq(Movement) /\ Now > 0 /\ Now = Len(moves) /\ Now \in Nat
  BY DEF CockpitInv, ChainOK, Now
<1>3. m \in Movement /\ m.net = NetEquity(v)
  <2>1. PaidInAt(Now) \in Int
    <3>1. moves[Now] \in Movement
      BY <1>2
    <3> QED
      BY <1>2, <3>1 DEF PaidInAt, Movement
  <2>2. NetEquity(v) \in Int
    BY DEF NetEquity, Amounts
  <2>3. clock \in Int
    BY DEF CockpitInv, ChainOK
  <2>4. (IF usd = 0 THEN "nothing" ELSE "pending") \in EventRow
    BY DEF EventRow
  <2>5. PaidInAt(Now) + usd \in Int
    BY <2>1
  <2> QED
    BY <2>2, <2>3, <2>4, <2>5 DEF Movement
<1> HIDE DEF m
<1>4. /\ moves' \in Seq(Movement) /\ Now' = Now + 1 /\ moves'[Now + 1] = m
      /\ \A k \in 1 .. Now : moves'[k] = moves[k]
  BY <1>1, <1>2, <1>3, AppendProperties DEF Now
<1>5. \A k \in 0 .. Now : NetAt(k)' = NetAt(k)
  BY <1>2, <1>4 DEF NetAt
<1>6. ChainOK'
  <2>1. NetAt(Now)' = NetEquity(vault)'
    BY <1>1, <1>2, <1>3, <1>4 DEF NetAt, NetEquity
  <2> QED
    BY <1>1, <1>2, <1>4, <2>1 DEF CockpitInv, ChainOK
<1>7. CachesOK'
  BY <1>1, <1>2, <1>4 DEF CockpitInv, CachesOK, AaveOK, TokensOK
<1>8. ASSUME NEW w, w.seen \subseteq 0 .. Now, Valued(w)
      PROVE  w.flaws = {} => \A k : w.seen = {k} => w.total = NetAt(k)'
  <2> SUFFICES ASSUME w.flaws = {}, NEW k, w.seen = {k}
               PROVE  w.total = NetAt(k)'
    OBVIOUS
  <2>1. k \in 0 .. Now /\ w.total = NetAt(k)
    BY <1>8 DEF Valued
  <2> QED
    BY <1>5, <2>1
<1>9. 0 .. Now \subseteq 0 .. Now' /\ Now' \notin 0 .. Now
  BY <1>2, <1>4
<1>10. ReadingOK'
  <2>1. reading' = reading
    BY <1>1
  <2>2. /\ reading \in [step : ReadingStep, loop : BOOLEAN, total : Int, claimed : BOOLEAN,
                        seen : SUBSET Nat, flaws : SUBSET Flaw]
        /\ reading.seen \subseteq 0 .. Now
    BY DEF CockpitInv, ReadingOK
  <2>3. reading.seen \subseteq 0 .. Now' /\ reading.seen # {Now'}
    BY <1>9, <2>2
  <2>4. reading.step = "valued" => Valued(reading)
    BY DEF CockpitInv, ReadingOK
  <2>5. reading.step = "valued" /\ reading.flaws = {} =>
          \A k : reading.seen = {k} => reading.total = NetAt(k)'
    BY <1>8, <2>2, <2>4
  <2>6. (reading.step = "valued" => Valued(reading))'
    BY <2>1, <2>5 DEF Valued
  <2> QED
    BY <2>1, <2>2, <2>3, <2>6 DEF CockpitInv, ReadingOK
<1>11. SnapsOK'
  <2>1. snaps' = snaps /\ snaps \in Seq(Snapshot)
    BY <1>1 DEF CockpitInv, SnapsOK
  <2>2. ASSUME NEW i \in DOMAIN snaps
        PROVE  /\ snaps[i].seen \subseteq 0 .. Now'
               /\ snaps[i].flaws = {} => \A k : snaps[i].seen = {k} => snaps[i].total = NetAt(k)'
    <3>1. snaps[i].seen \subseteq 0 .. Now /\ Valued(snaps[i])
      BY DEF CockpitInv, SnapsOK
    <3> QED
      BY <1>8, <1>9, <3>1
  <2> QED
    BY <2>1, <2>2 DEF SnapsOK, Valued
<1> QED
  BY <1>6, <1>7, <1>10, <1>11 DEF CockpitInv

LEMMA TwoChange ==
    ASSUME NEW S, NEW v \in [idle : S, supplied : S, debt : S, reserve : S],
           NEW x \in S, NEW y \in S
    PROVE  /\ [v EXCEPT !.idle = x, !.supplied = y] \in [idle : S, supplied : S, debt : S, reserve : S]
           /\ [v EXCEPT !.idle = x, !.debt = y] \in [idle : S, supplied : S, debt : S, reserve : S]
           /\ [v EXCEPT !.idle = x, !.reserve = y] \in [idle : S, supplied : S, debt : S, reserve : S]
OBVIOUS

\* The owner, the automations, interest and the keepers.
LEMMA ChainStepsKeep ==
    ASSUME CockpitInv,
           \/ deposit \/ withdraw \/ supply \/ borrow \/ depositFees \/ accrueInterest
           \/ compensate
    PROVE  CockpitInv'
<1>1. vault \in Amounts
  BY DEF CockpitInv, ChainOK
<1>9. vault.idle + 1 \in Int /\ vault.idle - 1 \in Int /\ vault.supplied + 1 \in Int
      /\ vault.debt + 1 \in Int /\ vault.reserve + 1 \in Int
  BY <1>1 DEF Amounts
<1>2. CASE deposit
  <2>1. PICK g \in Gross : Moved([vault EXCEPT !.idle = @ + g - DepositFee(g)], g)
    BY <1>2 DEF deposit
  <2>2. g \in Nat /\ DepositFee(g) \in Int
    BY CockpitAssumption DEF DepositFee
  <2>3. [vault EXCEPT !.idle = @ + g - DepositFee(g)] \in Amounts
    BY <1>1, <2>2 DEF Amounts
  <2> QED
    BY <2>1, <2>2, <2>3, MovementKeeps
<1>3. CASE withdraw
  <2>1. PICK g \in Gross : Moved([vault EXCEPT !.idle = @ - g], -g)
    BY <1>3 DEF withdraw
  <2>2. g \in Nat /\ -g \in Int
    BY CockpitAssumption
  <2>3. [vault EXCEPT !.idle = @ - g] \in Amounts
    BY <1>1, <2>2 DEF Amounts
  <2> QED
    BY <2>1, <2>2, <2>3, MovementKeeps
<1>4. CASE supply
  <2>1. [vault EXCEPT !.idle = @ - 1, !.supplied = @ + 1] \in Amounts
    BY <1>1, <1>9, TwoChange DEF Amounts
  <2> QED
    BY <1>4, <2>1, MovementKeeps DEF supply
<1>5. CASE borrow
  <2>1. [vault EXCEPT !.idle = @ + 1, !.debt = @ + 1] \in Amounts
    BY <1>1, <1>9, TwoChange DEF Amounts
  <2> QED
    BY <1>5, <2>1, MovementKeeps DEF borrow
<1>6. CASE depositFees
  <2>1. [vault EXCEPT !.idle = @ - 1, !.reserve = @ + 1] \in Amounts
    BY <1>1, <1>9, TwoChange DEF Amounts
  <2> QED
    BY <1>6, <2>1, MovementKeeps DEF depositFees
<1>7. CASE accrueInterest
  <2>1. [vault EXCEPT !.supplied = @ + 1] \in Amounts
    BY <1>1 DEF Amounts
  <2> QED
    BY <1>7, <2>1, MovementKeeps DEF accrueInterest
<1>8. CASE compensate
  <2>1. [vault EXCEPT !.reserve = @ - 1] \in Amounts
    BY <1>1 DEF Amounts
  <2> QED
    BY <1>8, <2>1, MovementKeeps DEF compensate
<1> QED
  BY <1>2, <1>3, <1>4, <1>5, <1>6, <1>7, <1>8

\* Steps that leave the chain where it stands leave the readings' worth, too.
LEMMA ChainRests ==
    ASSUME CockpitInv, UNCHANGED <<vault, moves>>
    PROVE  /\ Now' = Now /\ Now \in Nat /\ Now > 0
           /\ \A k : NetAt(k)' = NetAt(k)
           /\ clock' \in Int /\ ticked' \in Int => ChainOK'
           /\ UNCHANGED <<aave, portfolio>> => CachesOK'
           /\ UNCHANGED reading => ReadingOK'
           /\ UNCHANGED snaps => SnapsOK'
<1>1. moves \in Seq(Movement) /\ Now > 0 /\ Now \in Nat /\ Now' = Now
  BY DEF CockpitInv, ChainOK, Now
<1>2. \A k : NetAt(k)' = NetAt(k)
  BY DEF NetAt
<1>3. clock' \in Int /\ ticked' \in Int => ChainOK'
  BY <1>1, <1>2 DEF CockpitInv, ChainOK, NetEquity, NetAt
<1>4. UNCHANGED <<aave, portfolio>> => CachesOK'
  BY <1>1 DEF CockpitInv, CachesOK, AaveOK, TokensOK
<1>5. UNCHANGED reading => ReadingOK'
  BY <1>1, <1>2 DEF CockpitInv, ReadingOK, Valued, SoFar
<1>6. UNCHANGED snaps => SnapsOK'
  BY <1>1, <1>2 DEF CockpitInv, SnapsOK, Valued
<1> QED
  BY <1>1, <1>2, <1>3, <1>4, <1>5, <1>6

\* The indexer's row of a movement says nothing of its worth.
LEMMA PersistKeeps == ASSUME CockpitInv, persistVaultEvent PROVE CockpitInv'
<1>1. PICK i \in DOMAIN moves, row \in {"priced", "unpriced"} :
        /\ moves' = [moves EXCEPT ![i].row = row]
        /\ UNCHANGED <<vault, clock, portfolio, aave, reading, ticked, snaps>>
  BY DEF persistVaultEvent
<1>2. moves \in Seq(Movement) /\ Now > 0 /\ Now = Len(moves) /\ Now \in Nat
  BY DEF CockpitInv, ChainOK, Now
<1>3. row \in EventRow /\ moves[i] \in Movement
  BY <1>1, <1>2 DEF EventRow
<1>4. moves' = [moves EXCEPT ![i] = [moves[i] EXCEPT !.row = row]]
  BY <1>1
<1>5. [moves[i] EXCEPT !.row = row] \in Movement /\ [moves[i] EXCEPT !.row = row].net = moves[i].net
  BY <1>3 DEF Movement
<1>6. moves' \in Seq(Movement) /\ Len(moves') = Len(moves) /\ DOMAIN moves' = DOMAIN moves
  BY <1>1, <1>2, <1>4, <1>5
<1>7. \A k \in 1 .. Now : moves'[k].net = moves[k].net
  BY <1>2, <1>4, <1>5
<1>8. Now' = Now /\ \A k \in 0 .. Now : NetAt(k)' = NetAt(k)
  BY <1>2, <1>6, <1>7 DEF NetAt, Now
<1>9. ChainOK'
  BY <1>1, <1>2, <1>6, <1>8 DEF CockpitInv, ChainOK, NetEquity
<1>10. CachesOK'
  BY <1>1, <1>8 DEF CockpitInv, CachesOK, AaveOK, TokensOK
<1>11. ASSUME NEW w, w.seen \subseteq 0 .. Now, Valued(w)
       PROVE  w.flaws = {} => \A k : w.seen = {k} => w.total = NetAt(k)'
  <2> SUFFICES ASSUME w.flaws = {}, NEW k, w.seen = {k}
               PROVE  w.total = NetAt(k)'
    OBVIOUS
  <2>1. k \in 0 .. Now /\ w.total = NetAt(k)
    BY <1>11 DEF Valued
  <2> QED
    BY <1>8, <2>1
<1>12. ReadingOK'
  <2>1. reading.seen \subseteq 0 .. Now /\ (reading.step = "valued" => Valued(reading))
    BY DEF CockpitInv, ReadingOK
  <2>2. reading.step = "valued" /\ reading.flaws = {} =>
          \A k : reading.seen = {k} => reading.total = NetAt(k)'
    BY <1>11, <2>1
  <2>3. (reading.step = "valued" => Valued(reading))'
    BY <1>1, <2>2 DEF Valued
  <2> QED
    BY <1>1, <1>8, <2>3 DEF CockpitInv, ReadingOK, SoFar
<1>13. SnapsOK'
  <2>1. ASSUME NEW j \in DOMAIN snaps
        PROVE  /\ snaps[j].seen \subseteq 0 .. Now
               /\ snaps[j].flaws = {} => \A k : snaps[j].seen = {k} => snaps[j].total = NetAt(k)'
    <3>1. snaps[j].seen \subseteq 0 .. Now /\ Valued(snaps[j])
      BY DEF CockpitInv, SnapsOK
    <3> QED
      BY <1>11, <3>1
  <2> QED
    BY <1>1, <1>8, <2>1 DEF CockpitInv, SnapsOK, Valued
<1> QED
  BY <1>9, <1>10, <1>12, <1>13 DEF CockpitInv

\* What a read that is not served from a cache says of the vault.
LEMMA ReadsTell ==
    ASSUME CockpitInv
    PROVE  /\ \A read \in PortfolioReads :
                /\ read.at = Now /\ read.idle \in Int /\ read.aTokens \in Int
                /\ read.flaws \in SUBSET Flaw
                /\ read.flaws = {} => read.idle = vault.idle
           /\ \A read \in AaveReads :
                /\ read.at = Now /\ read.supplied \in Int /\ read.debt \in Int
                /\ read.claimed \in BOOLEAN /\ read.flaws \in SUBSET Flaw
                /\ read.flaws = {} =>
                     read.claimed /\ read.supplied = vault.supplied /\ read.debt = vault.debt
<1>1. vault.idle \in Int /\ vault.supplied \in Int /\ vault.debt \in Int
  BY DEF CockpitInv, ChainOK, Amounts
<1>2. ASSUME NEW read \in PortfolioReads
      PROVE  /\ read.at = Now /\ read.idle \in Int /\ read.aTokens \in Int
             /\ read.flaws \in SUBSET Flaw
             /\ read.flaws = {} => read.idle = vault.idle
  <2>1. CASE \E x \in {0, vault.supplied} :
               read = [idle |-> vault.idle, aTokens |-> x, flaws |-> {}, at |-> Now]
    BY <1>1, <2>1
  <2>2. CASE \E f \in {{"tokens"}, {"shown"}} :
               read = [idle |-> 0, aTokens |-> 0, flaws |-> f, at |-> Now]
    <3>1. PICK f \in {{"tokens"}, {"shown"}} :
                 read = [idle |-> 0, aTokens |-> 0, flaws |-> f, at |-> Now]
      BY <2>2
    <3>2. f # {} /\ f \in SUBSET Flaw
      BY DEF Flaw
    <3> QED
      BY <3>1, <3>2
  <2> QED
    BY <2>1, <2>2 DEF PortfolioReads
<1>3. ASSUME NEW read \in AaveReads
      PROVE  /\ read.at = Now /\ read.supplied \in Int /\ read.debt \in Int
             /\ read.claimed \in BOOLEAN /\ read.flaws \in SUBSET Flaw
             /\ read.flaws = {} =>
                  read.claimed /\ read.supplied = vault.supplied /\ read.debt = vault.debt
  <2>1. {"reserve"} # {} /\ {"reserve"} \in SUBSET Flaw
    BY DEF Flaw
  <2>2. CASE read = [claimed |-> TRUE, supplied |-> vault.supplied, debt |-> vault.debt,
                     flaws |-> {}, at |-> Now]
    BY <1>1, <2>2
  <2>3. CASE read = [claimed |-> TRUE, supplied |-> 0, debt |-> 0, flaws |-> {"reserve"},
                     at |-> Now]
    BY <2>1, <2>3
  <2>4. CASE read = [claimed |-> FALSE, supplied |-> 0, debt |-> 0, flaws |-> {"reserve"},
                     at |-> Now]
    BY <2>1, <2>4
  <2> QED
    BY <2>2, <2>3, <2>4 DEF AaveReads
<1> QED
  BY <1>2, <1>3

\* A read begins; time passes and the caches age.
LEMMA BeginningsKeep ==
    ASSUME CockpitInv, pass \/ snapshotTick \/ getPositionsView \/ answerView \/ getOverview
    PROVE  CockpitInv'
<1> USE DEF CockpitInv
<1>1. UNCHANGED <<vault, moves, snaps>> /\ clock' \in Int /\ ticked' \in Int
  BY DEF pass, snapshotTick, getPositionsView, answerView, getOverview, ChainOK
<1>2. ChainOK' /\ SnapsOK' /\ Now' = Now
  BY <1>1, ChainRests
<1>3. ASSUME NEW next \in {"none", "claims"}, NEW loop \in BOOLEAN,
             reading' = [step |-> next, loop |-> loop, total |-> 0, claimed |-> FALSE,
                         seen |-> {}, flaws |-> {}]
      PROVE  ReadingOK'
  BY <1>3 DEF ReadingOK, ReadingStep, Flaw
<1>4. CASE pass
  <2>1. ReadingOK'
    BY <1>1, <1>4, ChainRests DEF pass
  <2>2. CachesOK'
    BY <1>4 DEF pass, CachesOK
  <2> QED
    BY <1>2, <2>1, <2>2
<1>5. CASE snapshotTick
  <2>1. CachesOK'
    BY <1>1, <1>5, ChainRests DEF snapshotTick
  <2>2. reading' = [step |-> "claims", loop |-> TRUE, total |-> 0, claimed |-> FALSE,
                    seen |-> {}, flaws |-> {}]
    BY <1>5 DEF snapshotTick, NotReading
  <2>3. ReadingOK'
    BY <1>3, <2>2
  <2> QED
    BY <1>2, <2>1, <2>3
<1>6. CASE getPositionsView
  <2>1. CachesOK'
    BY <1>1, <1>6, ChainRests DEF getPositionsView
  <2>2. reading' = [step |-> "claims", loop |-> FALSE, total |-> 0, claimed |-> FALSE,
                    seen |-> {}, flaws |-> {}]
    BY <1>6 DEF getPositionsView, NotReading
  <2>3. ReadingOK'
    BY <1>3, <2>2
  <2> QED
    BY <1>2, <2>1, <2>3
<1>7. CASE answerView
  <2>1. CachesOK'
    BY <1>1, <1>7, ChainRests DEF answerView
  <2>2. reading' = [step |-> "none", loop |-> FALSE, total |-> 0, claimed |-> FALSE,
                    seen |-> {}, flaws |-> {}]
    BY <1>7 DEF answerView, NotReading
  <2>3. ReadingOK'
    BY <1>3, <2>2
  <2> QED
    BY <1>2, <2>1, <2>3
<1>8. CASE getOverview
  <2>1. ReadingOK'
    BY <1>1, <1>8, ChainRests DEF getOverview
  <2>2. PICK read \in PortfolioReads : portfolio' = read /\ aave' = aave
    BY <1>8 DEF getOverview
  <2>3. read.at = Now /\ read.idle \in Int /\ read.aTokens \in Int
        /\ read.flaws \in SUBSET Flaw
        /\ (read.flaws = {} => read.idle = vault.idle)
    BY <2>2, ReadsTell
  <2>4. Now \in 0 .. Now
    BY DEF ChainOK, Now
  <2>5. TokensOK(portfolio)'
    BY <1>1, <1>2, <2>2, <2>3, <2>4 DEF TokensOK
  <2>6. (aave = NoEntry \/ AaveOK(aave))'
    BY <1>1, <1>2, <2>2 DEF CachesOK, AaveOK
  <2> QED
    BY <1>2, <2>1, <2>5, <2>6 DEF CachesOK
<1> QED
  BY <1>4, <1>5, <1>6, <1>7, <1>8

\* What the next step of a valuation needs of it.
ReadingShape ==
    [step : ReadingStep, loop : BOOLEAN, total : Int, claimed : BOOLEAN,
     seen : SUBSET Nat, flaws : SUBSET Flaw]

\* A read from where the chain stands, or an earlier one, adds its part to the total.
LEMMA Added ==
    ASSUME CockpitInv, NEW seen \in SUBSET Nat, seen \subseteq 0 .. Now, NEW at \in 0 .. Now
    PROVE  /\ seen \cup {at} \in SUBSET Nat /\ seen \cup {at} \subseteq 0 .. Now
           /\ seen \cup {at} # {}
           /\ seen # {} /\ seen \cup {at} = {Now} => seen = {Now} /\ at = Now
<1>1. Now \in Nat
  BY DEF CockpitInv, ChainOK, Now
<1> QED
  BY <1>1

\* A read through a cache is as good as the cache's entry.
LEMMA ReadServed ==
    ASSUME CockpitInv
    PROVE  /\ \A read \in Through(aave, AaveReads) : AaveOK(read)
           /\ \A read \in Through(portfolio, PortfolioReads) : TokensOK(read)
<1>1. Now \in 0 .. Now
  BY DEF CockpitInv, ChainOK, Now
<1>2. ASSUME NEW read \in Through(aave, AaveReads) PROVE AaveOK(read)
  <2>1. CASE read \in AaveReads
    BY <1>1, <2>1, ReadsTell DEF AaveOK
  <2>2. CASE aave # NoEntry /\ read = aave
    BY <2>2 DEF CockpitInv, CachesOK
  <2> QED
    BY <2>1, <2>2 DEF Through
<1>3. ASSUME NEW read \in Through(portfolio, PortfolioReads) PROVE TokensOK(read)
  <2>1. CASE read \in PortfolioReads
    BY <1>1, <2>1, ReadsTell DEF TokensOK
  <2>2. CASE portfolio # NoEntry /\ read = portfolio
    BY <2>2 DEF CockpitInv, CachesOK
  <2> QED
    BY <2>1, <2>2 DEF Through
<1> QED
  BY <1>2, <1>3

LEMMA ReadClaimsKeeps == ASSUME CockpitInv, readClaims PROVE CockpitInv'
<1> USE DEF CockpitInv
<1>1. /\ reading.step = "claims" /\ UNCHANGED <<vault, moves, clock, portfolio, ticked, snaps>>
  BY DEF readClaims, Reading
<1>2. clock' \in Int /\ ticked' \in Int
  BY <1>1 DEF ChainOK
<1>3. ChainOK' /\ SnapsOK' /\ Now' = Now
  BY <1>1, <1>2, ChainRests
<1>4. /\ reading \in ReadingShape /\ reading.seen = {} /\ reading.total = 0
  BY <1>1 DEF ReadingOK, ReadingShape
<1>5. (portfolio = NoEntry \/ TokensOK(portfolio))'
  BY <1>1, <1>3 DEF CachesOK, TokensOK
<1>6. ASSUME NEW claimed \in BOOLEAN, NEW flaws \in SUBSET Flaw, flaws = {} => claimed,
             reading' = [reading EXCEPT !.step = "positions", !.claimed = claimed, !.flaws = flaws]
      PROVE  ReadingOK'
  <2>1. /\ reading'.step = "positions" /\ reading'.seen = {} /\ reading'.total = 0
        /\ reading'.claimed = claimed /\ reading'.flaws = flaws
        /\ reading' \in ReadingShape
    BY <1>4, <1>6 DEF ReadingShape, ReadingStep
  <2> QED
    BY <1>6, <2>1 DEF ReadingOK, ReadingShape
<1>7. reading.flaws \cup {"claims"} \in SUBSET Flaw /\ reading.flaws \cup {"claims"} # {}
  BY <1>4 DEF ReadingShape, Flaw
<1>8. CASE \E read \in Through(aave, AaveReads) :
              /\ aave' = read
              /\ reading' = [reading EXCEPT !.step = "positions", !.claimed = read.claimed,
                                !.flaws = IF read.claimed THEN @ ELSE @ \cup {"claims"}]
  <2>1. PICK read \in Through(aave, AaveReads) :
              /\ aave' = read
              /\ reading' = [reading EXCEPT !.step = "positions", !.claimed = read.claimed,
                                !.flaws = IF read.claimed THEN @ ELSE @ \cup {"claims"}]
    BY <1>8
  <2>2. AaveOK(read) /\ read.claimed \in BOOLEAN
    BY <2>1, ReadServed DEF AaveOK
  <2> DEFINE flaws == IF read.claimed THEN reading.flaws ELSE reading.flaws \cup {"claims"}
  <2>3. flaws \in SUBSET Flaw /\ (flaws = {} => read.claimed)
    BY <1>4, <1>7 DEF ReadingShape
  <2>4. reading' = [reading EXCEPT !.step = "positions", !.claimed = read.claimed, !.flaws = flaws]
    BY <2>1
  <2> HIDE DEF flaws
  <2>5. ReadingOK'
    BY <1>6, <2>2, <2>3, <2>4
  <2>6. AaveOK(aave)'
    BY <1>1, <1>3, <2>1, <2>2 DEF AaveOK
  <2> QED
    BY <1>3, <1>5, <2>5, <2>6 DEF CachesOK
<1>9. CASE /\ reading' = [reading EXCEPT !.step = "positions", !.flaws = @ \cup {"claims"}]
           /\ aave' = NoEntry
  <2>1. reading' = [reading EXCEPT !.step = "positions", !.claimed = reading.claimed,
                       !.flaws = reading.flaws \cup {"claims"}]
    BY <1>4, <1>9 DEF ReadingShape
  <2>2. ReadingOK'
    BY <1>4, <1>6, <1>7, <2>1 DEF ReadingShape
  <2> QED
    BY <1>3, <1>5, <1>9, <2>2 DEF CachesOK
<1> QED
  BY <1>8, <1>9 DEF readClaims

\* A step that reads `usd` from `at`, with its flaws.
LEMMA ReadAdds ==
    ASSUME CockpitInv, UNCHANGED <<vault, moves>>,
           NEW next \in {"idle", "reserve"}, NEW read, NEW usd \in Int,
           read.at \in 0 .. Now, read.flaws \in SUBSET Flaw,
           reading.step = IF next = "idle" THEN "positions" ELSE "idle",
           Reads(next, read, usd),
           reading.flaws = {} /\ read.flaws = {} /\ read.at = Now =>
              usd = IF next = "idle" THEN vault.supplied - vault.debt ELSE vault.idle
    PROVE  ReadingOK'
<1> DEFINE total == reading.total + usd
           seen == reading.seen \cup {read.at}
           flaws == reading.flaws \cup read.flaws
<1>1. /\ reading \in ReadingShape /\ reading.seen \subseteq 0 .. Now
      /\ reading.flaws = {} => reading.claimed
      /\ next = "idle" => reading.total = 0 /\ reading.seen = {}
      /\ next = "reserve" /\ reading.flaws = {} =>
           /\ reading.seen # {}
           /\ reading.seen = {Now} => reading.total = vault.supplied - vault.debt
  BY DEF CockpitInv, ReadingOK, ReadingShape, SoFar
<1>2. reading' = [reading EXCEPT !.step = next, !.total = total, !.seen = seen, !.flaws = flaws]
  BY <1>1 DEF Reads, ReadingShape
<1>3. total \in Int /\ flaws \in SUBSET Flaw
  BY <1>1 DEF ReadingShape
<1>4. /\ seen \in SUBSET Nat /\ seen \subseteq 0 .. Now /\ seen # {}
      /\ reading.seen # {} /\ seen = {Now} => reading.seen = {Now} /\ read.at = Now
  BY <1>1, Added DEF ReadingShape
<1>5. reading.seen = {} /\ seen = {Now} => read.at = Now
  OBVIOUS
<1>6. /\ vault.supplied \in Int /\ vault.debt \in Int /\ vault.idle \in Int
      /\ Now' = Now /\ vault' = vault
  BY DEF CockpitInv, ChainOK, Amounts, Now
<1>7. flaws = {} => reading.flaws = {} /\ read.flaws = {}
  OBVIOUS
<1>8. flaws = {} /\ seen = {Now} =>
        total = IF next = "idle" THEN vault.supplied - vault.debt
                ELSE vault.supplied - vault.debt + vault.idle
  <2> SUFFICES ASSUME flaws = {}, seen = {Now}
               PROVE  total = IF next = "idle" THEN vault.supplied - vault.debt
                              ELSE vault.supplied - vault.debt + vault.idle
    OBVIOUS
  <2>1. reading.flaws = {} /\ read.flaws = {}
    BY <1>7
  <2>2. CASE next = "idle"
    <3>1. read.at = Now /\ reading.total = 0
      BY <1>1, <1>5, <2>2
    <3>2. usd = vault.supplied - vault.debt
      BY <2>1, <2>2, <3>1
    <3> QED
      BY <1>6, <2>2, <3>1, <3>2
  <2>3. CASE next = "reserve"
    <3>1. read.at = Now /\ reading.total = vault.supplied - vault.debt
      BY <1>1, <1>4, <2>1, <2>3
    <3>2. usd = vault.idle
      BY <2>1, <2>3, <3>1
    <3> QED
      BY <1>6, <2>3, <3>1, <3>2
  <2> QED
    BY <2>2, <2>3
<1> HIDE DEF total, seen, flaws
<1>9. /\ reading'.step = next /\ reading'.total = total /\ reading'.seen = seen
      /\ reading'.flaws = flaws /\ reading'.claimed = reading.claimed /\ reading' \in ReadingShape
  BY <1>1, <1>2, <1>3, <1>4 DEF ReadingShape, ReadingStep
<1>10. flaws = {} => reading.claimed
  BY <1>1, <1>7
<1> QED
  BY <1>4, <1>6, <1>8, <1>9, <1>10 DEF ReadingOK, ReadingShape, SoFar

\* A failed read is a row without a value, and a flaw.
LEMMA ReadFailed ==
    ASSUME CockpitInv, UNCHANGED <<vault, moves>>, NEW next \in {"idle", "reserve"},
           reading' = [reading EXCEPT !.step = next, !.flaws = @ \cup {"shown"}]
    PROVE  ReadingOK'
<1>1. reading \in ReadingShape /\ reading.seen \subseteq 0 .. Now
  BY DEF CockpitInv, ReadingOK, ReadingShape
<1>2. reading.flaws \cup {"shown"} \in SUBSET Flaw /\ reading.flaws \cup {"shown"} # {}
  BY <1>1 DEF ReadingShape, Flaw
<1>3. /\ reading'.step = next /\ reading'.seen = reading.seen /\ reading'.flaws # {}
      /\ reading' \in ReadingShape
  BY <1>1, <1>2 DEF ReadingShape, ReadingStep
<1>4. Now' = Now
  BY DEF Now
<1> QED
  BY <1>1, <1>3, <1>4 DEF ReadingOK, ReadingShape

LEMMA ReadPositionsKeeps == ASSUME CockpitInv, readPositions PROVE CockpitInv'
<1>1. /\ reading.step = "positions" /\ UNCHANGED <<vault, moves, clock, portfolio, ticked, snaps>>
  BY DEF readPositions, Reading
<1>2. ChainOK' /\ SnapsOK' /\ Now' = Now
  BY <1>1, ChainRests DEF CockpitInv, ChainOK
<1>3. (portfolio = NoEntry \/ TokensOK(portfolio))'
  BY <1>1, <1>2 DEF CockpitInv, CachesOK, TokensOK
<1>4. CASE \E read \in Through(aave, AaveReads) :
              aave' = read /\ Reads("idle", read, read.supplied - read.debt)
  <2>1. PICK read \in Through(aave, AaveReads) :
              aave' = read /\ Reads("idle", read, read.supplied - read.debt)
    BY <1>4
  <2>2. AaveOK(read)
    BY <2>1, ReadServed
  <2>3. read.supplied - read.debt \in Int
    BY <2>2 DEF AaveOK
  <2>4. /\ read.at \in 0 .. Now /\ read.flaws \in SUBSET Flaw
        /\ read.flaws = {} /\ read.at = Now =>
             read.supplied - read.debt = vault.supplied - vault.debt
    BY <2>2 DEF AaveOK
  <2>5. ReadingOK'
    BY <1>1, <2>1, <2>3, <2>4, ReadAdds
  <2>6. AaveOK(aave)'
    BY <1>1, <1>2, <2>1, <2>2 DEF AaveOK
  <2> QED
    BY <1>2, <1>3, <2>5, <2>6 DEF CockpitInv, CachesOK
<1>5. CASE /\ reading' = [reading EXCEPT !.step = "idle", !.flaws = @ \cup {"shown"}]
           /\ aave' = NoEntry
  <2>1. ReadingOK'
    BY <1>1, <1>5, ReadFailed
  <2> QED
    BY <1>2, <1>3, <1>5, <2>1 DEF CockpitInv, CachesOK
<1> QED
  BY <1>4, <1>5 DEF readPositions

LEMMA ReadIdleKeeps == ASSUME CockpitInv, readIdle PROVE CockpitInv'
<1>1. /\ reading.step = "idle" /\ UNCHANGED <<vault, moves, clock, aave, ticked, snaps>>
  BY DEF readIdle, Reading
<1>2. ChainOK' /\ SnapsOK' /\ Now' = Now
  BY <1>1, ChainRests DEF CockpitInv, ChainOK
<1>3. (aave = NoEntry \/ AaveOK(aave))'
  BY <1>1, <1>2 DEF CockpitInv, CachesOK, AaveOK
<1>4. CASE \E read \in Through(portfolio, PortfolioReads) :
              portfolio' = read /\ Reads("reserve", read, Idle(read, reading.claimed))
  <2>1. PICK read \in Through(portfolio, PortfolioReads) :
              portfolio' = read /\ Reads("reserve", read, Idle(read, reading.claimed))
    BY <1>4
  <2>2. TokensOK(read)
    BY <2>1, ReadServed
  \* The aTokens are left out unless the claims were not read.
  <2>3. Idle(read, reading.claimed) \in Int /\ (reading.claimed => Idle(read, reading.claimed) = read.idle)
    BY <2>2 DEF TokensOK, Idle
  <2>4. reading.flaws = {} => reading.claimed
    BY <1>1 DEF CockpitInv, ReadingOK
  <2>5. /\ read.at \in 0 .. Now /\ read.flaws \in SUBSET Flaw
        /\ reading.flaws = {} /\ read.flaws = {} /\ read.at = Now =>
             Idle(read, reading.claimed) = vault.idle
    BY <2>2, <2>3, <2>4 DEF TokensOK
  <2>6. ReadingOK'
    BY <1>1, <2>1, <2>3, <2>5, ReadAdds
  <2>7. TokensOK(portfolio)'
    BY <1>1, <1>2, <2>1, <2>2 DEF TokensOK
  <2> QED
    BY <1>2, <1>3, <2>6, <2>7 DEF CockpitInv, CachesOK
<1>5. CASE /\ reading' = [reading EXCEPT !.step = "reserve", !.flaws = @ \cup {"shown"}]
           /\ portfolio' = NoEntry
  <2>1. ReadingOK'
    BY <1>1, <1>5, ReadFailed
  <2> QED
    BY <1>2, <1>3, <1>5, <2>1 DEF CockpitInv, CachesOK
<1> QED
  BY <1>4, <1>5 DEF readIdle

\* The last read is never from a cache: if it agrees with the others, all came from where
\* the chain stands now, and their sum is the vault's net equity.
LEMMA ReadReserveKeeps == ASSUME CockpitInv, readReserve PROVE CockpitInv'
<1>1. /\ reading.step = "reserve"
      /\ UNCHANGED <<vault, moves, clock, portfolio, aave, ticked, snaps>>
  BY DEF readReserve, Reading
<1>2. ChainOK' /\ SnapsOK' /\ CachesOK' /\ Now' = Now /\ Now \in 0 .. Now /\ \A k : NetAt(k)' = NetAt(k)
  BY <1>1, ChainRests DEF CockpitInv, ChainOK
<1>3. PICK read \in {[usd |-> vault.reserve, flaws |-> {}, at |-> Now],
                    [usd |-> 0, flaws |-> {"shown"}, at |-> Now]} :
             Reads("valued", read, read.usd)
  BY DEF readReserve
<1>4. /\ vault.supplied \in Int /\ vault.debt \in Int /\ vault.idle \in Int /\ vault.reserve \in Int
      /\ NetAt(Now) = vault.idle + vault.supplied - vault.debt + vault.reserve
  BY DEF CockpitInv, ChainOK, Amounts, NetEquity
<1>5. /\ read.at = Now /\ read.usd \in Int /\ read.flaws \in SUBSET Flaw
      /\ read.flaws = {} => read.usd = vault.reserve
  <2>1. {"shown"} # {} /\ {"shown"} \in SUBSET Flaw
    BY DEF Flaw
  <2>2. CASE read = [usd |-> vault.reserve, flaws |-> {}, at |-> Now]
    BY <1>4, <2>2
  <2>3. CASE read = [usd |-> 0, flaws |-> {"shown"}, at |-> Now]
    BY <2>1, <2>3
  <2> QED
    BY <1>3, <2>2, <2>3
<1> DEFINE total == reading.total + read.usd
           seen == reading.seen \cup {read.at}
           flaws == reading.flaws \cup read.flaws
<1>6. /\ reading \in ReadingShape /\ reading.seen \subseteq 0 .. Now
      /\ reading.flaws = {} =>
           /\ reading.seen # {}
           /\ reading.seen = {Now} => reading.total = vault.supplied - vault.debt + vault.idle
  BY <1>1 DEF CockpitInv, ReadingOK, ReadingShape, SoFar
<1>7. reading' = [reading EXCEPT !.step = "valued", !.total = total, !.seen = seen, !.flaws = flaws]
  BY <1>3, <1>6 DEF Reads, ReadingShape
<1>8. total \in Int /\ flaws \in SUBSET Flaw
  BY <1>5, <1>6 DEF ReadingShape
<1>9. seen \in SUBSET Nat /\ seen \subseteq 0 .. Now
  BY <1>2, <1>5, <1>6, Added DEF ReadingShape
<1>10. ASSUME flaws = {}, NEW k, seen = {k} PROVE total = NetAt(k)
  <2>1. reading.flaws = {} /\ read.flaws = {}
    BY <1>10
  <2>2. k = Now /\ reading.seen = {Now}
    BY <1>5, <1>6, <1>10, <2>1
  <2>3. reading.total = vault.supplied - vault.debt + vault.idle /\ read.usd = vault.reserve
    BY <1>5, <1>6, <2>1, <2>2
  <2> QED
    BY <1>4, <2>2, <2>3
<1> HIDE DEF total, seen, flaws
<1>11. /\ reading'.step = "valued" /\ reading'.total = total /\ reading'.seen = seen
       /\ reading'.flaws = flaws /\ reading' \in ReadingShape
  BY <1>6, <1>7, <1>8, <1>9 DEF ReadingShape, ReadingStep
<1>12. Valued(reading)'
  BY <1>2, <1>10, <1>11 DEF Valued
<1>13. ReadingOK'
  BY <1>2, <1>9, <1>11, <1>12 DEF ReadingOK, ReadingShape
<1> QED
  BY <1>2, <1>13 DEF CockpitInv

\* What the loop stores is the valuation it has made.
LEMMA LoopKeeps == ASSUME CockpitInv, createSnapshot \/ prune PROVE CockpitInv'
<1>1. UNCHANGED <<vault, moves, clock, portfolio, aave, ticked>>
  BY DEF createSnapshot, prune
<1>2. ChainOK' /\ CachesOK' /\ Now' = Now /\ \A k : NetAt(k)' = NetAt(k)
  BY <1>1, ChainRests DEF CockpitInv, ChainOK
<1>3. snaps \in Seq(Snapshot)
      /\ \A i \in DOMAIN snaps : snaps[i].seen \subseteq 0 .. Now /\ Valued(snaps[i])
  BY DEF CockpitInv, SnapsOK
<1>4. ReadingOK'
  <2>1. \E next \in {"none", "prune"}, loop \in BOOLEAN :
           reading' = [step |-> next, loop |-> loop, total |-> 0, claimed |-> FALSE,
                       seen |-> {}, flaws |-> {}]
    BY DEF createSnapshot, prune, NotReading
  <2> QED
    BY <2>1 DEF ReadingOK, ReadingStep, Flaw
<1>5. ASSUME NEW rs, rs \in Seq(Snapshot), snaps' = rs,
             \A i \in DOMAIN rs : rs[i].seen \subseteq 0 .. Now /\ Valued(rs[i])
      PROVE  SnapsOK'
  BY <1>2, <1>5 DEF SnapsOK, Valued
<1>6. CASE createSnapshot
  <2> DEFINE s == [asOf |-> clock, total |-> reading.total, seen |-> reading.seen,
                   flaws |-> reading.flaws]
  <2>1. snaps' = Append(snaps, s) \/ snaps' = snaps
    BY <1>6 DEF createSnapshot
  <2>2. s \in Snapshot /\ s.seen \subseteq 0 .. Now /\ Valued(s)
    <3>1. reading.step = "valued" /\ clock \in Int
      BY <1>6 DEF createSnapshot, Reading, CockpitInv, ChainOK
    <3> QED
      BY <3>1 DEF CockpitInv, ReadingOK, Snapshot, Valued
  <2> HIDE DEF s
  <2>3. CASE snaps' = Append(snaps, s)
    <3> DEFINE rs == Append(snaps, s)
    <3>1. /\ rs \in Seq(Snapshot) /\ Len(rs) = Len(snaps) + 1 /\ rs[Len(snaps) + 1] = s
          /\ \A i \in 1 .. Len(snaps) : rs[i] = snaps[i]
      BY <1>3, <2>2, AppendProperties
    <3> HIDE DEF rs
    <3>2. ASSUME NEW i \in DOMAIN rs PROVE rs[i].seen \subseteq 0 .. Now /\ Valued(rs[i])
      <4>1. CASE i = Len(snaps) + 1
        BY <2>2, <3>1, <4>1
      <4>2. CASE i \in 1 .. Len(snaps)
        BY <1>3, <3>1, <4>2
      <4> QED
        BY <1>3, <3>1, <4>1, <4>2
    <3>3. snaps' = rs
      BY <2>3 DEF rs
    <3> QED
      BY <1>2, <1>4, <1>5, <3>1, <3>2, <3>3 DEF CockpitInv
  <2>4. CASE snaps' = snaps
    BY <1>2, <1>3, <1>4, <1>5, <2>4 DEF CockpitInv
  <2> QED
    BY <2>1, <2>3, <2>4
<1>7. CASE prune
  <2> DEFINE kept == {i \in DOMAIN snaps : snaps[i].asOf >= clock - Retention}
             from == Len(snaps) - Cardinality(kept) + 1
             rs == SubSeq(snaps, from, Len(snaps))
  <2>1. snaps' = rs
    BY <1>7 DEF prune
  <2>2. from \in 1 .. Len(snaps) + 1
    <3>1. IsFiniteSet(DOMAIN snaps) /\ Cardinality(DOMAIN snaps) = Len(snaps)
      <4>1. DOMAIN snaps = 1 .. Len(snaps) /\ Len(snaps) \in Nat
        BY <1>3
      <4> DEFINE n == Len(snaps)
      <4>2. n \in Int /\ 1 \in Int
        BY <4>1
      <4> HIDE DEF n
      <4>3. IsFiniteSet(1 .. n) /\ Cardinality(1 .. n) = IF 1 > n THEN 0 ELSE n - 1 + 1
        BY <4>2, FS_Interval
      <4> QED
        BY <4>1, <4>3 DEF n
    <3>2. kept \in SUBSET DOMAIN snaps
      OBVIOUS
    <3>3. Cardinality(kept) <= Len(snaps) /\ Cardinality(kept) \in Nat
      BY <3>1, <3>2, FS_Subset, FS_CardinalityType
    <3> QED
      BY <1>3, <3>3
  <2> HIDE DEF from
  <2>3. /\ rs \in Seq(Snapshot) /\ Len(rs) = Len(snaps) - from + 1
        /\ \A i \in 1 .. Len(rs) : rs[i] = snaps[from + i - 1] /\ from + i - 1 \in DOMAIN snaps
    BY <1>3, <2>2, SubSeqProperties
  <2> HIDE DEF rs
  <2>4. ASSUME NEW i \in DOMAIN rs PROVE rs[i].seen \subseteq 0 .. Now /\ Valued(rs[i])
    BY <1>3, <2>3
  <2> QED
    BY <1>2, <1>4, <1>5, <2>1, <2>3, <2>4 DEF CockpitInv
<1> QED
  BY <1>6, <1>7

LEMMA CockpitStart == ASSUME CockpitInit PROVE CockpitInv
<1> USE DEF CockpitInit
<1>1. ChainOK
  BY DEF ChainOK, Amounts, Movement, EventRow, Now, NetAt, NetEquity, FirstGross
<1>2. CachesOK
  BY DEF CachesOK
<1>3. ReadingOK
  BY DEF ReadingOK, ReadingStep, NotReading
<1>4. SnapsOK
  BY DEF SnapsOK
<1> QED
  BY <1>1, <1>2, <1>3, <1>4 DEF CockpitInv

LEMMA CockpitSteps == ASSUME CockpitInv, [CockpitNext]_cockpitVars PROVE CockpitInv'
<1>1. CASE UNCHANGED cockpitVars
  BY <1>1, ChainRests DEF cockpitVars, CockpitInv, ChainOK
<1> QED
  BY <1>1, ChainStepsKeep, PersistKeeps, BeginningsKeep, ReadClaimsKeeps, ReadPositionsKeeps,
     ReadIdleKeeps, ReadReserveKeeps, LoopKeeps DEF CockpitNext

LEMMA SoundIs ==
    ASSUME Now \in Nat, NEW v, v.seen \subseteq 0 .. Now, Valued(v), Sound(v)
    PROVE  SeenBy(v) \in 0 .. Now /\ v.total = NetAt(SeenBy(v))
<1>1. IsFiniteSet(v.seen)
  <2>1. 0 \in Int /\ Now \in Int
    OBVIOUS
  <2>2. IsFiniteSet(0 .. Now)
    BY <2>1, FS_Interval
  <2> QED BY <2>2, FS_Subset
<1>2. PICK x : v.seen = {x}
  BY <1>1, FS_Singleton DEF Sound
<1>3. SeenBy(v) = x
  BY <1>2 DEF SeenBy
<1> QED
  BY <1>2, <1>3 DEF Valued, Sound

LEMMA CockpitShown == ASSUME CockpitInv PROVE ValuationExact
<1>1. ASSUME NEW v, v.seen \subseteq 0 .. Now, Valued(v), Sound(v)
      PROVE  v.total = NetAt(SeenBy(v))
  BY <1>1, SoundIs DEF CockpitInv, ChainOK, Now
<1>2. Reading("valued") /\ Sound(reading) => reading.total = NetAt(SeenBy(reading))
  BY <1>1 DEF CockpitInv, ReadingOK, Reading
<1>3. \A i \in DOMAIN snaps : Sound(snaps[i]) => snaps[i].total = NetAt(SeenBy(snaps[i]))
  BY <1>1 DEF CockpitInv, SnapsOK
<1> QED
  BY <1>2, <1>3 DEF ValuationExact

(***************************************************************************)
(* The profit of a range.  The history counts up what was paid in, at times *)
(* that only grow, so what happened before the range is its beginning, and  *)
(* the boundary events of the range amount to what was paid in since.       *)
(***************************************************************************)
\* Sums of the first so many of some amounts.
SumsOf(g, u, n) == g \in [0 .. n -> Int] /\ g[0] = 0 /\ \A i \in 1 .. n : g[i] = g[i - 1] + u[i]

LEMMA SumsExist ==
    ASSUME NEW n \in Nat, NEW u \in [1 .. n -> Int]
    PROVE  \E g : SumsOf(g, u, n)
<1> DEFINE T == {k \in 0 .. n : ~\E g : SumsOf(g, u, k)}
<1> SUFFICES ASSUME T # {} PROVE FALSE
  <2>1. n \in 0 .. n
    OBVIOUS
  <2> QED BY <2>1
<1>1. T \subseteq Nat
  OBVIOUS
<1>2. PICK k \in T : \A y \in T : k <= y
  BY <1>1, LeastOfSet
<1>3. CASE k = 0
  <2>1. SumsOf([i \in 0 .. 0 |-> 0], u, 0)
    BY DEF SumsOf
  <2> QED BY <1>2, <1>3, <2>1
<1>4. CASE k # 0
  <2>1. k \in Nat /\ k \in 1 .. n /\ k - 1 \in 0 .. n /\ k - 1 \in Nat /\ ~(k <= k - 1)
    BY <1>2, <1>4
  <2>2. PICK g : SumsOf(g, u, k - 1)
    BY <1>2, <2>1
  <2>3. PICK h : h = [i \in 0 .. k |-> IF i = k THEN g[k - 1] + u[k] ELSE g[i]]
    OBVIOUS
  <2>4. g[k - 1] \in Int /\ u[k] \in Int
    BY <2>1, <2>2 DEF SumsOf
  <2>5. h \in [0 .. k -> Int]
    <3>1. \A i \in 0 .. k : i # k => i \in 0 .. k - 1 /\ g[i] \in Int
      BY <2>1, <2>2 DEF SumsOf
    <3> QED BY <2>3, <2>4, <3>1
  <2>6. h[0] = 0
    BY <2>1, <2>2, <2>3 DEF SumsOf
  <2>7. ASSUME NEW i \in 1 .. k PROVE h[i] = h[i - 1] + u[i]
    <3>1. i - 1 \in 0 .. k /\ i - 1 # k /\ i \in 0 .. k
      BY <2>1
    <3>2. CASE i = k
      BY <2>3, <3>1, <3>2
    <3>3. CASE i # k
      <4>1. i \in 1 .. k - 1
        BY <2>1, <3>3
      <4> QED BY <2>2, <2>3, <3>1, <3>3, <4>1 DEF SumsOf
    <3> QED BY <3>2, <3>3
  <2>8. SumsOf(h, u, k)
    BY <2>5, <2>6, <2>7 DEF SumsOf
  <2> QED BY <1>2, <2>8
<1> QED BY <1>3, <1>4

LEMMA DepositsSummed ==
    ASSUME moves \in Seq(Movement), NEW cutoff,
           NEW u, u = [i \in 1 .. Len(moves) |-> IF i \in EventsInRange(cutoff) THEN moves[i].usd ELSE 0]
    PROVE  \E g : SumsOf(g, u, Len(moves)) /\ NetDeposits(cutoff) = g[Len(moves)]
<1> DEFINE n == Len(moves)
<1>1. n \in Nat
  BY LenProperties
<1>2. u \in [1 .. n -> Int]
  <2>1. \A i \in 1 .. n : moves[i].usd \in Int
    <3>1. \A i \in 1 .. n : moves[i] \in Movement
      BY ElementOfSeq
    <3> QED BY <3>1 DEF Movement
  <2> QED BY <2>1
<1>3. PICK g : SumsOf(g, u, n)
  BY <1>1, <1>2, SumsExist
<1>4. g = [i \in 0 .. n |-> IF i = 0 THEN 0 ELSE g[i - 1] + IF i \in EventsInRange(cutoff) THEN moves[i].usd ELSE 0]
  <2>1. \A i \in 0 .. n : i # 0 => i \in 1 .. n
    OBVIOUS
  <2>2. \A i \in 0 .. n : g[i] = IF i = 0 THEN 0 ELSE g[i - 1] + IF i \in EventsInRange(cutoff) THEN moves[i].usd ELSE 0
    BY <1>3, <2>1 DEF SumsOf
  <2> QED BY <1>3, <2>2 DEF SumsOf
<1> DEFINE sum == CHOOSE f : f = [i \in 0 .. n |-> IF i = 0 THEN 0 ELSE f[i - 1] + IF i \in EventsInRange(cutoff) THEN moves[i].usd ELSE 0]
<1>5. sum = [i \in 0 .. n |-> IF i = 0 THEN 0 ELSE sum[i - 1] + IF i \in EventsInRange(cutoff) THEN moves[i].usd ELSE 0]
  BY <1>4, Zenon
<1>6. NetDeposits(cutoff) = sum[n]
  BY Zenon DEF NetDeposits
<1> HIDE DEF sum
<1>7. ASSUME NEW T, T = {k \in 0 .. n : sum[k] # g[k]}, T # {} PROVE FALSE
  <2>1. T \subseteq Nat
    BY <1>7
  <2>2. PICK k \in T : \A y \in T : k <= y
    BY <1>7, <2>1, LeastOfSet
  <2>3. k \in 0 .. n /\ sum[k] # g[k]
    BY <1>7, <2>2
  <2>4. CASE k = 0
    BY <1>1, <1>4, <1>5, <2>3, <2>4
  <2>5. CASE k # 0
    <3>1. k - 1 \in 0 .. n /\ ~(k <= k - 1)
      BY <2>3, <2>5
    <3>2. k - 1 \notin T
      BY <2>2, <3>1
    <3>3. sum[k - 1] = g[k - 1]
      BY <1>7, <3>1, <3>2
    <3>4. sum[k] = g[k]
      BY <1>4, <1>5, <2>3, <2>5, <3>3
    <3> QED BY <2>3, <3>4
  <2> QED BY <2>4, <2>5
<1>8. n \in 0 .. n
  BY <1>1
<1>9. sum[n] = g[n]
  BY <1>7, <1>8
<1> QED BY <1>3, <1>6, <1>9

\* What is told of the moves: a total of what was paid in, at times that only grow.
BookOK ==
    /\ \A i \in 1 .. Now : moves[i].paidIn = PaidInAt(i - 1) + moves[i].usd
    /\ \A i \in 1 .. Now : moves[i].at <= clock
    /\ \A i, j \in 1 .. Now : i < j => moves[i].at <= moves[j].at

\* What happened before some time is the beginning of the history.
LEMMA BeganIs ==
    ASSUME moves \in Seq(Movement), BookOK, NEW cutoff \in Int
    PROVE  /\ Began(cutoff) \in 0 .. Now
           /\ \A i \in 1 .. Now : i <= Began(cutoff) <=> moves[i].at < cutoff
<1> DEFINE n == Len(moves)
           D == {i \in 1 .. n : moves[i].at < cutoff}
<1>1. n \in Nat /\ Now = n /\ DOMAIN moves = 1 .. n
  BY LenProperties DEF Now
<1>2. \A i \in 1 .. n : moves[i].at \in Int
  <2>1. \A i \in 1 .. n : moves[i] \in Movement
    BY ElementOfSeq
  <2> QED BY <2>1 DEF Movement
<1>3. Began(cutoff) = Cardinality(D)
  BY <1>1 DEF Began
<1> DEFINE T == {k \in 0 .. n : \A i \in 1 .. n : i \in D => i <= k}
<1>4. n \in T /\ T \subseteq Nat
  BY <1>1
<1> HIDE DEF n
<1>5. PICK m \in T : \A y \in T : m <= y
  BY <1>4, LeastOfSet
<1>6. ASSUME NEW i \in 1 .. n PROVE i <= m <=> i \in D
  <2>1. i \in D => i <= m
    BY <1>5
  <2>2. ASSUME i <= m, i \notin D PROVE FALSE
    <3>0. n \in Nat /\ m \in Nat /\ i \in 1 .. n /\ i <= m
      BY <2>2, <1>1, <1>4, <1>5
    <3>1. i - 1 \in 0 .. n /\ ~(m <= i - 1)
      BY ONLY <3>0
    <3>2. i - 1 \notin T
      BY <3>1, <1>5
    <3>3. PICK j \in 1 .. n : j \in D /\ ~(j <= i - 1)
      BY <3>1, <3>2
    <3>4. moves[i].at <= moves[j].at
      <4>1. i = j \/ i < j
        BY <3>3
      <4> QED BY <4>1, <1>1, <1>2 DEF BookOK, n
    <3> QED BY <2>2, <3>3, <3>4, <1>2 DEF n
  <2> QED BY <2>1, <2>2
<1>7. D = 1 .. m /\ m \in 0 .. n
  <2>1. \A i \in 1 .. m : i \in 1 .. n
    BY <1>1, <1>5
  <2> QED BY <2>1, <1>1, <1>5, <1>6 DEF n
<1>8. Cardinality(D) = m
  <2>1. 1 \in Int /\ m \in Int /\ m \in Nat
    BY <1>1, <1>5
  <2>2. Cardinality(1 .. m) = IF 1 > m THEN 0 ELSE m - 1 + 1
    BY <2>1, FS_Interval
  <2>3. Cardinality(1 .. m) = m
    BY ONLY <2>1, <2>2
  <2>4. D = 1 .. m
    BY <1>7
  <2> HIDE DEF D
  <2> QED BY <2>3, <2>4
<1> QED BY <1>1, <1>3, <1>6, <1>7, <1>8 DEF n

\* When every boundary event has its row: what they amount to is what was paid in since.
LEMMA DepositsPaidIn ==
    ASSUME moves \in Seq(Movement), Now > 0, BookOK, NEW cutoff \in Int,
           NEW m \in 0 .. Now, \A i \in Boundary : moves[i].row = "priced" /\ i <= m
    PROVE  NetDeposits(cutoff) = PaidInAt(m) - PaidInAt(Began(cutoff))
<1> DEFINE n == Len(moves)
           b == Began(cutoff)
           u == [i \in 1 .. n |-> IF i \in EventsInRange(cutoff) THEN moves[i].usd ELSE 0]
<1>1. n \in Nat /\ Now = n /\ DOMAIN moves = 1 .. n
  BY LenProperties DEF Now
<1>2. \A i \in 1 .. n : moves[i].at \in Int /\ moves[i].usd \in Int /\ moves[i].paidIn \in Int
  <2>1. \A i \in 1 .. n : moves[i] \in Movement
    BY ElementOfSeq
  <2> QED BY <2>1 DEF Movement
<1>3. \A i \in 0 .. n : PaidInAt(i) \in Int
  BY <1>1, <1>2 DEF PaidInAt
<1>4. b \in 0 .. n /\ \A i \in 1 .. n : i <= b <=> moves[i].at < cutoff
  BY <1>1, BeganIs
<1>5. ASSUME NEW i \in 1 .. n PROVE u[i] = IF i <= b THEN 0 ELSE moves[i].usd
  BY <1>1, <1>2, <1>4 DEF EventsInRange, Boundary
<1>6. \A i \in 1 .. n : i > m => moves[i].usd = 0
  BY <1>1 DEF Boundary
<1>7. PICK g : SumsOf(g, u, n) /\ NetDeposits(cutoff) = g[n]
  BY DepositsSummed
<1> HIDE DEF u, b, n
<1>8. \A i \in 1 .. n : PaidInAt(i) = PaidInAt(i - 1) + moves[i].usd
  BY <1>1 DEF BookOK, PaidInAt
<1>9. ASSUME NEW T, T = {k \in 0 .. n : g[k] # IF k <= b THEN 0 ELSE PaidInAt(k) - PaidInAt(b)}, T # {} PROVE FALSE
  <2>1. T \subseteq Nat
    BY <1>9
  <2>2. PICK k \in T : \A y \in T : k <= y
    BY <1>9, <2>1, LeastOfSet
  <2>3. k \in 0 .. n /\ g[k] # IF k <= b THEN 0 ELSE PaidInAt(k) - PaidInAt(b)
    BY <1>9, <2>2
  <2>4. CASE k = 0
    BY <1>4, <1>7, <2>3, <2>4 DEF SumsOf
  <2>5. CASE k # 0
    <3>1. k \in 1 .. n /\ k - 1 \in 0 .. n /\ ~(k <= k - 1)
      BY <1>1, <2>3, <2>5
    <3>2. k - 1 \notin T
      BY <2>2, <3>1
    <3>3. g[k - 1] = IF k - 1 <= b THEN 0 ELSE PaidInAt(k - 1) - PaidInAt(b)
      BY <1>9, <3>1, <3>2
    <3>4. g[k] = g[k - 1] + u[k] /\ u[k] = (IF k <= b THEN 0 ELSE moves[k].usd)
      BY <1>5, <1>7, <3>1 DEF SumsOf
    <3>5. PaidInAt(k) = PaidInAt(k - 1) + moves[k].usd /\ PaidInAt(k - 1) \in Int /\ PaidInAt(b) \in Int
          /\ moves[k].usd \in Int
      BY <1>2, <1>3, <1>4, <1>8, <3>1
    <3>6. CASE k <= b
      <4>1. k - 1 <= b
        BY <1>4, <3>1, <3>6
      <4> QED BY <2>3, <3>3, <3>4, <3>6, <4>1
    <3>7. CASE k - 1 = b
      <4>1. ~(k <= b) /\ k - 1 <= b
        BY <1>4, <3>1, <3>7
      <4> QED BY <2>3, <3>3, <3>4, <3>5, <3>7, <4>1
    <3>8. CASE ~(k <= b) /\ k - 1 # b
      <4>1. ~(k - 1 <= b)
        BY <1>4, <3>1, <3>8
      <4> QED BY <2>3, <3>3, <3>4, <3>5, <3>8, <4>1
    <3> QED BY <3>6, <3>7, <3>8
  <2> QED BY <2>4, <2>5
<1>10. g[n] = IF n <= b THEN 0 ELSE PaidInAt(n) - PaidInAt(b)
  <2>1. PICK T : T = {k \in 0 .. n : g[k] # IF k <= b THEN 0 ELSE PaidInAt(k) - PaidInAt(b)}
    OBVIOUS
  <2>2. T = {}
    BY <1>9, <2>1
  <2>3. n \in 0 .. n
    BY <1>1
  <2> QED BY <2>1, <2>2, <2>3
<1>11. g[n] = PaidInAt(n) - PaidInAt(b)
  <2>1. CASE n <= b
    <3>1. n = b /\ PaidInAt(n) \in Int
      BY <1>1, <1>3, <1>4, <2>1
    <3> QED BY <1>10, <2>1, <3>1
  <2> QED BY <1>10, <2>1
<1>12. ASSUME NEW T, T = {k \in 0 .. n : k >= m /\ PaidInAt(k) # PaidInAt(m)}, T # {} PROVE FALSE
  <2>1. T \subseteq Nat
    BY <1>12
  <2>2. PICK k \in T : \A y \in T : k <= y
    BY <1>12, <2>1, LeastOfSet
  <2>3. k \in 0 .. n /\ k >= m /\ k # m /\ PaidInAt(k) # PaidInAt(m) /\ m \in 0 .. n
    BY <1>1, <1>12, <2>2
  <2>4. k \in 1 .. n /\ k - 1 \in 0 .. n /\ k - 1 >= m /\ ~(k <= k - 1) /\ k > m
    BY <1>1, <2>3
  <2>5. k - 1 \notin T
    BY <2>2, <2>4
  <2>6. PaidInAt(k - 1) = PaidInAt(m)
    BY <1>12, <2>4, <2>5
  <2>7. PaidInAt(k) = PaidInAt(k - 1) + 0 /\ PaidInAt(k - 1) \in Int
    BY <1>3, <1>6, <1>8, <2>4
  <2> QED BY <2>3, <2>6, <2>7
<1>13. PaidInAt(n) = PaidInAt(m)
  <2>1. n \in 0 .. n /\ n >= m
    BY <1>1
  <2>2. PICK T : T = {k \in 0 .. n : k >= m /\ PaidInAt(k) # PaidInAt(m)}
    OBVIOUS
  <2>3. T = {}
    BY <1>12, <2>2
  <2> QED BY <2>1, <2>2, <2>3
<1> QED BY <1>7, <1>11, <1>13 DEF b

\* The latest of some times is one of them.
LEMMA MaxPicked ==
    ASSUME NEW n \in Nat, NEW S, S \subseteq 0 .. n, S # {}
    PROVE  Max(S) \in S /\ \A t \in S : t <= Max(S)
<1>1. PICK R \in SUBSET Nat : R = {n - t : t \in S}
  <2>1. {n - t : t \in S} \in SUBSET Nat
    <3>1. \A t \in S : n - t \in Nat
      OBVIOUS
    <3> QED BY <3>1
  <2> QED BY <2>1
<1>2. R # {}
  BY <1>1
<1>3. PICK W : W = OpToRel(<, Nat) /\ IsWellFoundedOn(W, Nat)
  BY NatLessThanWellFounded
<1>4. PICK x \in R : \A y \in R : ~(<<y, x>> \in W)
  BY <1>2, <1>3, WFMin
<1>5. \A y \in R : x <= y
  <2>1. \A y \in Nat, z \in Nat : y < z => <<y, z>> \in W
    BY <1>3 DEF OpToRel
  <2>2. \A y \in R : y \in Nat /\ x \in Nat /\ ~(y < x)
    BY <1>4, <2>1
  <2> QED BY <2>2
<1>6. PICK t \in S : x = n - t
  BY <1>1
<1>7. ASSUME NEW u \in S PROVE u <= t
  <2>1. n - u \in R
    BY <1>1
  <2>2. n - t <= n - u
    BY <1>5, <1>6, <2>1
  <2>3. t \in Int /\ u \in Int
    OBVIOUS
  <2> QED BY <2>2, <2>3
<1>8. \E m \in S : \A u \in S : m >= u
  BY <1>7
<1>9. Max(S) \in S /\ \A u \in S : Max(S) >= u
  BY <1>8, Zenon DEF Max
<1> QED
  <2>1. \A u, m \in S : m >= u => u <= m
    OBVIOUS
  <2> QED BY <1>9, <2>1

LEMMA BookStart == ASSUME CockpitInit PROVE BookOK
<1>1. Now = 1 /\ moves[1].at = 0 /\ moves[1].usd = FirstGross /\ moves[1].paidIn = FirstGross /\ clock = 0
  BY DEF CockpitInit, Now
<1> QED
  BY <1>1 DEF BookOK, PaidInAt, FirstGross

LEMMA BookMoves ==
    ASSUME CockpitInv, BookOK, NEW v, NEW usd \in Int, Moved(v, usd)
    PROVE  BookOK'
<1> DEFINE m == [at |-> clock, usd |-> usd, net |-> NetEquity(v), paidIn |-> PaidInAt(Now) + usd,
                 row |-> IF usd = 0 THEN "nothing" ELSE "pending"]
<1>1. moves' = Append(moves, m) /\ clock' = clock
  BY DEF Moved
<1>2. moves \in Seq(Movement) /\ Now = Len(moves) /\ Now \in Nat /\ clock \in Int
  BY DEF CockpitInv, ChainOK, Now
<1>3. m.at = clock /\ m.usd = usd /\ m.paidIn = PaidInAt(Now) + usd
  OBVIOUS
<1> HIDE DEF m
<1>4. Now' = Now + 1 /\ moves'[Now + 1] = m /\ \A i \in 1 .. Now : moves'[i] = moves[i]
  BY <1>1, <1>2 DEF Now
<1>5. \A i \in 0 .. Now : PaidInAt(i)' = PaidInAt(i)
  BY <1>2, <1>4 DEF PaidInAt
<1>6. ASSUME NEW i \in 1 .. Now' PROVE moves'[i].paidIn = PaidInAt(i - 1)' + moves'[i].usd /\ moves'[i].at <= clock
  <2>1. CASE i = Now + 1
    <3>1. i - 1 = Now /\ Now \in 0 .. Now
      BY <1>2, <2>1
    <3> QED BY <1>2, <1>3, <1>4, <1>5, <2>1, <3>1
  <2>2. CASE i # Now + 1
    <3>1. i \in 1 .. Now /\ i - 1 \in 0 .. Now
      BY <1>2, <1>4, <2>2
    <3> QED BY <1>4, <1>5, <3>1 DEF BookOK
  <2> QED BY <2>1, <2>2
<1>7. ASSUME NEW i \in 1 .. Now', NEW j \in 1 .. Now', i < j PROVE moves'[i].at <= moves'[j].at
  <2>1. CASE j = Now + 1
    BY <1>3, <1>4, <1>6, <2>1
  <2>2. CASE j # Now + 1
    <3>1. i \in 1 .. Now /\ j \in 1 .. Now
      BY <1>2, <1>4, <1>7, <2>2
    <3> QED BY <1>4, <1>7, <3>1 DEF BookOK
  <2> QED BY <2>1, <2>2
<1> QED
  BY <1>1, <1>6, <1>7 DEF BookOK

LEMMA BookSteps ==
    ASSUME CockpitInv, BookOK, [CockpitNext]_cockpitVars
    PROVE  BookOK'
<1>1. CASE UNCHANGED <<moves, clock>>
  BY <1>1 DEF BookOK, Now, PaidInAt
<1>2. CASE deposit \/ withdraw \/ supply \/ borrow \/ depositFees \/ accrueInterest \/ compensate
  <2>1. \A g \in Gross : g \in Int /\ -g \in Int
    BY CockpitAssumption
  <2>2. \E v : \E usd \in Int : Moved(v, usd)
    <3>1. 0 \in Int
      OBVIOUS
    <3> QED BY <1>2, <2>1, <3>1, Zenon DEF deposit, withdraw, supply, borrow, depositFees, accrueInterest, compensate
  <2> QED BY <2>2, BookMoves
<1>3. CASE persistVaultEvent
  <2>1. PICK i \in DOMAIN moves, row \in EventRow : moves' = [moves EXCEPT ![i].row = row] /\ clock' = clock
    BY <1>3 DEF persistVaultEvent, EventRow
  <2>2. moves \in Seq(Movement) /\ Now = Len(moves) /\ DOMAIN moves = 1 .. Now
    BY LenProperties DEF CockpitInv, ChainOK, Now
  <2>3. \A j \in 1 .. Now : moves[j] \in Movement
    BY <2>2, ElementOfSeq
  <2>4. \A j \in 1 .. Now : moves'[j].at = moves[j].at /\ moves'[j].usd = moves[j].usd /\ moves'[j].paidIn = moves[j].paidIn
    BY <2>1, <2>2, <2>3 DEF Movement
  <2>5. Now' = Now
    BY <2>1, <2>2 DEF Now
  <2>6. \A j \in 0 .. Now : PaidInAt(j)' = PaidInAt(j)
    BY <2>4 DEF PaidInAt
  <2>7. \A j \in 1 .. Now : j - 1 \in 0 .. Now
    BY <2>2, LenProperties
  <2> QED BY <2>1, <2>4, <2>5, <2>6, <2>7 DEF BookOK
<1>4. CASE pass
  <2>1. moves' = moves /\ clock' = clock + 1 /\ clock \in Int
    BY <1>4 DEF pass, CockpitInv, ChainOK
  <2>2. moves \in Seq(Movement) /\ Now = Len(moves)
    BY DEF CockpitInv, ChainOK, Now
  <2>3. \A j \in 1 .. Now : moves[j].at \in Int
    <3>1. \A j \in 1 .. Now : moves[j] \in Movement
      BY <2>2, ElementOfSeq
    <3> QED BY <3>1 DEF Movement
  <2> QED BY <2>1, <2>3 DEF BookOK, Now, PaidInAt
<1>5. CASE getOverview \/ snapshotTick \/ getPositionsView \/ readClaims \/ readPositions \/ readIdle
           \/ readReserve \/ answerView \/ createSnapshot \/ prune
  <2>1. UNCHANGED <<moves, clock>>
    BY <1>5 DEF getOverview, snapshotTick, getPositionsView, readClaims, readPositions, readIdle,
                readReserve, answerView, createSnapshot, prune
  <2> QED BY <1>1, <2>1
<1>6. CASE UNCHANGED cockpitVars
  BY <1>1, <1>6 DEF cockpitVars
<1> QED
  BY <1>2, <1>3, <1>4, <1>5, <1>6 DEF CockpitNext

LEMMA ProfitShown == ASSUME CockpitInv, BookOK PROVE PnlIsGain
<1> SUFFICES ASSUME NEW cutoff \in {0} \cup {clock - n : n \in RangeLength},
                    snaps # <<>>, \A i \in DOMAIN snaps : Sound(snaps[i]), cutoff >= 0, Aligned(cutoff)
             PROVE  Pnl(cutoff) = GainAt(SeenBy(snaps[Len(snaps)])) - GainAt(Began(cutoff))
  BY Zenon DEF PnlIsGain
<1> DEFINE last == SeenBy(snaps[Len(snaps)])
           b == Began(cutoff)
<1>1. cutoff \in Int
  BY CockpitAssumption DEF CockpitInv, ChainOK
<1>2. moves \in Seq(Movement) /\ Now > 0 /\ Now = Len(moves) /\ Now \in Nat
  BY DEF CockpitInv, ChainOK, Now
<1>3. snaps \in Seq(Snapshot) /\ Len(snaps) \in Nat /\ Len(snaps) > 0 /\ DOMAIN snaps = 1 .. Len(snaps)
  BY LenProperties, EmptySeq DEF CockpitInv, SnapsOK
<1>4. \A i \in DOMAIN snaps : SeenBy(snaps[i]) \in 0 .. Now /\ snaps[i].total = NetAt(SeenBy(snaps[i]))
  <2>1. ASSUME NEW i \in DOMAIN snaps
        PROVE  SeenBy(snaps[i]) \in 0 .. Now /\ snaps[i].total = NetAt(SeenBy(snaps[i]))
    <3>1. snaps[i].seen \subseteq 0 .. Now /\ Valued(snaps[i]) /\ Sound(snaps[i])
      BY DEF CockpitInv, SnapsOK
    <3> QED BY <1>2, <3>1, SoundIs
  <2> QED BY <2>1
<1>5. last \in 0 .. Now /\ snaps[Len(snaps)].total = NetAt(last)
  BY <1>3, <1>4
<1>6. b \in 0 .. Now
  BY <1>1, <1>2, BeganIs
<1>7. NetDeposits(cutoff) = PaidInAt(last) - PaidInAt(b)
  BY <1>1, <1>2, <1>5, DepositsPaidIn DEF Aligned
<1> DEFINE before == {i \in DOMAIN snaps : snaps[i].asOf <= cutoff}
<1>8. ValueAtRangeStart(cutoff) = NetAt(b)
  <2>1. CASE cutoff = 0 \/ before = {}
    <3>1. b = 0
      BY <2>1 DEF Aligned
    <3>2. Baselines(cutoff) = {}
      BY <2>1 DEF Baselines
    <3> QED BY <3>1, <3>2 DEF ValueAtRangeStart, NetAt
  <2>2. CASE ~(cutoff = 0 \/ before = {})
    <3>1. SeenBy(snaps[Max(before)]) = b
      BY <2>2 DEF Aligned
    <3>2. cutoff > 0
      BY <1>1, <2>2
    <3>3. Baselines(cutoff) = before /\ before # {}
      BY <2>2, <3>2 DEF Baselines
    <3>4. before \subseteq 0 .. Len(snaps)
      BY <1>3
    <3>5. Max(before) \in before
      <4> HIDE DEF before
      <4> QED BY <1>3, <3>3, <3>4, MaxPicked
    <3>6. snaps[Max(before)].total = NetAt(b)
      BY <1>4, <3>1, <3>5
    <3> HIDE DEF before
    <3> QED BY <3>3, <3>6 DEF ValueAtRangeStart
  <2> QED BY <2>1, <2>2
<1>9. \A i \in 0 .. Now : NetAt(i) \in Int /\ PaidInAt(i) \in Int
  <2>1. \A i \in 1 .. Now : moves[i] \in Movement
    BY <1>2, ElementOfSeq
  <2>2. \A i \in 1 .. Now : moves[i].net \in Int /\ moves[i].paidIn \in Int
    BY <2>1 DEF Movement
  <2> QED BY <1>2, <2>2 DEF NetAt, PaidInAt
<1> HIDE DEF last, b
<1>10. Pnl(cutoff) = NetAt(last) - NetAt(b) - (PaidInAt(last) - PaidInAt(b))
  BY <1>5, <1>7, <1>8 DEF Pnl
<1>11. GainAt(last) = NetAt(last) - PaidInAt(last) /\ GainAt(b) = NetAt(b) - PaidInAt(b)
  BY DEF GainAt
<1>12. Pnl(cutoff) = GainAt(last) - GainAt(b)
  <2>1. NetAt(last) \in Int /\ PaidInAt(last) \in Int /\ NetAt(b) \in Int /\ PaidInAt(b) \in Int
    BY <1>5, <1>6, <1>9
  <2> QED BY <1>10, <1>11, <2>1
<1> QED BY <1>12 DEF last, b

\* Whatever the vault does between the reads of a valuation, whatever its caches hold and
\* whichever reads fail: if the reads agree on where the chain stood and none is flawed, the
\* valuation, shown or stored, is the vault's net equity there, with every token counted
\* once; and the profit of a range whose snapshots are sound and aligned with its events is
\* what the vault gained in it (valuation.service.ts, snapshot.service.ts,
\* performance.service.ts).
THEOREM ValuesAndProfits == CockpitSpec => []CockpitTellsTruth
<1>1. CockpitInit => CockpitInv /\ BookOK
  BY CockpitStart, BookStart
<1>2. (CockpitInv /\ BookOK) /\ [CockpitNext]_cockpitVars => (CockpitInv /\ BookOK)'
  BY CockpitSteps, BookSteps
<1>3. CockpitInv /\ BookOK => CockpitTellsTruth
  BY CockpitShown, ProfitShown DEF CockpitTellsTruth
<1> QED
  BY <1>1, <1>2, <1>3, PTL DEF CockpitSpec

(***************************************************************************)
(* The panels.                                                             *)
(***************************************************************************)

Happened(ms, kind, t) == {u \in 1 .. t : ms[u] = kind}

Kept(ms, t, r) == {u \in Happened(ms, "snapshot", t) : r # 0 => u >= t - r}

\* What the context view was told: the slots there were, and as many values as there were
\* slots at some time the context was stored, if any.
Compared(a, ms) ==
    /\ a.slots = Cardinality(Happened(ms, "slot", a.asOf))
    /\ a.syncWarning = (a.slots # a.contextLength)
    /\ \/ a.contextLength = 0
       \/ \E m \in Happened(ms, "context", a.asOf) :
             a.contextLength = Cardinality(Happened(ms, "slot", m))

\* An answer to a panel that asked at `since`: what was so when it was given.
AnswerTrue(p, a, since, ms) ==
    /\ a.asOf \in 0 .. Len(ms)
    /\ a.asOf >= since \/ (p = "positions" /\ ~a.live)
    /\ p = "chart" =>
         /\ a.points = downsample(InOrder(Kept(ms, a.asOf, a.range)), MaxPoints)
         /\ a.markers \subseteq Happened(ms, "deposit", a.asOf)
    /\ p = "context" => Compared(a, ms)

RequestTrue(p, q, asked, r, ms) ==
    /\ q = [no |-> q.no, range |-> q.range, refresh |-> q.refresh, since |-> q.since, got |-> q.got]
    /\ q.no \in 1 .. asked /\ q.since \in 0 .. Len(ms)
    /\ p \in Ranged /\ q.no = asked => q.range = r
    /\ q.got # Unserved => AnswerTrue(p, q.got, q.since, ms) /\ (p \in Ranged => q.got.range = q.range)

IsSeq(s) == s \in Seq(Range(s))

PanelShape(d) ==
    /\ d = [data |-> d.data, loading |-> d.loading, refreshing |-> d.refreshing, error |-> d.error,
            asked |-> d.asked, no |-> d.no, ok |-> d.ok, since |-> d.since]
    /\ {d.loading, d.refreshing, d.error, d.ok} \subseteq BOOLEAN
    /\ d.asked \in Nat \ {0} /\ d.no \in 0 .. d.asked

\* What a panel shows was so, at its last question's time or later, and is of the range selected
\* when nothing was asked since.
ShownTrue(p, d, r, ms) ==
    /\ d.data = Nothing \/ AnswerTrue(p, d.data, 0, ms)
    /\ d.no # 0 /\ d.ok =>
         AnswerTrue(p, d.data, d.since, ms) /\ (p \in Ranged /\ d.no = d.asked => d.data.range = r)

\* A panel no one waits for is neither busy nor silent about its failure; one whose button
\* waits is busy with its only request, and the failures of before are gone.
WaitingTrue(p, d, rs) ==
    /\ rs = <<>> => ~d.loading /\ ~d.refreshing /\ (p # "status" /\ ~d.ok => d.error)
    /\ p \in Single =>
         /\ Len(rs) <= 1
         /\ rs # <<>> => (d.loading \/ d.refreshing) /\ ~d.error
         /\ rs = <<>> /\ d.error => ~d.ok

PanelTrue(p, d, rs, r, ms) ==
    /\ PanelShape(d) /\ ShownTrue(p, d, r, ms) /\ WaitingTrue(p, d, rs)
    /\ IsSeq(rs) /\ \A i \in DOMAIN rs : RequestTrue(p, rs[i], d.asked, r, ms)

PanelsInv ==
    /\ moments \in Seq(Kind)
    /\ panels = [p \in open |-> panels[p]] /\ requests = [p \in open |-> requests[p]]
    /\ \A p \in open : PanelTrue(p, panels[p], requests[p], range, moments)

LEMMA SeqEnds ==
    ASSUME NEW s, IsSeq(s)
    PROVE  Len(s) \in Nat /\ DOMAIN s = 1 .. Len(s) /\ (s = <<>> <=> Len(s) = 0)
BY LenProperties, EmptySeq DEF IsSeq

LEMMA SeqOver ==
    ASSUME NEW S, NEW s \in Seq(S)
    PROVE  IsSeq(s)
BY SeqOfRange DEF IsSeq

LEMMA SeqAppended ==
    ASSUME NEW s, IsSeq(s), NEW x
    PROVE  /\ IsSeq(Append(s, x)) /\ Len(Append(s, x)) = Len(s) + 1
           /\ \A i \in 1 .. Len(s) : Append(s, x)[i] = s[i]
           /\ Append(s, x)[Len(s) + 1] = x
<1>1. PICK S : S = Range(s) \cup {x}
  OBVIOUS
<1>2. s \in Seq(S) /\ x \in S
  BY <1>1, SeqMonotonic DEF IsSeq
<1>3. Append(s, x) \in Seq(S)
  BY <1>2, AppendProperties
<1>4. /\ Len(Append(s, x)) = Len(s) + 1 /\ \A i \in 1 .. Len(s) : Append(s, x)[i] = s[i]
      /\ Append(s, x)[Len(s) + 1] = x
  BY <1>2, AppendProperties
<1> QED
  BY <1>3, <1>4, SeqOver

LEMMA SeqChanged ==
    ASSUME NEW s, IsSeq(s), NEW i \in DOMAIN s, NEW x
    PROVE  /\ IsSeq([s EXCEPT ![i] = x]) /\ Len([s EXCEPT ![i] = x]) = Len(s)
           /\ \A j \in DOMAIN s : [s EXCEPT ![i] = x][j] = IF j = i THEN x ELSE s[j]
<1>1. PICK S : S = Range(s) \cup {x}
  OBVIOUS
<1>2. s \in Seq(S) /\ x \in S /\ i \in 1 .. Len(s) /\ DOMAIN s = 1 .. Len(s)
  BY <1>1, SeqMonotonic, SeqEnds DEF IsSeq
<1>3. [s EXCEPT ![i] = x] \in Seq(S)
  BY <1>2, ExceptSeq
<1> QED
  BY <1>2, <1>3, ExceptSeq, SeqOver

LEMMA SeqPart ==
    ASSUME NEW S, NEW s \in Seq(S), NEW m \in Nat \ {0}, NEW n \in Nat, m <= n + 1, n <= Len(s)
    PROVE  /\ SubSeq(s, m, n) \in Seq(S) /\ Len(SubSeq(s, m, n)) = n - m + 1
           /\ \A j \in 1 .. n - m + 1 : SubSeq(s, m, n)[j] = s[m + j - 1]
<1>1. \A j \in m .. n : s[j] \in S
  <2>1. Len(s) \in Nat /\ \A j \in m .. n : j \in 1 .. Len(s)
    BY LenProperties
  <2> QED BY <2>1, ElementOfSeq
<1>2. /\ SubSeq(s, m, n) \in Seq(S) /\ Len(SubSeq(s, m, n)) = IF m <= n THEN n - m + 1 ELSE 0
      /\ \A j \in 1 .. n - m + 1 : SubSeq(s, m, n)[j] = s[m + j - 1]
  BY <1>1, SubSeqProperties
<1> QED BY <1>2

LEMMA SeqRemoved ==
    ASSUME NEW s, IsSeq(s), NEW i \in DOMAIN s
    PROVE  /\ IsSeq(RemoveAt(s, i)) /\ Len(RemoveAt(s, i)) = Len(s) - 1
           /\ \A j \in DOMAIN RemoveAt(s, i) : \E k \in DOMAIN s : RemoveAt(s, i)[j] = s[k]
<1>1. PICK S : s \in Seq(S)
  BY DEF IsSeq
<1>2. i \in 1 .. Len(s) /\ Len(s) \in Nat /\ DOMAIN s = 1 .. Len(s)
  BY SeqEnds
<1>3. PICK m \in Nat : m = i - 1
  BY <1>2
<1>4. PICK n \in Nat \ {0} : n = i + 1
  BY <1>2
<1>5. PICK l \in Nat : l = Len(s)
  BY <1>2
<1>6. PICK a \in Seq(S) : /\ a = SubSeq(s, 1, m) /\ Len(a) = m - 1 + 1
                         /\ \A j \in 1 .. m - 1 + 1 : a[j] = s[1 + j - 1]
  <2>1. 1 \in Nat \ {0} /\ 1 <= m + 1 /\ m <= Len(s)
    BY <1>2, <1>3
  <2>2. /\ SubSeq(s, 1, m) \in Seq(S) /\ Len(SubSeq(s, 1, m)) = m - 1 + 1
        /\ \A j \in 1 .. m - 1 + 1 : SubSeq(s, 1, m)[j] = s[1 + j - 1]
    BY <2>1, <1>1, SeqPart
  <2> QED BY <2>2
<1>7. PICK b \in Seq(S) : /\ b = SubSeq(s, n, l) /\ Len(b) = l - n + 1
                         /\ \A j \in 1 .. l - n + 1 : b[j] = s[n + j - 1]
  <2>1. n <= l + 1 /\ l <= Len(s)
    BY <1>2, <1>4, <1>5
  <2>2. /\ SubSeq(s, n, l) \in Seq(S) /\ Len(SubSeq(s, n, l)) = l - n + 1
        /\ \A j \in 1 .. l - n + 1 : SubSeq(s, n, l)[j] = s[n + j - 1]
    BY <2>1, <1>1, SeqPart
  <2> QED BY <2>2
<1>8. RemoveAt(s, i) = a \o b
  BY <1>3, <1>4, <1>5, <1>6, <1>7 DEF RemoveAt
<1>9. /\ a \o b \in Seq(S) /\ Len(a \o b) = Len(a) + Len(b)
      /\ \A j \in 1 .. Len(a) + Len(b) : (a \o b)[j] = IF j <= Len(a) THEN a[j] ELSE b[j - Len(a)]
  BY <1>6, <1>7, ConcatProperties
<1>10. PICK c : c = a \o b
  OBVIOUS
<1>11. Len(a) = i - 1 /\ Len(b) = Len(s) - i
  <2>1. PICK u : u = Len(s)
    OBVIOUS
  <2>2. Len(a) = m - 1 + 1 /\ Len(b) = l - n + 1 /\ u \in Nat /\ i \in 1 .. u /\ l = u
    BY <2>1, <1>2, <1>5, <1>6, <1>7
  <2>3. m - 1 + 1 = i - 1 /\ l - n + 1 = u - i
    BY <2>2, <1>3, <1>4
  <2> QED BY <2>1, <2>2, <2>3
<1>12. IsSeq(c) /\ Len(c) = Len(s) - 1
  <2>1. IsSeq(c) /\ Len(c) = Len(a) + Len(b)
    BY <1>9, <1>10, SeqOver
  <2>2. PICK u \in Nat : u = Len(s) /\ i \in 1 .. u
    BY <1>2
  <2>3. Len(c) = (i - 1) + (u - i) /\ (i - 1) + (u - i) = u - 1
    BY <2>1, <2>2, <1>11
  <2> QED BY <2>1, <2>2, <2>3
<1>13. ASSUME NEW j \in 1 .. Len(s) - 1 PROVE \E k \in DOMAIN s : c[j] = s[k]
  <2>1. CASE j <= i - 1
    <3>1. c[j] = a[j] /\ a[j] = s[j] /\ j \in 1 .. Len(s)
      <4>1. j \in 1 .. Len(a) + Len(b) /\ j <= Len(a) /\ j \in 1 .. m - 1 + 1 /\ 1 + j - 1 = j
        BY <2>1, <1>2, <1>3, <1>11
      <4> QED BY <4>1, <1>2, <1>6, <1>9, <1>10
    <3> QED BY <3>1, <1>2
  <2>2. CASE ~(j <= i - 1)
    <3>1. PICK u \in Nat : u = j - (i - 1)
      BY <2>2, <1>2
    <3>2. /\ j \in 1 .. Len(a) + Len(b) /\ ~(j <= Len(a)) /\ j - Len(a) = u
          /\ u \in 1 .. l - n + 1 /\ n + u - 1 = j + 1 /\ j + 1 \in 1 .. Len(s)
      <4>1. PICK v \in Nat : v = Len(s) /\ i \in 1 .. v /\ l = v /\ j \in 1 .. v - 1
        BY <1>2, <1>5
      <4>2. Len(a) = i - 1 /\ Len(b) = v - i
        BY <4>1, <1>11
      <4>3. /\ j \in 1 .. (i - 1) + (v - i) /\ ~(j <= i - 1) /\ j - (i - 1) = u
            /\ u \in 1 .. v - n + 1 /\ n + u - 1 = j + 1 /\ j + 1 \in 1 .. v
        BY <2>2, <3>1, <4>1, <1>4
      <4> QED BY <4>1, <4>2, <4>3
    <3>3. c[j] = b[u] /\ b[u] = s[n + u - 1]
      BY <3>2, <1>7, <1>9, <1>10
    <3> QED BY <3>2, <3>3, <1>2
  <2> QED BY <2>1, <2>2
<1>14. DOMAIN c = 1 .. Len(s) - 1
  BY <1>12, SeqEnds
<1> QED
  BY <1>8, <1>10, <1>12, <1>13, <1>14

\* What had happened by then stays as it was.
LEMMA HappenedStays ==
    ASSUME NEW ms \in Seq(Kind), NEW kind \in Kind, NEW k, NEW t \in 0 .. Len(ms)
    PROVE  Happened(Append(ms, kind), k, t) = Happened(ms, k, t)
BY AppendProperties, LenProperties DEF Happened

LEMMA AnswerStays ==
    ASSUME NEW ms \in Seq(Kind), NEW kind \in Kind, NEW p, NEW a, NEW since, AnswerTrue(p, a, since, ms)
    PROVE  AnswerTrue(p, a, since, Append(ms, kind))
<1> DEFINE ns == Append(ms, kind)
<1>1. ns \in Seq(Kind) /\ Len(ns) = Len(ms) + 1 /\ Len(ms) \in Nat
  BY AppendProperties, LenProperties
<1>2. a.asOf \in 0 .. Len(ms) /\ a.asOf \in 0 .. Len(ns)
  BY <1>1 DEF AnswerTrue
<1>3. \A k : Happened(ns, k, a.asOf) = Happened(ms, k, a.asOf)
  BY <1>2, HappenedStays
<1>4. \A m \in Happened(ms, "context", a.asOf) : Happened(ns, "slot", m) = Happened(ms, "slot", m)
  <2>1. \A m \in Happened(ms, "context", a.asOf) : m \in 0 .. Len(ms)
    BY <1>1, <1>2 DEF Happened
  <2> QED BY <2>1, HappenedStays
<1>5. Kept(ns, a.asOf, a.range) = Kept(ms, a.asOf, a.range)
  BY <1>3 DEF Kept
<1> HIDE DEF ns
<1>6. p = "context" => Compared(a, ns)
  BY <1>3, <1>4 DEF AnswerTrue, Compared
<1>7. p = "chart" => /\ a.points = downsample(InOrder(Kept(ns, a.asOf, a.range)), MaxPoints)
                    /\ a.markers \subseteq Happened(ns, "deposit", a.asOf)
  BY <1>3, <1>5 DEF AnswerTrue
<1>8. AnswerTrue(p, a, since, ns)
  BY <1>2, <1>6, <1>7 DEF AnswerTrue
<1> QED BY <1>8 DEF ns

\* Rows by their time: every one is there, and each is later than the one before.
LEMMA InOrderRises ==
    ASSUME NEW S, S \subseteq Nat, IsFiniteSet(S)
    PROVE  /\ Cardinality(S) \in Nat
           /\ \A k \in 1 .. Cardinality(S) : InOrder(S)[k] \in S
           /\ \A t \in S : \E k \in 1 .. Cardinality(S) : InOrder(S)[k] = t
           /\ \A j, k \in 1 .. Cardinality(S) : j < k => InOrder(S)[j] < InOrder(S)[k]
           /\ InOrder(S) \in Seq(S) /\ Len(InOrder(S)) = Cardinality(S)
<1> DEFINE Upto(t) == {u \in S : u <= t}
           n == Cardinality(S)
<1>1. n \in Nat
  BY FS_CardinalityType
<1>2. \A t \in S : IsFiniteSet(Upto(t)) /\ Cardinality(Upto(t)) \in 1 .. n
  <2> TAKE t \in S
  <2>1. Upto(t) \in SUBSET S /\ t \in Upto(t)
    OBVIOUS
  <2>2. IsFiniteSet(Upto(t)) /\ Cardinality(Upto(t)) <= n /\ Cardinality(Upto(t)) \in Nat
    BY <2>1, FS_Subset, FS_CardinalityType
  <2>3. Cardinality(Upto(t)) # 0
    BY <2>1, <2>2, FS_EmptySet
  <2> QED BY <2>2, <2>3, <1>1
<1>3. ASSUME NEW t \in S, NEW u \in S, t < u PROVE Cardinality(Upto(t)) < Cardinality(Upto(u))
  <2>1. Upto(t) \in SUBSET Upto(u) /\ u \in Upto(u) /\ u \notin Upto(t)
    <3>1. \A x \in S : x \in Nat /\ t \in Nat /\ u \in Nat
      OBVIOUS
    <3>2. (\A x \in S : x <= t => x <= u) /\ u <= u /\ ~(u <= t)
      BY <3>1, <1>3
    <3> QED BY <3>2
  <2>2. Cardinality(Upto(t)) <= Cardinality(Upto(u)) /\ Cardinality(Upto(u)) # Cardinality(Upto(t))
    BY <2>1, <1>2, FS_Subset
  <2> QED BY <2>2, <1>2
<1>4. PICK f : f = [t \in S |-> Cardinality(Upto(t))]
  OBVIOUS
<1>5. f \in Injection(S, 1 .. n)
  <2>1. f \in [S -> 1 .. n]
    BY <1>2, <1>4
  <2>2. \A t, u \in S : f[t] = f[u] => t = u
    <3>1. \A t, u \in S : t < u => f[t] # f[u]
      BY <1>2, <1>3, <1>4
    <3> QED BY <3>1
  <2> QED BY <2>1, <2>2 DEF Injection, IsInjective
<1>6. f \in Surjection(S, 1 .. n)
  <2>1. IsFiniteSet(1 .. n) /\ Cardinality(1 .. n) = n
    <3>1. 1 \in Int /\ n \in Int
      BY <1>1
    <3>2. IsFiniteSet(1 .. n) /\ Cardinality(1 .. n) = IF 1 > n THEN 0 ELSE n - 1 + 1
      BY <3>1, FS_Interval
    <3> QED BY <3>2, <1>1
  <2> QED BY <2>1, <1>5, FS_Injection
<1>7. \A k \in 1 .. n : \E t \in S : f[t] = k
  BY <1>6 DEF Surjection
<1> DEFINE o == InOrder(S)
<1>8. \A k \in 1 .. n : o[k] = CHOOSE t \in S : Cardinality(Upto(t)) = k
  BY DEF InOrder
<1>9. \A k \in 1 .. n : o[k] \in S /\ Cardinality(Upto(o[k])) = k
  BY <1>4, <1>7, <1>8
<1>10. o \in [1 .. n -> S]
  BY <1>9 DEF InOrder
<1> HIDE DEF o
<1>11. \A t \in S : \E k \in 1 .. n : o[k] = t
  <2> TAKE t \in S
  <2>1. f[t] \in 1 .. n /\ f[t] = Cardinality(Upto(t)) /\ f[o[f[t]]] = f[t] /\ o[f[t]] \in S
    BY <1>2, <1>4, <1>9
  <2>2. o[f[t]] = t
    BY <2>1, <1>5 DEF Injection, IsInjective
  <2> QED BY <2>1, <2>2
<1>12. \A j, k \in 1 .. n : j < k => o[j] < o[k]
  <2> SUFFICES ASSUME NEW j \in 1 .. n, NEW k \in 1 .. n, j < k, ~(o[j] < o[k]) PROVE FALSE
    OBVIOUS
  <2>1. o[j] \in Nat /\ o[k] \in Nat /\ o[j] \in S /\ o[k] \in S
    BY <1>9
  <2>2. o[k] = o[j] \/ o[k] < o[j]
    BY <2>1
  <2>3. Cardinality(Upto(o[j])) = j /\ Cardinality(Upto(o[k])) = k
    BY <1>9
  <2>4. ~(o[k] < o[j])
    BY <2>1, <2>3, <1>3
  <2> QED BY <2>2, <2>3, <2>4
<1>13. o \in Seq(S) /\ Len(o) = n
  <2>1. o \in Seq(S)
    BY <1>1, <1>10, SeqDef
  <2>2. DOMAIN o = 1 .. n /\ DOMAIN o = 1 .. Len(o) /\ Len(o) \in Nat
    BY <2>1, <1>10, LenProperties
  <2> QED BY <2>1, <2>2, <1>1
<1> QED BY <1>1, <1>9, <1>11, <1>12, <1>13 DEF o

\* Thinned rows: as many as there may be, the first and the last among them, in order.
LEMMA DownsampleKeeps ==
    ASSUME NEW s, NEW n \in Nat, s \in Seq(Nat), Len(s) = n, n >= 2,
           \A j, k \in 1 .. n : j < k => s[j] < s[k]
    PROVE  LET c == downsample(s, MaxPoints) IN
           /\ Len(c) = Min({MaxPoints, n}) /\ Len(c) >= 2 /\ Len(c) \in Nat
           /\ c[1] = s[1] /\ c[Len(c)] = s[n] /\ DOMAIN c = 1 .. Len(c)
           /\ \A i, j \in DOMAIN c : i < j => c[i] < c[j]
<1>1. MaxPoints \in Nat /\ MaxPoints >= 2
  BY PanelsAssumption
<1>2. Min({MaxPoints, n}) = IF n <= MaxPoints THEN n ELSE MaxPoints
  BY <1>1 DEF Min
<1>3. DOMAIN s = 1 .. n
  BY LenProperties
<1>4. CASE n <= MaxPoints
  <2>1. downsample(s, MaxPoints) = s
    BY <1>4 DEF downsample
  <2> QED BY <2>1, <1>2, <1>3, <1>4
<1>5. CASE ~(n <= MaxPoints)
  <2>1. PICK m \in Nat \ {0} : m = MaxPoints - 1
    BY <1>1
  <2>2. PICK d \in Nat : n - 1 = m + 1 + d
    <3>1. n - 1 - m - 1 \in Nat
      BY <1>1, <1>5, <2>1
    <3>2. n - 1 = m + 1 + (n - 1 - m - 1)
      BY <2>1
    <3> QED BY <3>1, <3>2
  <2> DEFINE Slot(i) == 1 + (2 * (i - 1) * (n - 1) + m) \div (2 * m)
  <2>3. downsample(s, MaxPoints) = [i \in 1 .. MaxPoints |-> s[Slot(i)]]
    BY <1>1, <1>5, <2>1 DEF downsample
  <2>4. ASSUME NEW i \in 1 .. m + 1, NEW j \in 1 .. m + 1, i < j PROVE Slot(i) < Slot(j)
    <3> DEFINE x == 2 * (i - 1) * (n - 1) + m
               y == 2 * (j - 1) * (n - 1) + m
    <3>1. x \in Nat /\ y \in Nat /\ x + 2 * m <= y
      <4>1. PICK e \in Nat : j = i + 1 + e
        <5>1. i \in Int /\ j \in Int /\ i < j
          BY <2>4
        <5>2. j - i - 1 \in Nat /\ j = i + 1 + (j - i - 1)
          BY <5>1
        <5> QED BY <5>2
      <4>2. (i - 1) * (n - 1) \in Nat /\ e * (n - 1) \in Nat
        OBVIOUS
      <4>3. (j - 1) * (n - 1) = (i - 1) * (n - 1) + (n - 1) + e * (n - 1)
        BY <4>1
      <4>4. /\ 2 * (i - 1) * (n - 1) = 2 * ((i - 1) * (n - 1))
            /\ 2 * (j - 1) * (n - 1) = 2 * ((j - 1) * (n - 1))
        OBVIOUS
      <4> QED BY <4>2, <4>3, <4>4, <2>2
    <3> HIDE DEF x, y
    <3>2. PICK w \in Nat \ {0} : w = 2 * m
      OBVIOUS
    <3>3. (x + w) \div w = x \div w + 1 /\ x + w <= y
      BY <3>1, <3>2
    <3>4. (x + w) \div w <= y \div w
      BY <3>1, <3>2, <3>3
    <3>5. x \div w < y \div w
      BY <3>1, <3>2, <3>3, <3>4
    <3> QED BY <3>2, <3>5, <3>1 DEF x, y
  <2>5. Slot(1) = 1
    BY <1>1
  <2>6. Slot(m + 1) = n
    <3>1. 2 * (m + 1 - 1) * (n - 1) + m = (n - 1) * (2 * m) + m
      OBVIOUS
    <3>2. ((n - 1) * (2 * m) + m) \div (2 * m) = n - 1
      OBVIOUS
    <3> QED BY <3>1, <3>2
  <2>7. \A i \in 1 .. m + 1 : Slot(i) \in 1 .. n
    <3> TAKE i \in 1 .. m + 1
    <3>1. (i - 1) * (n - 1) \in Nat
      OBVIOUS
    <3>2. 2 * (i - 1) * (n - 1) + m \in Nat
      BY <3>1
    <3>3. Slot(i) \in Nat
      BY <3>2
    <3>4. i = 1 \/ Slot(1) < Slot(i)
      <4>1. 1 \in 1 .. m + 1 /\ (i = 1 \/ 1 < i)
        OBVIOUS
      <4> HIDE DEF At
      <4> QED BY <4>1, <2>4
    <3>5. i = m + 1 \/ Slot(i) < Slot(m + 1)
      <4>1. m + 1 \in 1 .. m + 1 /\ (i = m + 1 \/ i < m + 1)
        OBVIOUS
      <4> HIDE DEF At
      <4> QED BY <4>1, <2>4
    <3> QED BY <3>3, <3>4, <3>5, <2>5, <2>6
  <2> HIDE DEF At
  <2>8. MaxPoints = m + 1
    BY <1>1, <2>1
  <2>9. PICK c : c = [i \in 1 .. m + 1 |-> s[Slot(i)]]
    OBVIOUS
  <2>10. c \in [1 .. m + 1 -> Nat]
    BY <2>7, <2>9, <1>3, ElementOfSeq
  <2>11. Len(c) = m + 1
    <3>1. c \in Seq(Nat)
      BY <2>10, SeqDef
    <3>2. DOMAIN c = 1 .. m + 1 /\ DOMAIN c = 1 .. Len(c) /\ Len(c) \in Nat
      BY <3>1, <2>10, LenProperties
    <3> QED BY <3>2
  <2>12. c[1] = s[1] /\ c[m + 1] = s[n]
    BY <2>5, <2>6, <2>9
  <2>13. \A i, j \in 1 .. m + 1 : i < j => c[i] < c[j]
    BY <2>4, <2>7, <2>9
  <2>14. DOMAIN c = 1 .. m + 1
    BY <2>10
  <2>15. downsample(s, MaxPoints) = c
    BY <2>3, <2>8, <2>9
  <2> QED BY <1>2, <1>5, <2>8, <2>11, <2>12, <2>13, <2>14, <2>15
<1> QED BY <1>4, <1>5

\* An answer stays true of an earlier question.
LEMMA AnswerSuffices ==
    ASSUME NEW p, NEW a, NEW since \in Nat, NEW ms \in Seq(Kind), AnswerTrue(p, a, since, ms)
    PROVE  AnswerTrue(p, a, 0, ms)
BY LenProperties DEF AnswerTrue

\* One more moment leaves what the panels were told, and wait for, true.
LEMMA MomentKeepsPanel ==
    ASSUME NEW ms \in Seq(Kind), NEW kind \in Kind, NEW p, NEW d, NEW rs, NEW r, PanelTrue(p, d, rs, r, ms)
    PROVE  PanelTrue(p, d, rs, r, Append(ms, kind))
<1>1. Len(Append(ms, kind)) = Len(ms) + 1 /\ Len(ms) \in Nat
  BY AppendProperties, LenProperties
<1>2. \A a, since : AnswerTrue(p, a, since, ms) => AnswerTrue(p, a, since, Append(ms, kind))
  BY AnswerStays
<1>3. ShownTrue(p, d, r, Append(ms, kind))
  BY <1>2 DEF PanelTrue, ShownTrue
<1>4. ASSUME NEW i \in DOMAIN rs PROVE RequestTrue(p, rs[i], d.asked, r, Append(ms, kind))
  BY <1>1, <1>2 DEF PanelTrue, RequestTrue
<1> QED
  BY <1>3, <1>4 DEF PanelTrue

\* A panel that appears and asks.
LEMMA PanelStarts ==
    ASSUME NEW ms \in Seq(Kind), NEW p, NEW r, ms = moments
    PROVE  PanelTrue(p, Blank, <<Fetch(p, 1, r, FALSE)>>, r, ms)
<1> DEFINE q == Fetch(p, 1, r, FALSE)
<1>1. Len(ms) \in Nat
  BY LenProperties
<1>2. /\ q = [no |-> q.no, range |-> q.range, refresh |-> q.refresh, since |-> q.since, got |-> q.got]
      /\ q.no = 1 /\ q.since = Len(ms) /\ q.range = r /\ q.got = Unserved
  BY DEF Fetch
<1> HIDE DEF q
<1>3. RequestTrue(p, q, 1, r, ms)
  BY <1>1, <1>2 DEF RequestTrue
<1>4. IsSeq(<<q>>) /\ Len(<<q>>) = 1 /\ <<q>>[1] = q /\ <<q>> # <<>>
  <2>1. <<q>> \in Seq({q})
    OBVIOUS
  <2> QED BY <2>1, SeqOver
<1>5. DOMAIN <<q>> = {1}
  OBVIOUS
<1>6. /\ Blank.data = Nothing /\ Blank.loading = TRUE /\ Blank.refreshing = FALSE /\ Blank.error = FALSE
      /\ Blank.asked = 1 /\ Blank.no = 0 /\ Blank.ok = TRUE /\ PanelShape(Blank)
  BY DEF Blank, PanelShape
<1>7. ShownTrue(p, Blank, r, ms)
  BY <1>6 DEF ShownTrue
<1>8. WaitingTrue(p, Blank, <<q>>)
  BY <1>4, <1>6 DEF WaitingTrue
<1> QED
  BY <1>3, <1>4, <1>5, <1>6, <1>7, <1>8 DEF PanelTrue, q

\* A panel after it has asked, and after it has received.
AskedState(d, asked, error, loading, refreshing) ==
    [d EXCEPT !.asked = asked, !.error = error, !.loading = loading, !.refreshing = refreshing]

ReceivedState(d, data, error, loading, refreshing, no, ok, since) ==
    [d EXCEPT !.data = data, !.error = error, !.loading = loading, !.refreshing = refreshing,
              !.no = no, !.ok = ok, !.since = since]

LEMMA AskedIs ==
    ASSUME NEW d, PanelShape(d), NEW asked, NEW error, NEW loading, NEW refreshing, NEW e,
           e = AskedState(d, asked, error, loading, refreshing)
    PROVE  /\ e = [data |-> e.data, loading |-> e.loading, refreshing |-> e.refreshing, error |-> e.error,
                   asked |-> e.asked, no |-> e.no, ok |-> e.ok, since |-> e.since]
           /\ e.asked = asked /\ e.error = error /\ e.loading = loading /\ e.refreshing = refreshing
           /\ e.data = d.data /\ e.no = d.no /\ e.ok = d.ok /\ e.since = d.since
<1>1. PICK d1 : d1 = [d EXCEPT !.asked = asked]
  OBVIOUS
<1>2. PICK d2 : d2 = [d1 EXCEPT !.error = error]
  OBVIOUS
<1>3. PICK d3 : d3 = [d2 EXCEPT !.loading = loading]
  OBVIOUS
<1>4. PICK d4 : d4 = [d3 EXCEPT !.refreshing = refreshing]
  OBVIOUS
<1>5. d1 = [data |-> d.data, loading |-> d.loading, refreshing |-> d.refreshing, error |-> d.error,
          asked |-> asked, no |-> d.no, ok |-> d.ok, since |-> d.since]
  BY <1>1 DEF PanelShape
<1>6. d2 = [data |-> d.data, loading |-> d.loading, refreshing |-> d.refreshing, error |-> error,
          asked |-> asked, no |-> d.no, ok |-> d.ok, since |-> d.since]
  BY <1>2, <1>5
<1>7. d3 = [data |-> d.data, loading |-> loading, refreshing |-> d.refreshing, error |-> error,
          asked |-> asked, no |-> d.no, ok |-> d.ok, since |-> d.since]
  BY <1>3, <1>6
<1>8. d4 = [data |-> d.data, loading |-> loading, refreshing |-> refreshing, error |-> error,
          asked |-> asked, no |-> d.no, ok |-> d.ok, since |-> d.since]
  BY <1>4, <1>7
<1>9. e = d4
  BY <1>1, <1>2, <1>3, <1>4, Zenon DEF AskedState
<1> QED
  BY <1>8, <1>9

LEMMA ReceivedIs ==
    ASSUME NEW d, PanelShape(d), NEW data, NEW error, NEW loading, NEW refreshing, NEW no, NEW ok, NEW since, NEW e,
           e = ReceivedState(d, data, error, loading, refreshing, no, ok, since)
    PROVE  /\ e = [data |-> e.data, loading |-> e.loading, refreshing |-> e.refreshing, error |-> e.error,
                   asked |-> e.asked, no |-> e.no, ok |-> e.ok, since |-> e.since]
           /\ e.data = data /\ e.error = error /\ e.loading = loading /\ e.refreshing = refreshing /\ e.no = no /\ e.ok = ok /\ e.since = since
           /\ e.asked = d.asked
<1>1. PICK d1 : d1 = [d EXCEPT !.data = data]
  OBVIOUS
<1>2. PICK d2 : d2 = [d1 EXCEPT !.error = error]
  OBVIOUS
<1>3. PICK d3 : d3 = [d2 EXCEPT !.loading = loading]
  OBVIOUS
<1>4. PICK d4 : d4 = [d3 EXCEPT !.refreshing = refreshing]
  OBVIOUS
<1>5. PICK d5 : d5 = [d4 EXCEPT !.no = no]
  OBVIOUS
<1>6. PICK d6 : d6 = [d5 EXCEPT !.ok = ok]
  OBVIOUS
<1>7. PICK d7 : d7 = [d6 EXCEPT !.since = since]
  OBVIOUS
<1>8. d1 = [data |-> data, loading |-> d.loading, refreshing |-> d.refreshing, error |-> d.error,
          asked |-> d.asked, no |-> d.no, ok |-> d.ok, since |-> d.since]
  BY <1>1 DEF PanelShape
<1>9. d2 = [data |-> data, loading |-> d.loading, refreshing |-> d.refreshing, error |-> error,
          asked |-> d.asked, no |-> d.no, ok |-> d.ok, since |-> d.since]
  BY <1>2, <1>8
<1>10. d3 = [data |-> data, loading |-> loading, refreshing |-> d.refreshing, error |-> error,
          asked |-> d.asked, no |-> d.no, ok |-> d.ok, since |-> d.since]
  BY <1>3, <1>9
<1>11. d4 = [data |-> data, loading |-> loading, refreshing |-> refreshing, error |-> error,
          asked |-> d.asked, no |-> d.no, ok |-> d.ok, since |-> d.since]
  BY <1>4, <1>10
<1>12. d5 = [data |-> data, loading |-> loading, refreshing |-> refreshing, error |-> error,
          asked |-> d.asked, no |-> no, ok |-> d.ok, since |-> d.since]
  BY <1>5, <1>11
<1>13. d6 = [data |-> data, loading |-> loading, refreshing |-> refreshing, error |-> error,
          asked |-> d.asked, no |-> no, ok |-> ok, since |-> d.since]
  BY <1>6, <1>12
<1>14. d7 = [data |-> data, loading |-> loading, refreshing |-> refreshing, error |-> error,
          asked |-> d.asked, no |-> no, ok |-> ok, since |-> since]
  BY <1>7, <1>13
<1>15. e = d7
  BY <1>1, <1>2, <1>3, <1>4, <1>5, <1>6, <1>7, Zenon DEF ReceivedState
<1> QED
  BY <1>14, <1>15

\* A panel that asks once more, be it for another range.
LEMMA PanelAsks ==
    ASSUME NEW ms \in Seq(Kind), ms = moments, NEW p, NEW d, NEW rs, NEW r, PanelTrue(p, d, rs, r, ms),
           NEW r2, p \in Ranged \/ r2 = r, NEW refresh \in BOOLEAN, p \in Single => rs = <<>>
    PROVE  PanelTrue(p, [d EXCEPT !.asked = @ + 1, !.error = FALSE, !.loading = ~refresh, !.refreshing = refresh],
                     Append(rs, Fetch(p, d.asked + 1, r2, refresh)), r2, ms)
<1> DEFINE q == Fetch(p, d.asked + 1, r2, refresh)
           e == [d EXCEPT !.asked = @ + 1, !.error = FALSE, !.loading = ~refresh, !.refreshing = refresh]
           qs == Append(rs, q)
<1>1. Len(ms) \in Nat /\ d.asked \in Nat \ {0} /\ d.no \in 0 .. d.asked
  BY LenProperties DEF PanelTrue, PanelShape
<1>2. /\ q = [no |-> q.no, range |-> q.range, refresh |-> q.refresh, since |-> q.since, got |-> q.got]
      /\ q.no = d.asked + 1 /\ q.since = Len(ms) /\ q.range = r2 /\ q.got = Unserved
  BY DEF Fetch
<1> HIDE DEF q
<1>3. /\ e.data = d.data /\ e.loading = ~refresh /\ e.refreshing = refresh /\ e.error = FALSE
      /\ e.asked = d.asked + 1 /\ e.no = d.no /\ e.ok = d.ok /\ e.since = d.since
      /\ e = [data |-> e.data, loading |-> e.loading, refreshing |-> e.refreshing, error |-> e.error,
              asked |-> e.asked, no |-> e.no, ok |-> e.ok, since |-> e.since]
  <2>1. PICK a, l, f : a = d.asked + 1 /\ l = (~refresh) /\ f = FALSE
    OBVIOUS
  <2>2. e = AskedState(d, a, f, l, refresh) /\ PanelShape(d)
    BY <2>1, Zenon DEF PanelTrue, AskedState
  <2> HIDE DEF e
  <2>3. /\ e = [data |-> e.data, loading |-> e.loading, refreshing |-> e.refreshing, error |-> e.error,
                asked |-> e.asked, no |-> e.no, ok |-> e.ok, since |-> e.since]
        /\ e.asked = a /\ e.error = f /\ e.loading = l /\ e.refreshing = refresh
        /\ e.data = d.data /\ e.no = d.no /\ e.ok = d.ok /\ e.since = d.since
    BY <2>2, AskedIs
  <2> QED BY <2>1, <2>3
<1>4. PanelShape(e)
  BY <1>1, <1>3 DEF PanelTrue, PanelShape
<1> HIDE DEF e
<1>5. RequestTrue(p, q, d.asked + 1, r2, ms)
  BY <1>1, <1>2 DEF RequestTrue
<1>6. \A i \in DOMAIN rs : RequestTrue(p, rs[i], d.asked + 1, r2, ms)
  BY <1>1 DEF PanelTrue, RequestTrue
<1>7. /\ IsSeq(qs) /\ Len(qs) = Len(rs) + 1 /\ qs[Len(rs) + 1] = q
      /\ \A i \in 1 .. Len(rs) : qs[i] = rs[i]
  BY SeqAppended DEF PanelTrue
<1>8. Len(rs) \in Nat /\ DOMAIN rs = 1 .. Len(rs) /\ DOMAIN qs = 1 .. Len(rs) + 1 /\ qs # <<>>
  BY <1>7, SeqEnds DEF PanelTrue
<1> HIDE DEF qs
<1>9. \A i \in DOMAIN qs : RequestTrue(p, qs[i], e.asked, r2, ms)
  <2> TAKE i \in DOMAIN qs
  <2>1. i \in DOMAIN rs \/ i = Len(rs) + 1
    BY <1>8
  <2> QED BY <2>1, <1>3, <1>5, <1>6, <1>7, <1>8
<1>10. ShownTrue(p, e, r2, ms)
  BY <1>1, <1>3 DEF PanelTrue, ShownTrue
<1>11. WaitingTrue(p, e, qs)
  <2>1. p \in Single => Len(qs) = 1
    BY <1>7, EmptySeq
  <2>2. (e.loading \/ e.refreshing) /\ ~e.error
    <3>1. CASE refresh = TRUE
      BY <3>1, <1>3
    <3>2. CASE refresh = FALSE
      BY <3>2, <1>3
    <3> QED BY <3>1, <3>2
  <2>3. Len(qs) = 1 => Len(qs) <= 1
    OBVIOUS
  <2> QED BY <2>1, <2>2, <2>3, <1>8, Zenon DEF WaitingTrue
<1> QED
  BY <1>4, <1>7, <1>9, <1>10, <1>11 DEF PanelTrue, e, qs, q

\* One of its requests is served.
LEMMA PanelServed ==
    ASSUME NEW ms \in Seq(Kind), NEW p, NEW d, NEW rs, NEW r, PanelTrue(p, d, rs, r, ms), NEW i \in DOMAIN rs,
           NEW a, AnswerTrue(p, a, rs[i].since, ms), p \in Ranged => a.range = rs[i].range
    PROVE  PanelTrue(p, d, [rs EXCEPT ![i].got = a], r, ms)
<1> DEFINE q == [rs[i] EXCEPT !.got = a]
           qs == [rs EXCEPT ![i] = q]
<1>1. RequestTrue(p, rs[i], d.asked, r, ms)
  BY DEF PanelTrue
<1>2. /\ q.no = rs[i].no /\ q.range = rs[i].range /\ q.since = rs[i].since /\ q.got = a
      /\ q = [no |-> q.no, range |-> q.range, refresh |-> q.refresh, since |-> q.since, got |-> q.got]
  BY <1>1 DEF RequestTrue
<1> HIDE DEF q
<1>3. RequestTrue(p, q, d.asked, r, ms)
  BY <1>1, <1>2 DEF RequestTrue
<1>4. /\ IsSeq(qs) /\ Len(qs) = Len(rs)
      /\ \A j \in DOMAIN rs : qs[j] = IF j = i THEN q ELSE rs[j]
  BY SeqChanged DEF PanelTrue
<1>5. DOMAIN qs = DOMAIN rs /\ (qs = <<>> <=> rs = <<>>)
  BY <1>4, SeqEnds DEF PanelTrue
<1> HIDE DEF qs
<1>6. \A j \in DOMAIN qs : RequestTrue(p, qs[j], d.asked, r, ms)
  BY <1>3, <1>4, <1>5 DEF PanelTrue
<1>7. WaitingTrue(p, d, qs)
  BY <1>4, <1>5 DEF PanelTrue, WaitingTrue
<1>8. PanelTrue(p, d, qs, r, ms)
  BY <1>4, <1>6, <1>7 DEF PanelTrue
<1> QED BY <1>8 DEF qs, q

\* An answer or a failure reaches it.
Received(p, d, q, ok) ==
    [d EXCEPT !.data = IF ok THEN q.got ELSE d.data,
              !.error = d.error \/ (~ok /\ p # "status"),
              !.loading = FALSE, !.refreshing = FALSE,
              !.no = q.no, !.ok = ok, !.since = q.since]

LEMMA PanelReceives ==
    ASSUME NEW ms \in Seq(Kind), NEW p, NEW d, NEW rs, NEW r, PanelTrue(p, d, rs, r, ms), NEW i \in DOMAIN rs,
           NEW ok \in BOOLEAN, ok => rs[i].got # Unserved
    PROVE  PanelTrue(p, Received(p, d, rs[i], ok), RemoveAt(rs, i), r, ms)
<1> DEFINE q == rs[i]
           e == Received(p, d, q, ok)
           qs == RemoveAt(rs, i)
<1>1. RequestTrue(p, q, d.asked, r, ms) /\ d.asked \in Nat \ {0} /\ Len(ms) \in Nat
  BY LenProperties DEF PanelTrue, PanelShape
<1>2. q.no \in 1 .. d.asked /\ q.since \in Nat
  BY <1>1 DEF RequestTrue
<1> HIDE DEF q
<1>3. /\ e.data = (IF ok THEN q.got ELSE d.data) /\ e.loading = FALSE /\ e.refreshing = FALSE
      /\ e.error = (d.error \/ (~ok /\ p # "status"))
      /\ e.asked = d.asked /\ e.no = q.no /\ e.ok = ok /\ e.since = q.since
      /\ e = [data |-> e.data, loading |-> e.loading, refreshing |-> e.refreshing, error |-> e.error,
              asked |-> e.asked, no |-> e.no, ok |-> e.ok, since |-> e.since]
  <2>1. PICK g, f, h : /\ g = (IF ok THEN q.got ELSE d.data) /\ f = FALSE
                       /\ h = (d.error \/ (~ok /\ p # "status"))
    OBVIOUS
  <2>2. e = ReceivedState(d, g, h, f, f, q.no, ok, q.since) /\ PanelShape(d)
    BY <2>1, Zenon DEF PanelTrue, ReceivedState, Received
  <2> HIDE DEF e
  <2>3. /\ e = [data |-> e.data, loading |-> e.loading, refreshing |-> e.refreshing, error |-> e.error,
                asked |-> e.asked, no |-> e.no, ok |-> e.ok, since |-> e.since]
        /\ e.data = g /\ e.error = h /\ e.loading = f /\ e.refreshing = f /\ e.no = q.no /\ e.ok = ok
        /\ e.since = q.since /\ e.asked = d.asked
    BY <2>2, ReceivedIs
  <2> QED BY <2>1, <2>3
<1> HIDE DEF e
<1>4. PanelShape(e)
  <2>1. e.error \in BOOLEAN
    <3>1. d.error \in BOOLEAN
      BY Zenon DEF PanelTrue, PanelShape
    <3>2. e.error = (d.error \/ (~ok /\ p # "status"))
      BY <1>3
    <3> QED BY <3>1, <3>2
  <2>2. e.loading \in BOOLEAN /\ e.refreshing \in BOOLEAN /\ e.ok \in BOOLEAN
    BY <1>3
  <2>3. e.asked \in Nat \ {0} /\ e.no \in 0 .. e.asked
    BY <1>1, <1>2, <1>3
  <2>4. {e.loading, e.refreshing, e.error, e.ok} \subseteq BOOLEAN
    BY <2>1, <2>2, Zenon
  <2> QED BY <2>3, <2>4, <1>3 DEF PanelShape
<1>5. ShownTrue(p, e, r, ms)
  <2>1. CASE ok
    <3>1. AnswerTrue(p, e.data, e.since, ms) /\ (p \in Ranged => e.data.range = q.range)
      BY <2>1, <1>1, <1>3 DEF RequestTrue, q
    <3>2. p \in Ranged /\ e.no = e.asked => e.data.range = r
      BY <3>1, <1>1, <1>3 DEF RequestTrue
    <3> QED BY <3>1, <3>2, <1>2, <1>3, AnswerSuffices DEF ShownTrue
  <2>2. CASE ~ok
    BY <2>2, <1>3 DEF PanelTrue, ShownTrue
  <2> QED BY <2>1, <2>2
<1>6. /\ IsSeq(qs) /\ Len(qs) = Len(rs) - 1
      /\ \A j \in DOMAIN qs : \E k \in DOMAIN rs : qs[j] = rs[k]
  BY SeqRemoved DEF PanelTrue
<1>7. Len(rs) \in Nat /\ i \in 1 .. Len(rs) /\ (qs = <<>> <=> Len(qs) = 0) /\ rs # <<>>
  BY <1>6, SeqEnds DEF PanelTrue
<1> HIDE DEF qs
<1>8. \A j \in DOMAIN qs : RequestTrue(p, qs[j], e.asked, r, ms)
  BY <1>3, <1>6 DEF PanelTrue
<1>9. WaitingTrue(p, e, qs)
  <2>1. p # "status" /\ ~ok => e.error = TRUE
    BY <1>3
  <2>2. ASSUME p \in Single PROVE Len(qs) = 0 /\ (ok => e.error = FALSE)
    <3>1. Len(rs) <= 1 /\ ~d.error /\ d.error \in BOOLEAN
      BY <2>2, <1>7 DEF PanelTrue, WaitingTrue, PanelShape
    <3> QED BY <3>1, <1>3, <1>6, <1>7
  <2>3. e.ok = ok /\ ~e.loading /\ ~e.refreshing
    BY <1>3
  <2>4. Len(qs) = 0 => Len(qs) <= 1
    OBVIOUS
  <2>5. ASSUME p \in Single, e.error PROVE ~e.ok
    <3>1. CASE ok = TRUE
      BY <2>2, <2>5, <3>1
    <3>2. CASE ok = FALSE
      BY <2>3, <3>2
    <3> QED BY <3>1, <3>2
  <2>6. ASSUME p # "status", ~e.ok PROVE e.error
    <3>1. CASE ok = TRUE
      BY <2>3, <2>6, <3>1
    <3>2. CASE ok = FALSE
      BY <2>1, <2>6, <3>2
    <3> QED BY <3>1, <3>2
  <2> QED BY <2>2, <2>3, <2>4, <2>5, <2>6, <1>7, Zenon DEF WaitingTrue
<1> QED
  BY <1>4, <1>5, <1>6, <1>8, <1>9 DEF PanelTrue, e, qs, q

\* The backend tells what is.
LEMMA AnswersTrue ==
    ASSUME moments \in Seq(Kind), NEW p, NEW q, q.since \in 0 .. Len(moments), NEW a \in Answer(p, q)
    PROVE  AnswerTrue(p, a, q.since, moments) /\ (p \in Ranged => a.range = q.range)
<1> DEFINE n == Len(moments)
<1>1. n \in Nat /\ Today = n /\ q.since \in 0 .. n
  BY LenProperties DEF Today
<1> HIDE DEF n
<1>2. \A k : Times(k) = Happened(moments, k, n)
  BY <1>1 DEF Times, Happened
<1>3. CASE p = "card"
  <2>1. a = [asOf |-> n, range |-> q.range]
    BY <1>1, <1>3 DEF Answer
  <2> QED BY <2>1, <1>1, <1>3 DEF AnswerTrue, n
<1>4. CASE p = "chart"
  <2>1. a = getValueHistory(q.range)
    BY <1>4 DEF Answer
  <2>2. /\ a.asOf = n /\ a.range = q.range
        /\ a.points = downsample(InOrder(InRange(Times("snapshot"), q.range)), MaxPoints)
        /\ a.markers = InRange(Times("deposit"), q.range)
    BY <2>1, <1>1 DEF getValueHistory
  <2>3. InRange(Times("snapshot"), q.range) = Kept(moments, n, q.range)
    BY <1>1, <1>2 DEF InRange, Kept
  <2>4. InRange(Times("deposit"), q.range) \subseteq Happened(moments, "deposit", n)
    BY <1>2 DEF InRange
  <2> QED BY <2>2, <2>3, <2>4, <1>1, <1>4 DEF AnswerTrue, n
<1>5. CASE p = "positions"
  <2>1. a = PositionsView(q.refresh)
    BY <1>5 DEF Answer
  <2>2. CASE ~q.refresh /\ Times("snapshot") # {}
    <3>1. a.asOf = Max(Times("snapshot")) /\ a.live = FALSE
      BY <2>1, <2>2 DEF PositionsView
    <3>2. Times("snapshot") \subseteq 0 .. n
      BY <1>1, <1>2 DEF Happened
    <3>3. a.asOf \in 0 .. n
      BY <3>1, <3>2, <2>2, <1>1, MaxPicked
    <3> QED BY <3>1, <3>3, <1>1, <1>5 DEF AnswerTrue, Ranged, n
  <2>3. CASE ~(~q.refresh /\ Times("snapshot") # {})
    <3>1. a.asOf = n
      BY <2>1, <2>3, <1>1 DEF PositionsView
    <3> QED BY <3>1, <1>1, <1>5 DEF AnswerTrue, Ranged, n
  <2> QED BY <2>2, <2>3
<1>6. CASE p = "context"
  <2>1. PICK readable \in BOOLEAN : a = getContextSlots(readable)
    BY <1>6 DEF Answer
  <2> DEFINE stored == Times("context") \cup {0}
  <2>2. stored \subseteq 0 .. n /\ stored # {}
    BY <1>1, <1>2 DEF Happened
  <2>3. PICK m : m = Max(stored) /\ m \in stored
    BY <2>2, <1>1, MaxPicked
  <2>4. PICK l : l = IF readable THEN SlotsAt(m) ELSE 0
    OBVIOUS
  <2>5. a = [asOf |-> n, slots |-> SlotsAt(n), contextLength |-> l, syncWarning |-> SlotsAt(n) # l]
    BY <2>1, <2>3, <2>4, <1>1 DEF getContextSlots
  <2>6. \A t : SlotsAt(t) = Cardinality(Happened(moments, "slot", t))
    BY DEF SlotsAt, Happened
  <2>7. m = 0 => SlotsAt(m) = 0
    <3>1. Happened(moments, "slot", 0) = {}
      BY DEF Happened
    <3> QED BY <3>1, <2>6, FS_EmptySet
  <2>8. l = 0 \/ \E t \in Happened(moments, "context", n) : l = Cardinality(Happened(moments, "slot", t))
    BY <2>3, <2>4, <2>6, <2>7, <1>2
  <2>9. /\ a.asOf = n /\ a.slots = SlotsAt(n) /\ a.contextLength = l
        /\ a.syncWarning = (SlotsAt(n) # l)
    BY <2>5
  <2>10. Compared(a, moments)
    BY <2>6, <2>8, <2>9 DEF Compared
  <2> QED BY <2>9, <2>10, <1>1, <1>6 DEF AnswerTrue, Ranged, n
<1>7. CASE p \notin {"card", "chart", "positions", "context"}
  <2>1. a = [asOf |-> n]
    BY <1>1, <1>7 DEF Answer
  <2> QED BY <2>1, <1>1, <1>7 DEF AnswerTrue, Ranged, n
<1> QED BY <1>3, <1>4, <1>5, <1>6, <1>7

LEMMA PanelsStart == ASSUME PanelsInit PROVE PanelsInv
<1>1. moments \in Seq(Kind)
  BY PanelsAssumption DEF PanelsInit
<1>2. \A p \in open : panels[p] = Blank /\ requests[p] = <<Fetch(p, 1, range, FALSE)>>
  BY DEF PanelsInit
<1>3. panels = [p \in open |-> panels[p]] /\ requests = [p \in open |-> requests[p]]
  BY DEF PanelsInit
<1>4. ASSUME NEW p \in open PROVE PanelTrue(p, panels[p], requests[p], range, moments)
  BY <1>1, <1>2, PanelStarts
<1> QED
  BY <1>1, <1>3, <1>4 DEF PanelsInv

LEMMA MomentKeeps == ASSUME PanelsInv, NEW kind \in Kind, Moment(kind) PROVE PanelsInv'
<1>1. moments \in Seq(Kind) /\ moments' = Append(moments, kind)
  BY DEF PanelsInv, Moment
<1>2. moments' \in Seq(Kind)
  BY <1>1, AppendProperties
<1>3. range' = range /\ panels' = panels /\ requests' = requests /\ open' = open
  BY DEF Moment
<1>4. \A p \in open : PanelTrue(p, panels[p], requests[p], range, Append(moments, kind))
  BY <1>1, MomentKeepsPanel DEF PanelsInv
<1> QED
  BY <1>1, <1>2, <1>3, <1>4 DEF PanelsInv

\* Some panels ask, for another range only if these are all that show one.
LEMMA AsksKeep ==
    ASSUME PanelsInv, NEW ps, NEW refresh \in BOOLEAN, Asks(ps, range', refresh),
           moments' = moments, open' = open,
           range' = range \/ (ps = Ranged /\ open = Ranged),
           \A p \in ps \cap Single : requests[p] = <<>>
    PROVE  PanelsInv'
<1>1. moments \in Seq(Kind) /\ Len(moments) \in Nat
  BY LenProperties DEF PanelsInv
<1>2. panels' = [p \in open |-> panels'[p]] /\ requests' = [p \in open |-> requests'[p]]
  BY Zenon DEF Asks
<1>3. ASSUME NEW p \in open PROVE PanelTrue(p, panels'[p], requests'[p], range', moments)
  <2>1. PanelTrue(p, panels[p], requests[p], range, moments)
    BY DEF PanelsInv
  <2>2. CASE p \in ps
    <3>1. requests'[p] = Append(requests[p], Fetch(p, panels[p].asked + 1, range', refresh))
      BY <2>2 DEF Asks
    <3>2. panels'[p] = [panels[p] EXCEPT !.asked = @ + 1, !.error = FALSE,
                                         !.loading = ~refresh, !.refreshing = refresh]
      BY <2>2, Zenon DEF Asks
    <3>3. (p \in Ranged \/ range' = range) /\ (p \in Single => requests[p] = <<>>)
      BY <2>2
    <3>4. PanelTrue(p, [panels[p] EXCEPT !.asked = @ + 1, !.error = FALSE,
                                         !.loading = ~refresh, !.refreshing = refresh],
                    Append(requests[p], Fetch(p, panels[p].asked + 1, range', refresh)), range', moments)
      BY <1>1, <2>1, <3>3, PanelAsks
    <3> QED BY <3>1, <3>2, <3>4
  <2>3. CASE p \notin ps
    <3>1. requests'[p] = requests[p] /\ panels'[p] = panels[p] /\ range' = range
      BY <2>3 DEF Asks
    <3> QED BY <2>1, <3>1
  <2> QED BY <2>2, <2>3
<1> QED
  BY <1>1, <1>2, <1>3 DEF PanelsInv

LEMMA ButtonsKeep ==
    ASSUME PanelsInv, \/ onRangeChange
                      \/ \E p \in open : refreshPanel(p) \/ retryPanel(p) \/ askAgain(p)
    PROVE  PanelsInv'
<1>1. CASE onRangeChange
  <2>1. Asks(Ranged, range', FALSE) /\ open = Ranged /\ moments' = moments /\ open' = open
    BY <1>1 DEF onRangeChange
  <2>2. Ranged \cap Single = {}
    BY DEF Ranged, Single
  <2> QED BY <2>1, <2>2, AsksKeep
<1>2. ASSUME NEW p \in open, refreshPanel(p) PROVE PanelsInv'
  <2>1. /\ Asks({p}, range', p = "positions") /\ moments' = moments /\ open' = open /\ range' = range
        /\ ~panels[p].loading /\ ~panels[p].refreshing
    BY <1>2 DEF refreshPanel
  <2>2. p \in Single => requests[p] = <<>>
    BY <2>1 DEF PanelsInv, PanelTrue, WaitingTrue
  <2>3. PICK refresh \in BOOLEAN : refresh = (p = "positions")
    OBVIOUS
  <2>4. Asks({p}, range', refresh)
    BY <2>1, <2>3
  <2> QED BY <2>1, <2>2, <2>4, AsksKeep
<1>3. ASSUME NEW p \in open, retryPanel(p) PROVE PanelsInv'
  <2>1. /\ Asks({p}, range', FALSE) /\ moments' = moments /\ open' = open /\ range' = range
        /\ panels[p].error
    BY <1>3 DEF retryPanel
  <2>2. p \in Single => requests[p] = <<>>
    BY <2>1 DEF PanelsInv, PanelTrue, WaitingTrue
  <2> QED BY <2>1, <2>2, AsksKeep
<1>4. ASSUME NEW p \in open, askAgain(p) PROVE PanelsInv'
  <2>1. /\ Asks({p}, range', FALSE) /\ moments' = moments /\ open' = open /\ range' = range
        /\ p \notin Single
    BY <1>4 DEF askAgain, Single
  <2> QED BY <2>1, AsksKeep
<1> QED BY <1>1, <1>2, <1>3, <1>4

LEMMA RequestsKeep ==
    ASSUME PanelsInv, NEW p \in open, NEW i \in DOMAIN requests[p],
           \/ serve(p, i)
           \/ \E ok \in BOOLEAN : receive(p, i, ok)
    PROVE  PanelsInv'
<1>1. /\ moments \in Seq(Kind) /\ moments' = moments /\ range' = range /\ open' = open
      /\ panels = [o \in open |-> panels[o]] /\ requests = [o \in open |-> requests[o]]
  BY DEF PanelsInv, serve, receive
<1>2. PanelTrue(p, panels[p], requests[p], range, moments) /\ RequestTrue(p, requests[p][i], panels[p].asked, range, moments)
  BY DEF PanelsInv, PanelTrue
<1>3. ASSUME NEW d, NEW rs, panels' = [panels EXCEPT ![p] = d], requests' = [requests EXCEPT ![p] = rs],
             PanelTrue(p, d, rs, range, moments)
      PROVE  PanelsInv'
  <2>1. panels' = [o \in open |-> panels'[o]] /\ requests' = [o \in open |-> requests'[o]]
    BY <1>1, <1>3
  <2>2. ASSUME NEW o \in open PROVE PanelTrue(o, panels'[o], requests'[o], range, moments)
    BY <1>1, <1>3, <2>2 DEF PanelsInv
  <2> QED BY <1>1, <2>1, <2>2 DEF PanelsInv
<1>4. CASE serve(p, i)
  <2>1. PICK a \in Answer(p, requests[p][i]) : requests' = [requests EXCEPT ![p][i].got = a]
    BY <1>4 DEF serve
  <2>2. requests[p][i].since \in 0 .. Len(moments)
    BY <1>2 DEF RequestTrue
  <2>3. /\ AnswerTrue(p, a, requests[p][i].since, moments)
        /\ p \in Ranged => a.range = requests[p][i].range
    BY <1>1, <2>1, <2>2, AnswersTrue
  <2>4. PanelTrue(p, panels[p], [requests[p] EXCEPT ![i].got = a], range, moments)
    BY <1>1, <1>2, <2>3, PanelServed
  <2>5. requests' = [requests EXCEPT ![p] = [requests[p] EXCEPT ![i].got = a]]
    BY <2>1, Zenon
  <2>6. panels' = [panels EXCEPT ![p] = panels[p]]
    BY <1>1, <1>4 DEF serve
  <2> QED BY <1>3, <2>4, <2>5, <2>6
<1>5. ASSUME NEW ok \in BOOLEAN, receive(p, i, ok) PROVE PanelsInv'
  <2> DEFINE d == Received(p, panels[p], requests[p][i], ok)
  <2>1. panels' = [panels EXCEPT ![p] = d]
    BY <1>5, Zenon DEF receive, Received
  <2>2. requests' = [requests EXCEPT ![p] = RemoveAt(requests[p], i)]
    BY <1>5, Zenon DEF receive
  <2>3. ok => requests[p][i].got # Unserved
    BY <1>5 DEF receive
  <2>4. PanelTrue(p, d, RemoveAt(requests[p], i), range, moments)
    BY <1>1, <1>2, <2>3, PanelReceives
  <2> HIDE DEF d
  <2> QED BY <1>3, <2>1, <2>2, <2>4
<1> QED BY <1>4, <1>5

LEMMA ForbiddenKeeps == ASSUME PanelsInv, NEW i, forbidden(i) PROVE PanelsInv'
<1>1. /\ moments \in Seq(Kind) /\ moments' = moments /\ range' = range /\ open' = {"dashboard"}
      /\ panels' = [p \in {"dashboard"} |-> Blank]
      /\ requests' = [p \in {"dashboard"} |-> <<Fetch(p, 1, range, FALSE)>>]
  BY DEF PanelsInv, forbidden
<1>2. \A p \in {"dashboard"} : PanelTrue(p, Blank, <<Fetch(p, 1, range, FALSE)>>, range, moments)
  BY <1>1, PanelStarts
<1>3. /\ panels' = [p \in open' |-> panels'[p]] /\ requests' = [p \in open' |-> requests'[p]]
      /\ \A p \in open' : PanelTrue(p, panels'[p], requests'[p], range, moments)
  BY <1>1, <1>2
<1> QED BY <1>1, <1>3 DEF PanelsInv

LEMMA PanelsSteps == ASSUME PanelsInv, [PanelsNext]_panelVars PROVE PanelsInv'
<1>1. CASE UNCHANGED panelVars
  BY <1>1 DEF PanelsInv, panelVars
<1>2. CASE PanelsNext
  <2>1. \/ \E kind \in Kind : Moment(kind)
        \/ onRangeChange \/ \E p \in open : refreshPanel(p) \/ retryPanel(p) \/ askAgain(p)
        \/ \E p \in open : \E i \in DOMAIN requests[p] :
              serve(p, i) \/ receive(p, i, TRUE) \/ receive(p, i, FALSE)
        \/ \E i : forbidden(i)
    BY <1>2, Zenon DEF PanelsNext
  <2> QED BY <2>1, MomentKeeps, ButtonsKeep, RequestsKeep, ForbiddenKeeps
<1> QED BY <1>1, <1>2

LEMMA RestShown == ASSUME PanelsInv PROVE AtRestTrue
<1> SUFFICES ASSUME NEW p \in open
             PROVE  LET d == panels[p] IN
                    /\ p \in Single => Len(requests[p]) <= 1 /\ (requests[p] = <<>>) = ~(d.loading \/ d.refreshing)
                    /\ AtRest(p) =>
                         /\ ~d.loading /\ ~d.refreshing
                         /\ p # "status" /\ ~d.ok => d.error
                         /\ p \in Single => d.error = ~d.ok
                         /\ d.ok => \/ d.data.asOf >= d.since
                                    \/ p = "positions" /\ ~d.data.live
  BY DEF AtRestTrue
<1> DEFINE d == panels[p]
<1>1. PanelShape(d) /\ ShownTrue(p, d, range, moments) /\ WaitingTrue(p, d, requests[p])
  BY DEF PanelsInv, PanelTrue
<1> HIDE DEF d
<1>2. ASSUME p \in Single PROVE Len(requests[p]) <= 1 /\ (requests[p] = <<>>) = ~(d.loading \/ d.refreshing)
  BY <1>1, <1>2 DEF WaitingTrue
<1>3. ASSUME AtRest(p)
      PROVE  /\ ~d.loading /\ ~d.refreshing
             /\ p # "status" /\ ~d.ok => d.error
             /\ p \in Single => d.error = ~d.ok
             /\ d.ok => \/ d.data.asOf >= d.since
                        \/ p = "positions" /\ ~d.data.live
  <2>1. requests[p] = <<>> /\ d.no # 0
    BY <1>1, <1>3 DEF AtRest, PanelShape, d
  <2>2. ~d.loading /\ ~d.refreshing /\ (p # "status" /\ ~d.ok => d.error)
    BY <2>1, <1>1 DEF WaitingTrue
  <2>3. ASSUME p \in Single PROVE d.error = ~d.ok
    <3>1. p # "status"
      BY <2>3 DEF Single
    <3>2. (d.error => ~d.ok) /\ (~d.ok => d.error)
      BY <2>1, <2>2, <2>3, <3>1, <1>1 DEF WaitingTrue
    <3>3. d.error \in BOOLEAN /\ d.ok \in BOOLEAN
      BY <1>1, Zenon DEF PanelShape
    <3> QED BY <3>2, <3>3
  <2>4. d.ok => d.data.asOf >= d.since \/ (p = "positions" /\ ~d.data.live)
    BY <2>1, <1>1 DEF ShownTrue, AnswerTrue
  <2> QED BY <2>2, <2>3, <2>4
<1> QED BY <1>2, <1>3 DEF d

LEMMA RangeShown == ASSUME PanelsInv PROVE RangeTrue
<1> SUFFICES ASSUME open = Ranged, \A p \in Ranged : AtRest(p) /\ panels[p].ok
             PROVE  LET h == panels["chart"].data
                        kept == {t \in 1 .. h.asOf : moments[t] = "snapshot" /\ (h.range # 0 => t >= h.asOf - h.range)}
                    IN  /\ panels["card"].data.range = range /\ h.range = range
                        /\ Cardinality(kept) >= 2 =>
                             /\ Head(Curve(h)) = Min(kept) /\ Last(Curve(h)) = Max(kept)
                             /\ Len(Curve(h)) = Min({MaxPoints, Cardinality(kept)})
                        /\ \A i, j \in DOMAIN Curve(h) : i < j => Curve(h)[i] < Curve(h)[j]
                        /\ Markers(h) \subseteq {t \in 1 .. h.asOf : moments[t] = "deposit"}
  BY DEF RangeTrue
<1> DEFINE h == panels["chart"].data
           kept == {t \in 1 .. h.asOf : moments[t] = "snapshot" /\ (h.range # 0 => t >= h.asOf - h.range)}
           n == Cardinality(kept)
           o == InOrder(kept)
<1>1. \A p \in Ranged : /\ panels[p].no # 0 /\ panels[p].no = panels[p].asked /\ panels[p].ok
                        /\ ShownTrue(p, panels[p], range, moments)
  BY DEF PanelsInv, PanelTrue, PanelShape, AtRest
<1>2. "chart" \in Ranged /\ "card" \in Ranged
  BY DEF Ranged
<1>3. panels["card"].data.range = range /\ h.range = range /\ AnswerTrue("chart", h, panels["chart"].since, moments)
  BY <1>1, <1>2 DEF ShownTrue
<1> HIDE DEF h
<1>4. Len(moments) \in Nat /\ h.asOf \in Nat
  BY <1>3, LenProperties DEF PanelsInv, AnswerTrue
<1>5. kept = Kept(moments, h.asOf, h.range)
  BY DEF Kept, Happened
<1>6. h.points = downsample(o, MaxPoints) /\ h.markers \subseteq {t \in 1 .. h.asOf : moments[t] = "deposit"}
  BY <1>3, <1>5, Zenon DEF AnswerTrue, Happened
<1>7. kept \subseteq 1 .. h.asOf
  OBVIOUS
<1> HIDE DEF kept
<1>8. IsFiniteSet(kept) /\ kept \subseteq Nat /\ kept \subseteq 0 .. h.asOf
  <2>1. 1 \in Int /\ h.asOf \in Int /\ kept \in SUBSET (1 .. h.asOf)
    BY <1>4, <1>7
  <2>2. IsFiniteSet(kept)
    BY <2>1, FS_Interval, FS_Subset
  <2> QED BY <2>1, <2>2
<1>9. /\ n \in Nat /\ o \in Seq(kept) /\ Len(o) = n
      /\ \A k \in 1 .. n : o[k] \in kept
      /\ \A t \in kept : \E k \in 1 .. n : o[k] = t
      /\ \A j, k \in 1 .. n : j < k => o[j] < o[k]
  BY <1>8, InOrderRises
<1> HIDE DEF n, o
<1>10. CASE n < 2
  <2>1. MaxPoints \in Nat /\ MaxPoints >= 2
    BY PanelsAssumption
  <2>2. h.points = o
    BY <2>1, <1>6, <1>9, <1>10 DEF downsample
  <2>3. Curve(h) = <<>>
    BY <2>2, <1>9, <1>10 DEF Curve
  <2>4. Markers(h) = {}
    BY <2>3 DEF Markers
  <2>5. \A i, j \in DOMAIN Curve(h) : i < j => Curve(h)[i] < Curve(h)[j]
    BY <2>3
  <2>6. ~(n >= 2)
    BY <1>9, <1>10
  <2> QED BY <2>4, <2>5, <2>6, <1>3 DEF h, n, kept
<1>11. CASE ~(n < 2)
  <2> DEFINE c == downsample(o, MaxPoints)
  <2>1. o \in Seq(Nat)
    BY <1>8, <1>9, SeqMonotonic
  <2>2. n >= 2
    BY <1>9, <1>11
  <2>3. /\ Len(c) = Min({MaxPoints, n}) /\ Len(c) >= 2 /\ Len(c) \in Nat
        /\ c[1] = o[1] /\ c[Len(c)] = o[n] /\ DOMAIN c = 1 .. Len(c)
        /\ \A i, j \in DOMAIN c : i < j => c[i] < c[j]
    BY <2>1, <2>2, <1>9, DownsampleKeeps
  <2> HIDE DEF c
  <2>4. h.points = c
    BY <1>6 DEF c
  <2>5. Curve(h) = c
    BY <2>3, <2>4 DEF Curve
  <2>6. Markers(h) \subseteq {t \in 1 .. h.asOf : moments[t] = "deposit"}
    BY <1>6 DEF Markers
  <2>7. \A t \in kept : o[1] <= t /\ t <= o[n]
    <3> TAKE t \in kept
    <3>1. PICK k \in 1 .. n : o[k] = t
      BY <1>9
    <3>2. o[1] \in Nat /\ o[n] \in Nat /\ t \in Nat
      <4>1. 1 \in 1 .. n /\ n \in 1 .. n /\ (\A x \in kept : x \in Nat)
        BY <2>2, <1>8, <1>9
      <4> QED BY <4>1, <1>9
    <3>3. (k = 1 \/ o[1] < o[k]) /\ (k = n \/ o[k] < o[n])
      BY <2>2, <1>9
    <3> QED BY <3>1, <3>2, <3>3
  <2>8. o[1] \in kept /\ o[n] \in kept
    BY <2>2, <1>9
  <2>9. Min(kept) = o[1]
    <3>1. \A x \in kept : (\A y \in kept : x <= y) => x = o[1]
      <4>1. \A x \in kept : x <= o[1] /\ o[1] <= x => x = o[1]
        <5>1. \A x \in kept : x \in Nat
          BY <1>8
        <5>2. \A x, y \in Nat : x <= y /\ y <= x => x = y
          OBVIOUS
        <5> QED BY <5>1, <5>2, <2>8
      <4> QED BY <4>1, <2>7, <2>8
    <3> QED BY <3>1, <2>7, <2>8 DEF Min
  <2>10. Max(kept) = o[n]
    <3>1. Max(kept) \in kept /\ \A t \in kept : t <= Max(kept)
      BY <1>4, <1>8, <2>8, MaxPicked
    <3>2. Max(kept) \in Nat /\ o[n] \in Nat /\ o[n] <= Max(kept) /\ Max(kept) <= o[n]
      BY <3>1, <2>7, <2>8, <1>8
    <3> QED BY <3>2
  <2>11. Head(c) = o[1] /\ Last(c) = o[n]
    BY <2>3 DEF Last
  <2>12. Len(Curve(h)) = Min({MaxPoints, n}) /\ Head(Curve(h)) = Min(kept) /\ Last(Curve(h)) = Max(kept)
    BY <2>3, <2>5, <2>9, <2>10, <2>11
  <2>13. \A i, j \in DOMAIN Curve(h) : i < j => Curve(h)[i] < Curve(h)[j]
    BY <2>3, <2>5
  <2> QED BY <2>6, <2>12, <2>13, <1>3 DEF h, n, kept
<1> QED BY <1>10, <1>11

LEMMA WarningShown == ASSUME PanelsInv PROVE WarningTrue
<1> SUFFICES ASSUME open = {"context"}, panels["context"].data # Nothing, ~panels["context"].data.syncWarning
             PROVE  LET d == panels["context"].data
                        stored == {t \in 1 .. d.asOf : moments[t] = "context"}
                    IN  d.slots = 0 \/ (stored # {} /\ \A t \in 1 .. d.asOf : moments[t] = "slot" => t < Max(stored))
  BY DEF WarningTrue
<1> DEFINE d == panels["context"].data
           stored == {t \in 1 .. d.asOf : moments[t] = "context"}
           slots == Happened(moments, "slot", d.asOf)
<1>1. AnswerTrue("context", d, 0, moments)
  BY DEF PanelsInv, PanelTrue, ShownTrue
<1>2. ~d.syncWarning
  OBVIOUS
<1> HIDE DEF d
<1>3. Len(moments) \in Nat /\ d.asOf \in Nat
  BY <1>1, LenProperties DEF PanelsInv, AnswerTrue
<1>4. /\ d.slots = Cardinality(slots) /\ d.syncWarning = (d.slots # d.contextLength)
      /\ \/ d.contextLength = 0
         \/ \E m \in Happened(moments, "context", d.asOf) :
               d.contextLength = Cardinality(Happened(moments, "slot", m))
  BY <1>1 DEF AnswerTrue, Compared
<1>5. d.slots = d.contextLength
  BY <1>2, <1>4
<1>6. CASE d.contextLength = 0
  BY <1>5, <1>6 DEF d
<1>7. ASSUME NEW m \in Happened(moments, "context", d.asOf),
             d.contextLength = Cardinality(Happened(moments, "slot", m))
      PROVE  stored # {} /\ \A t \in 1 .. d.asOf : moments[t] = "slot" => t < Max(stored)
  <2>1. m \in 1 .. d.asOf /\ m \in stored /\ moments[m] = "context"
    BY DEF Happened
  <2>2. Happened(moments, "slot", m) \in SUBSET slots
    BY <2>1, <1>3 DEF Happened
  <2>3. IsFiniteSet(slots)
    <3>1. 1 \in Int /\ d.asOf \in Int /\ slots \in SUBSET (1 .. d.asOf)
      BY <1>3 DEF Happened
    <3> QED BY <3>1, FS_Interval, FS_Subset
  <2>4. slots = Happened(moments, "slot", m)
    BY <2>2, <2>3, <1>4, <1>5, <1>7, FS_Subset
  <2>5. stored \subseteq 0 .. d.asOf
    BY <1>3
  <2>6. Max(stored) \in stored /\ m <= Max(stored)
    BY <2>1, <2>5, <1>3, MaxPicked
  <2>7. ASSUME NEW t \in 1 .. d.asOf, moments[t] = "slot" PROVE t < Max(stored)
    <3>1. t \in 1 .. m
      BY <2>4, <2>7 DEF Happened
    <3>2. t # m
      BY <2>1, <2>7
    <3>3. Max(stored) \in Int /\ m \in Int
      BY <2>1, <2>6, <1>3
    <3> QED BY <3>1, <3>2, <3>3, <2>6
  <2> QED BY <2>1, <2>7
<1> QED BY <1>4, <1>6, <1>7 DEF d

\* Whatever happens to the vault and whichever button is pressed while requests are under
\* way: a panel at rest shows what it last asked for, the chart's curve begins and ends with
\* the range's first and last snapshot, and no warning means that the chain holds a value
\* for every slot (history.service.ts, context.service.ts, and the panels' load and fetchContext).
THEOREM PanelsTellTheTruth == PanelsSpec => []PanelsTellTruth
<1>1. PanelsInit => PanelsInv
  BY PanelsStart
<1>2. PanelsInv /\ [PanelsNext]_panelVars => PanelsInv'
  BY PanelsSteps
<1>3. PanelsInv => PanelsTellTruth
  BY RestShown, RangeShown, WarningShown DEF PanelsTellTruth
<1> QED
  BY <1>1, <1>2, <1>3, PTL DEF PanelsSpec
=============================================================================
