------------------------- MODULE FeeRegistryProofs -------------------------
(***************************************************************************)
(* FeeRegistry.sol keeps enough tokens for everything it owes, for any     *)
(* finite set of accounts, any tokens and any amounts.  First what the     *)
(* ledger operators do to the registry's books: the sum of the deposits is *)
(* a cardinality, so every fact about it comes from facts about finite     *)
(* sets.                                                                   *)
(***************************************************************************)
EXTENDS FeeRegistry, FiniteSetTheorems, TLAPS

\* The units of a balance function over the accounts form a finite set.
LEMMA UnitsFinite ==
    ASSUME NEW f \in [Account -> Nat]
    PROVE  /\ IsFiniteSet(Units(f))
           /\ Total(f) \in Nat
<1> DEFINE Pile(a) == {a} \X (1 .. f[a])
           Piles == {Pile(a) : a \in Account}
           g == [a \in Account |-> Pile(a)]
<1>1. g \in Surjection(Account, Piles)
  BY DEF Surjection
<1>2. IsFiniteSet(Piles)
  <2> HIDE DEF g, Piles
  <2> QED BY <1>1, FS_Surjection, FeeLedgerAssumption
<1>3. ASSUME NEW T \in Piles PROVE IsFiniteSet(T)
  <2>1. PICK a \in Account : T = {a} \X (1 .. f[a])
    BY <1>3
  <2>2. IsFiniteSet({a})
    BY FS_Singleton
  <2>3. IsFiniteSet(1 .. f[a])
    <3>1. 1 \in Int /\ f[a] \in Int
      OBVIOUS
    <3> QED BY <3>1, FS_Interval
  <2> QED BY <2>1, <2>2, <2>3, FS_Product
<1>4. IsFiniteSet(UNION Piles)
  <2> HIDE DEF Piles
  <2> QED BY <1>2, <1>3, FS_UNION
<1>5. Units(f) = UNION Piles
  BY DEF Units
<1>6. IsFiniteSet(Units(f))
  BY <1>4, <1>5
<1> QED BY <1>6, FS_CardinalityType DEF Total

\* Crediting one account adds the amount to the total.
LEMMA TotalCredit ==
    ASSUME NEW f \in [Account -> Nat], NEW a \in Account, NEW k \in Nat
    PROVE  Total([f EXCEPT ![a] = @ + k]) = Total(f) + k
<1> DEFINE g == [f EXCEPT ![a] = @ + k]
           New == {a} \X ((f[a] + 1) .. (f[a] + k))
<1>1. g \in [Account -> Nat] /\ g[a] = f[a] + k /\ \A b \in Account \ {a} : g[b] = f[b]
  OBVIOUS
<1>2. Units(g) = Units(f) \cup New
  <2> HIDE DEF g
  <2>1. ASSUME NEW u \in Units(g) PROVE u \in Units(f) \cup New
    <3>1. PICK b \in Account : u \in {b} \X (1 .. g[b])
      BY <1>1 DEF Units
    <3>2. PICK n \in 1 .. g[b] : u = <<b, n>>
      BY <3>1
    <3>3. CASE n \in 1 .. f[b]
      BY <3>2, <3>3 DEF Units
    <3>4. CASE n \notin 1 .. f[b]
      <4>1. b = a /\ n \in (f[a] + 1) .. (f[a] + k)
        BY <1>1, <3>2, <3>4
      <4> QED BY <3>2, <4>1
    <3> QED BY <3>3, <3>4
  <2>2. ASSUME NEW u \in Units(f) PROVE u \in Units(g)
    <3>1. PICK b \in Account : u \in {b} \X (1 .. f[b])
      BY DEF Units
    <3>2. 1 .. f[b] \subseteq 1 .. g[b]
      BY <1>1
    <3>3. u \in {b} \X (1 .. g[b])
      BY <3>1, <3>2
    <3> QED BY <3>3, <1>1 DEF Units
  <2>3. ASSUME NEW u \in New PROVE u \in Units(g)
    <3>1. (f[a] + 1) .. (f[a] + k) \subseteq 1 .. g[a]
      BY <1>1
    <3>2. u \in {a} \X (1 .. g[a])
      BY <3>1
    <3> QED BY <3>2, <1>1 DEF Units
  <2> QED BY <2>1, <2>2, <2>3
<1>3. Units(f) \cap New = {}
  <2> SUFFICES ASSUME NEW u \in Units(f), u \in New PROVE FALSE
    OBVIOUS
  <2>1. PICK b \in Account : u \in {b} \X (1 .. f[b])
    BY DEF Units
  <2>2. PICK n \in 1 .. f[b] : u = <<b, n>>
    BY <2>1
  <2>3. b = a /\ n \in (f[a] + 1) .. (f[a] + k)
    BY <2>2
  <2> QED BY <2>2, <2>3
<1>4. IsFiniteSet(New) /\ Cardinality(New) = k
  <2>1. f[a] + 1 \in Int /\ f[a] + k \in Int
    OBVIOUS
  <2>2. /\ IsFiniteSet((f[a] + 1) .. (f[a] + k))
        /\ Cardinality((f[a] + 1) .. (f[a] + k)) = k
    <3>1. ASSUME NEW lo \in Int, NEW hi \in Int
          PROVE  /\ IsFiniteSet(lo .. hi)
                 /\ Cardinality(lo .. hi) = IF lo > hi THEN 0 ELSE hi - lo + 1
      BY FS_Interval
    <3>2. /\ IsFiniteSet((f[a] + 1) .. (f[a] + k))
          /\ Cardinality((f[a] + 1) .. (f[a] + k))
                = IF f[a] + 1 > f[a] + k THEN 0 ELSE (f[a] + k) - (f[a] + 1) + 1
      BY <2>1, <3>1, Zenon
    <3>3. (IF f[a] + 1 > f[a] + k THEN 0 ELSE (f[a] + k) - (f[a] + 1) + 1) = k
      OBVIOUS
    <3> QED BY <3>2, <3>3
  <2>3. IsFiniteSet({a}) /\ Cardinality({a}) = 1
    BY FS_Singleton
  <2>4. /\ IsFiniteSet(New)
        /\ Cardinality(New) = 1 * k
    <3>1. ASSUME NEW S, NEW T, IsFiniteSet(S), IsFiniteSet(T)
          PROVE  /\ IsFiniteSet(S \X T)
                 /\ Cardinality(S \X T) = Cardinality(S) * Cardinality(T)
      BY <3>1, FS_Product
    <3>2. PICK T : T = (f[a] + 1) .. (f[a] + k)
      OBVIOUS
    <3>3. IsFiniteSet(T) /\ Cardinality(T) = k
      BY <2>2, <3>2, Zenon
    <3>4. /\ IsFiniteSet({a} \X T)
          /\ Cardinality({a} \X T) = Cardinality({a}) * Cardinality(T)
      BY <2>3, <3>1, <3>3, Zenon
    <3> QED BY <2>3, <3>2, <3>3, <3>4, Zenon
  <2>5. 1 * k = k
    OBVIOUS
  <2> QED BY <2>4, <2>5
<1>5. IsFiniteSet(Units(f)) /\ Cardinality(Units(f)) \in Nat
  BY UnitsFinite DEF Total
<1>6. Cardinality(Units(f) \cup New)
        = Cardinality(Units(f)) + Cardinality(New) - Cardinality(Units(f) \cap New)
  <2> HIDE DEF New
  <2> QED BY <1>4, <1>5, FS_Union
<1>7. Cardinality(Units(f) \cap New) = 0
  BY <1>3, FS_EmptySet
<1> HIDE DEF New, g
<1>8. Cardinality(Units(g)) = Cardinality(Units(f)) + k
  BY <1>2, <1>4, <1>5, <1>6, <1>7
<1> QED BY <1>8 DEF g, Total

\* Debiting one account takes the amount off the total.
LEMMA TotalDebit ==
    ASSUME NEW f \in [Account -> Nat], NEW a \in Account, NEW k \in Nat, k <= f[a]
    PROVE  Total([f EXCEPT ![a] = @ - k]) + k = Total(f)
<1> DEFINE g == [f EXCEPT ![a] = @ - k]
<1>1. g \in [Account -> Nat]
  OBVIOUS
<1>2. [g EXCEPT ![a] = @ + k] = f
  <2>1. g[a] + k = f[a]
    OBVIOUS
  <2>2. \A b \in Account : [g EXCEPT ![a] = @ + k][b] = f[b]
    BY <2>1
  <2>3. [g EXCEPT ![a] = @ + k] \in [Account -> Nat]
    BY <1>1
  <2> HIDE DEF g
  <2> QED BY <2>2, <2>3
<1>3. Total([g EXCEPT ![a] = @ + k]) = Total(g) + k
  <2> HIDE DEF g
  <2> QED BY <1>1, TotalCredit
<1> QED BY <1>2, <1>3

-----------------------------------------------------------------------------
(* The calls, one lemma each: the result is a ledger, and the surplus of   *)
(* the registry does not shrink.                                           *)

\* What the books promise of a token is a number.
LEMMA BookedNat ==
    ASSUME NEW m \in Ledger, NEW t \in Token
    PROVE  Booked(m, t) \in Nat
<1>1. m.dep[t] \in [Account -> Nat] /\ m.fees[t] \in Nat
  BY DEF Ledger
<1> QED BY <1>1, UnitsFinite DEF Booked

\* A surplus that does not shrink keeps the registry solvent.
LEMMA SolventKept ==
    ASSUME NEW m \in Ledger, NEW n \in Ledger, Solvent(m), KeepsSurplus(m, n)
    PROVE  Solvent(n)
<1> SUFFICES ASSUME NEW t \in Token PROVE Booked(n, t) <= n.bal[t][Registry]
  BY DEF Solvent
<1>1. Booked(m, t) \in Nat /\ Booked(n, t) \in Nat
  BY BookedNat
<1>2. m.bal[t][Registry] \in Nat /\ n.bal[t][Registry] \in Nat
  BY FeeLedgerAssumption DEF Ledger
<1>3. Booked(m, t) <= m.bal[t][Registry]
  BY DEF Solvent
<1>4. m.bal[t][Registry] + Booked(n, t) <= n.bal[t][Registry] + Booked(m, t)
  BY DEF KeepsSurplus
<1> QED BY <1>1, <1>2, <1>3, <1>4

\* What a token transfer changes.
LEMMA TransferFacts ==
    ASSUME NEW m \in Ledger, NEW t \in Token, NEW from \in Account, NEW to \in Account,
           NEW amount \in Nat, CanPay(m, t, from, amount)
    PROVE  LET n == Transfer(m, t, from, to, amount)
           IN  /\ n \in Ledger
               /\ n.dep = m.dep
               /\ n.fees = m.fees
               /\ \A u \in Token \ {t} : n.bal[u] = m.bal[u]
               /\ from # Registry /\ to # Registry => n.bal[t][Registry] = m.bal[t][Registry]
               /\ from # Registry /\ to = Registry =>
                      n.bal[t][Registry] = m.bal[t][Registry] + amount
               /\ from = Registry => n.bal[t][Registry] + amount >= m.bal[t][Registry]
<1> DEFINE paid == [m.bal[t] EXCEPT ![from] = @ - amount]
           got  == [paid EXCEPT ![to] = @ + amount]
           n    == Transfer(m, t, from, to, amount)
<1>1. m.bal[t] \in [Account -> Nat] /\ amount <= m.bal[t][from]
  BY DEF Ledger, CanPay
<1>2. paid \in [Account -> Nat] /\ paid[from] + amount = m.bal[t][from]
        /\ \A a \in Account \ {from} : paid[a] = m.bal[t][a]
  BY <1>1
<1>3. got \in [Account -> Nat] /\ got[to] = paid[to] + amount
        /\ \A a \in Account \ {to} : got[a] = paid[a]
  <2> HIDE DEF paid
  <2> QED BY <1>2
<1>4. n = [m EXCEPT !.bal[t] = got]
  BY DEF Transfer
<1> HIDE DEF paid, got, n
<1>5. n \in Ledger /\ n.dep = m.dep /\ n.fees = m.fees /\ n.bal[t] = got
        /\ \A u \in Token \ {t} : n.bal[u] = m.bal[u]
  BY <1>3, <1>4 DEF Ledger
<1>6. from # Registry /\ to # Registry => n.bal[t][Registry] = m.bal[t][Registry]
  BY <1>2, <1>3, <1>5, FeeLedgerAssumption
<1>7. from # Registry /\ to = Registry => n.bal[t][Registry] = m.bal[t][Registry] + amount
  BY <1>2, <1>3, <1>5, FeeLedgerAssumption
<1>8. from = Registry => n.bal[t][Registry] + amount >= m.bal[t][Registry]
  BY <1>1, <1>2, <1>3, <1>5, FeeLedgerAssumption
<1> QED BY <1>5, <1>6, <1>7, <1>8 DEF n

\* Setting one deposit, or one token's fees, changes nothing else.
LEMMA SetDeposit ==
    ASSUME NEW m \in Ledger, NEW t \in Token, NEW v \in Account, NEW x \in Nat
    PROVE  LET n == [m EXCEPT !.dep[t][v] = x]
           IN  /\ n \in Ledger /\ n.bal = m.bal /\ n.fees = m.fees
               /\ n.dep[t] = [m.dep[t] EXCEPT ![v] = x]
               /\ \A u \in Token \ {t} : n.dep[u] = m.dep[u]
<1> DEFINE g == [m.dep[t] EXCEPT ![v] = x]
           d == [m.dep EXCEPT ![t] = g]
           n == [m EXCEPT !.dep = d]
<1>1. n = [m EXCEPT !.dep[t][v] = x]
  OBVIOUS
<1>2. g \in [Account -> Nat] /\ m.dep \in [Token -> [Account -> Nat]]
  BY DEF Ledger
<1> HIDE DEF g
<1>3. /\ d \in [Token -> [Account -> Nat]] /\ d[t] = g
      /\ \A u \in Token \ {t} : d[u] = m.dep[u]
  BY <1>2
<1> HIDE DEF d
<1>4. n \in Ledger /\ n.bal = m.bal /\ n.fees = m.fees /\ n.dep = d
  BY <1>3 DEF Ledger
<1> HIDE DEF n
<1>5. /\ n \in Ledger /\ n.bal = m.bal /\ n.fees = m.fees
      /\ n.dep[t] = [m.dep[t] EXCEPT ![v] = x]
      /\ \A u \in Token \ {t} : n.dep[u] = m.dep[u]
  BY <1>3, <1>4 DEF g
<1> QED BY <1>1, <1>5

\* The collected fees of one token are set.
LEMMA SetFees ==
    ASSUME NEW m \in Ledger, NEW t \in Token, NEW x \in Nat
    PROVE  LET n == [m EXCEPT !.fees[t] = x]
           IN  /\ n \in Ledger /\ n.bal = m.bal /\ n.dep = m.dep
               /\ n.fees[t] = x
               /\ \A u \in Token \ {t} : n.fees[u] = m.fees[u]
<1> DEFINE g == [m.fees EXCEPT ![t] = x]
           n == [m EXCEPT !.fees = g]
<1>1. n = [m EXCEPT !.fees[t] = x]
  OBVIOUS
<1>2. g \in [Token -> Nat] /\ g[t] = x /\ \A u \in Token \ {t} : g[u] = m.fees[u]
  BY DEF Ledger
<1> HIDE DEF g
<1>3. n \in Ledger /\ n.bal = m.bal /\ n.dep = m.dep /\ n.fees = g
  BY <1>2 DEF Ledger
<1> QED BY <1>1, <1>2, <1>3

\* A transfer by anyone but the registry, to the registry or to others.
LEMMA TransferKeeps ==
    ASSUME NEW m \in Ledger, NEW t \in Token, NEW from \in Account \ {Registry},
           NEW to \in Account, NEW amount \in Nat, CanPay(m, t, from, amount)
    PROVE  LET n == Transfer(m, t, from, to, amount)
           IN  n \in Ledger /\ KeepsSurplus(m, n)
<1> DEFINE n == Transfer(m, t, from, to, amount)
<1>1. /\ n \in Ledger /\ n.dep = m.dep /\ n.fees = m.fees
      /\ \A u \in Token \ {t} : n.bal[u] = m.bal[u]
      /\ n.bal[t][Registry] \in {m.bal[t][Registry], m.bal[t][Registry] + amount}
  BY TransferFacts
<1> HIDE DEF n
<1>2. ASSUME NEW u \in Token
      PROVE  m.bal[u][Registry] + Booked(n, u) <= n.bal[u][Registry] + Booked(m, u)
  <2>1. Booked(n, u) = Booked(m, u) /\ Booked(m, u) \in Nat
    BY <1>1, BookedNat DEF Booked
  <2>2. m.bal[u][Registry] \in Nat /\ n.bal[u][Registry] \in Nat
    BY <1>1, FeeLedgerAssumption DEF Ledger
  <2>3. n.bal[u][Registry] >= m.bal[u][Registry]
    BY <1>1, <2>2
  <2> QED BY <2>1, <2>2, <2>3
<1> QED BY <1>1, <1>2 DEF n, KeepsSurplus

\* collectFee: what comes in is booked as fees.
LEMMA CollectFeeKeeps ==
    ASSUME NEW m \in Ledger, NEW t \in Token, NEW caller \in Account \ {Registry},
           NEW amount \in Nat, CanCollectFee(m, t, caller, amount)
    PROVE  LET n == CollectFee(m, t, caller, amount)
           IN  n \in Ledger /\ KeepsSurplus(m, n)
<1>1. CASE amount = 0
  <2>1. CollectFee(m, t, caller, amount) = m
    BY <1>1 DEF CollectFee
  <2>2. \A u \in Token : m.bal[u][Registry] \in Nat /\ Booked(m, u) \in Nat
    BY BookedNat, FeeLedgerAssumption DEF Ledger
  <2>3. KeepsSurplus(m, m)
    BY <2>2 DEF KeepsSurplus
  <2> QED BY <2>1, <2>3
<1>2. CASE amount # 0
  <2> DEFINE p == Transfer(m, t, caller, Registry, amount)
             n == [p EXCEPT !.fees[t] = @ + amount]
  <2>1. CanPay(m, t, caller, amount)
    BY <1>2 DEF CanCollectFee
  <2>2. /\ p \in Ledger /\ p.dep = m.dep /\ p.fees = m.fees
        /\ \A u \in Token \ {t} : p.bal[u] = m.bal[u]
        /\ p.bal[t][Registry] = m.bal[t][Registry] + amount
    BY <2>1, TransferFacts, FeeLedgerAssumption
  <2> HIDE DEF p
  <2>3. /\ n \in Ledger /\ n.bal = p.bal /\ n.dep = m.dep
        /\ n.fees[t] = m.fees[t] + amount
        /\ \A u \in Token \ {t} : n.fees[u] = m.fees[u]
    <3>1. p.fees[t] + amount \in Nat
      BY <2>2 DEF Ledger
    <3> QED BY <2>2, <3>1, SetFees
  <2>4. n = CollectFee(m, t, caller, amount)
    BY <1>2 DEF CollectFee, p
  <2> HIDE DEF n
  <2>5. ASSUME NEW u \in Token
        PROVE  m.bal[u][Registry] + Booked(n, u) <= n.bal[u][Registry] + Booked(m, u)
    <3>1. /\ Total(m.dep[u]) \in Nat /\ m.fees[u] \in Nat
          /\ m.bal[u][Registry] \in Nat /\ n.bal[u][Registry] \in Nat
      BY <2>3, UnitsFinite, FeeLedgerAssumption DEF Ledger
    <3>2. CASE u = t
      <4>1. n.bal[t][Registry] = m.bal[t][Registry] + amount
        BY <2>2, <2>3
      <4>2. Booked(n, t) = Total(m.dep[t]) + (m.fees[t] + amount)
        BY <2>3 DEF Booked
      <4>3. Booked(m, t) = Total(m.dep[t]) + m.fees[t]
        BY DEF Booked
      <4> QED BY <3>1, <3>2, <4>1, <4>2, <4>3
    <3>3. CASE u # t
      <4>1. Booked(n, u) = Booked(m, u) /\ n.bal[u] = m.bal[u]
        BY <2>2, <2>3, <3>3 DEF Booked
      <4>2. Booked(m, u) \in Nat
        BY BookedNat
      <4> QED BY <3>1, <4>1, <4>2
    <3> QED BY <3>2, <3>3
  <2> QED BY <2>3, <2>4, <2>5 DEF KeepsSurplus
<1> QED BY <1>1, <1>2

\* depositFor: what comes in is booked as the vault's deposit.
LEMMA DepositForKeeps ==
    ASSUME NEW m \in Ledger, NEW t \in Token, NEW caller \in Account \ {Registry},
           NEW vault \in Account, NEW amount \in Nat, CanPay(m, t, caller, amount)
    PROVE  LET n == DepositFor(m, t, caller, vault, amount)
           IN  n \in Ledger /\ KeepsSurplus(m, n)
<1> DEFINE p == Transfer(m, t, caller, Registry, amount)
           n == [p EXCEPT !.dep[t][vault] = @ + amount]
<1>1. /\ p \in Ledger /\ p.dep = m.dep /\ p.fees = m.fees
      /\ \A u \in Token \ {t} : p.bal[u] = m.bal[u]
      /\ p.bal[t][Registry] = m.bal[t][Registry] + amount
  BY TransferFacts, FeeLedgerAssumption
<1>2. n = DepositFor(m, t, caller, vault, amount)
  BY DEF DepositFor
<1> HIDE DEF p
<1>3. /\ n \in Ledger /\ n.bal = p.bal /\ n.fees = m.fees
      /\ n.dep[t] = [m.dep[t] EXCEPT ![vault] = @ + amount]
      /\ \A u \in Token \ {t} : n.dep[u] = m.dep[u]
  <2>1. p.dep[t][vault] + amount \in Nat
    BY <1>1 DEF Ledger
  <2> QED BY <1>1, <2>1, SetDeposit
<1> HIDE DEF n
<1>4. Total(n.dep[t]) = Total(m.dep[t]) + amount
  <2>1. m.dep[t] \in [Account -> Nat]
    BY DEF Ledger
  <2> QED BY <1>3, <2>1, TotalCredit
<1>5. ASSUME NEW u \in Token
      PROVE  m.bal[u][Registry] + Booked(n, u) <= n.bal[u][Registry] + Booked(m, u)
  <2>1. /\ Total(m.dep[u]) \in Nat /\ m.fees[u] \in Nat
        /\ m.bal[u][Registry] \in Nat /\ n.bal[u][Registry] \in Nat
    BY <1>3, UnitsFinite, FeeLedgerAssumption DEF Ledger
  <2>2. CASE u = t
    BY <1>1, <1>3, <1>4, <2>1, <2>2 DEF Booked
  <2>3. CASE u # t
    <3>1. Booked(n, u) = Booked(m, u) /\ n.bal[u] = m.bal[u]
      BY <1>1, <1>3, <2>3 DEF Booked
    <3>2. Booked(m, u) \in Nat
      BY BookedNat
    <3> QED BY <2>1, <3>1, <3>2
  <2> QED BY <2>2, <2>3
<1> QED BY <1>2, <1>3, <1>5 DEF KeepsSurplus

\* withdrawDeposit and deductGasComp: what goes out is taken off the deposit.
LEMMA PayFromDepositKeeps ==
    ASSUME NEW m \in Ledger, NEW t \in Token, NEW vault \in Account, NEW to \in Account,
           NEW amount \in Nat, amount <= m.dep[t][vault],
           CanPay(m, t, Registry, amount)
    PROVE  LET n == PayFromDeposit(m, t, vault, to, amount)
           IN  n \in Ledger /\ KeepsSurplus(m, n)
<1> DEFINE p == [m EXCEPT !.dep[t][vault] = @ - amount]
           n == Transfer(p, t, Registry, to, amount)
<1>0. n = PayFromDeposit(m, t, vault, to, amount)
  BY DEF PayFromDeposit
<1>1. /\ p \in Ledger /\ p.bal = m.bal /\ p.fees = m.fees
      /\ p.dep[t] = [m.dep[t] EXCEPT ![vault] = @ - amount]
      /\ \A u \in Token \ {t} : p.dep[u] = m.dep[u]
  <2>1. m.dep[t][vault] - amount \in Nat
    BY DEF Ledger
  <2> QED BY <2>1, SetDeposit
<1>2. CanPay(p, t, Registry, amount)
  BY <1>1 DEF CanPay
<1> HIDE DEF p
<1>3. /\ n \in Ledger /\ n.dep = p.dep /\ n.fees = m.fees
      /\ \A u \in Token \ {t} : n.bal[u] = m.bal[u]
      /\ n.bal[t][Registry] + amount >= m.bal[t][Registry]
  BY <1>1, <1>2, TransferFacts, FeeLedgerAssumption
<1> HIDE DEF n
<1>4. Total(n.dep[t]) + amount = Total(m.dep[t])
  <2>1. m.dep[t] \in [Account -> Nat]
    BY DEF Ledger
  <2> QED BY <1>1, <1>3, <2>1, TotalDebit
<1>5. ASSUME NEW u \in Token
      PROVE  m.bal[u][Registry] + Booked(n, u) <= n.bal[u][Registry] + Booked(m, u)
  <2>1. /\ Total(n.dep[u]) \in Nat /\ m.fees[u] \in Nat
        /\ m.bal[u][Registry] \in Nat /\ n.bal[u][Registry] \in Nat
    BY <1>3, UnitsFinite, FeeLedgerAssumption DEF Ledger
  <2>2. CASE u = t
    BY <1>1, <1>3, <1>4, <2>1, <2>2 DEF Booked
  <2>3. CASE u # t
    <3>1. Booked(n, u) = Booked(m, u) /\ n.bal[u] = m.bal[u]
      BY <1>1, <1>3, <2>3 DEF Booked
    <3>2. Booked(m, u) \in Nat
      BY BookedNat
    <3> QED BY <2>1, <3>1, <3>2
  <2> QED BY <2>2, <2>3
<1> QED BY <1>0, <1>3, <1>5 DEF KeepsSurplus

\* withdrawFees: what goes out is taken off the collected fees.
LEMMA WithdrawFeesKeeps ==
    ASSUME NEW m \in Ledger, NEW t \in Token, NEW to \in Account,
           CanPay(m, t, Registry, m.fees[t])
    PROVE  LET n == WithdrawFees(m, t, to)
           IN  n \in Ledger /\ KeepsSurplus(m, n)
<1> DEFINE p == [m EXCEPT !.fees[t] = 0]
           n == Transfer(p, t, Registry, to, m.fees[t])
<1>0. n = WithdrawFees(m, t, to)
  BY DEF WithdrawFees
<1>1. /\ p \in Ledger /\ p.bal = m.bal /\ p.dep = m.dep /\ p.fees[t] = 0
      /\ \A u \in Token \ {t} : p.fees[u] = m.fees[u]
  BY DEF Ledger
<1>2. CanPay(p, t, Registry, m.fees[t]) /\ m.fees[t] \in Nat
  BY <1>1 DEF CanPay, Ledger
<1> HIDE DEF p
<1>3. /\ n \in Ledger /\ n.dep = m.dep /\ n.fees = p.fees
      /\ \A u \in Token \ {t} : n.bal[u] = m.bal[u]
      /\ n.bal[t][Registry] + m.fees[t] >= m.bal[t][Registry]
  BY <1>1, <1>2, TransferFacts, FeeLedgerAssumption
<1> HIDE DEF n
<1>4. ASSUME NEW u \in Token
      PROVE  m.bal[u][Registry] + Booked(n, u) <= n.bal[u][Registry] + Booked(m, u)
  <2>1. /\ Total(m.dep[u]) \in Nat /\ m.fees[u] \in Nat
        /\ m.bal[u][Registry] \in Nat /\ n.bal[u][Registry] \in Nat
    BY <1>3, UnitsFinite, FeeLedgerAssumption DEF Ledger
  <2>2. CASE u = t
    BY <1>1, <1>3, <2>1, <2>2 DEF Booked
  <2>3. CASE u # t
    <3>1. Booked(n, u) = Booked(m, u) /\ n.bal[u] = m.bal[u]
      BY <1>1, <1>3, <2>3 DEF Booked
    <3>2. Booked(m, u) \in Nat
      BY BookedNat
    <3> QED BY <2>1, <3>1, <3>2
  <2> QED BY <2>2, <2>3
<1> QED BY <1>0, <1>3, <1>4 DEF KeepsSurplus

\* Rounding division of naturals stays in the naturals.
LEMMA DivNat ==
    ASSUME NEW a \in Nat, NEW b \in Nat \ {0}
    PROVE  a \div b \in Nat
OBVIOUS

\* Dollars converted to a fee token are a natural number of its units.
LEMMA TokenAmountNat ==
    ASSUME NEW tok \in TokenConfig, NEW feeUSD \in Nat, NEW tp \in Nat
    PROVE  FeeTokenAmount(tok, feeUSD, tp) \in Nat
<1>1. tok.unit \in Nat \ {0} /\ WAD \in Nat \ {0}
  BY FeeLedgerAssumption DEF TokenConfig
<1>2. feeUSD * tok.unit \in Nat
  BY <1>1
<1>3. tp > 0 => (feeUSD * tok.unit) \div tp \in Nat
  BY <1>2, DivNat
<1>4. feeUSD * (tok.unit \div WAD) \in Nat
  BY <1>1, DivNat
<1>5. tok.unit < WAD => WAD \div tok.unit \in Nat \ {0}
  BY <1>1
<1>6. tok.unit < WAD => feeUSD \div (WAD \div tok.unit) \in Nat
  BY <1>5, DivNat
<1> QED BY <1>1, <1>3, <1>4, <1>6 DEF FeeTokenAmount

\* So is an estimate at any gas price.
LEMMA EstimateNat ==
    ASSUME NEW cfg \in [oracle : BOOLEAN, markupBps : Nat,
                        overhead : Nat, maxGasPrice : Nat],
           NEW tok \in TokenConfig,
           NEW gas \in Nat, NEW price \in Nat, NEW np \in Nat, NEW tp \in Nat
    PROVE  EstimateWithPrice(cfg, tok, gas, price, np, tp) \in Nat
<1> DEFINE costUSD == (gas * price * np) \div WAD
           compUSD == costUSD + Fee(costUSD, cfg.markupBps)
<1>1. gas * price * np \in Nat
  OBVIOUS
<1>2. costUSD \in Nat
  BY <1>1, DivNat, FeeLedgerAssumption
<1> HIDE DEF costUSD
<1>3. Fee(costUSD, cfg.markupBps) \in Nat
  BY <1>2, DivNat, FeeLedgerAssumption DEF Fee
<1>4. compUSD \in Nat
  BY <1>2, <1>3
<1> HIDE DEF compUSD
<1>5. FeeTokenAmount(tok, compUSD, tp) \in Nat
  BY <1>4, TokenAmountNat
<1> QED BY <1>5 DEF EstimateWithPrice, compUSD, costUSD

\* The charge for an execution is a natural number.
LEMMA ChargeNat ==
    ASSUME NEW cfg \in [oracle : BOOLEAN, markupBps : Nat,
                        overhead : Nat, maxGasPrice : Nat],
           NEW tok \in TokenConfig,
           NEW g \in Nat, NEW gp \in Nat, NEW np \in Nat, NEW tp \in Nat
    PROVE  ComputeGasComp(cfg, tok, g, gp, np, tp) \in Nat
<1>1. g + cfg.overhead \in Nat /\ cfg.maxGasPrice \in Nat
  OBVIOUS
<1> QED BY <1>1, EstimateNat DEF ComputeGasComp

\* What a charge reads of the configuration.
LEMMA ConfigRead ==
    ASSUME RegistryTypeOK, NEW t \in Token
    PROVE  /\ gasConfig \in [oracle : BOOLEAN, markupBps : Nat, overhead : Nat, maxGasPrice : Nat]
           /\ tokens[t] \in TokenConfig
<1>1. NoGasConfig \in [oracle : BOOLEAN, markupBps : Nat, overhead : Nat, maxGasPrice : Nat]
  BY DEF NoGasConfig
<1>2. gasConfig \in GasConfig \cup {NoGasConfig} /\ tokens \in [Token -> TokenConfig]
  BY DEF RegistryTypeOK
<1> QED BY <1>1, <1>2, FeeRegistryAssumption

-----------------------------------------------------------------------------
\* Every step yields a well-formed ledger whose surplus is no smaller: the one
\* fact about RegistryNext from which the theorems follow.
LEMMA StepKeeps ==
    ASSUME RegistryTypeOK, [RegistryNext]_registryVars
    PROVE  ledger' \in Ledger /\ KeepsSurplus(ledger, ledger')
<1> USE FeeRegistryAssumption, FeeLedgerAssumption
<1>1. \A u \in Token : ledger.bal[u][Registry] \in Nat /\ Booked(ledger, u) \in Nat
  BY BookedNat DEF RegistryTypeOK, Ledger
<1>2. ledger' = ledger => ledger' \in Ledger /\ KeepsSurplus(ledger, ledger')
  BY <1>1 DEF RegistryTypeOK, KeepsSurplus
<1>3. CASE OwnerNext
  <2>1. CASE \E t \in Token : withdrawFees(t)
    <3>1. PICK t \in Token : withdrawFees(t)
      BY <2>1
    <3>2. owner \in Account
      BY <3>1 DEF withdrawFees, RegistryTypeOK, Caller
    <3> QED BY <3>1, <3>2, WithdrawFeesKeeps DEF withdrawFees, RegistryTypeOK
  <2> QED BY <1>2, <1>3, <2>1 DEF OwnerNext, addAcceptedToken, removeAcceptedToken,
             setDepositFeeBps, setWithdrawFeeBps, setGasConfig, transferOwnership
<1>4. CASE \E caller \in Caller : PublicCall(caller)
  <2>1. PICK caller \in Caller, t \in Token :
          \/ \E vault \in Account, amount \in Amount : depositFor(caller, vault, t, amount)
          \/ \E amount \in Amount : withdrawDeposit(caller, t, amount)
          \/ \E amount \in Amount : collectFee(caller, t, amount)
          \/ \E executor \in Account, gasUsed \in Gas, txGasPrice \in GasPrice,
                nativePrice \in Price, tokenPrice \in Price :
                 deductGasComp(caller, t, executor, gasUsed, txGasPrice, nativePrice, tokenPrice)
          \/ \E to \in Account, amount \in Amount : transfer(caller, to, t, amount)
    BY <1>4 DEF PublicCall
  <2>2. caller \in Account \ {Registry} /\ ledger \in Ledger /\ Amount \subseteq Nat
    BY DEF Caller, RegistryTypeOK
  <2>3. CASE \E vault \in Account, amount \in Amount : depositFor(caller, vault, t, amount)
    BY <2>2, <2>3, DepositForKeeps DEF depositFor
  <2>4. CASE \E amount \in Amount : withdrawDeposit(caller, t, amount)
    <3>1. PICK amount \in Amount : withdrawDeposit(caller, t, amount)
      BY <2>4
    <3> DEFINE w == IF amount = 0 THEN ledger.dep[t][caller] ELSE amount
    <3>2. w \in Nat
      BY <2>2 DEF Ledger
    <3>3. /\ w <= ledger.dep[t][caller] /\ CanPay(ledger, t, Registry, w)
          /\ ledger' = PayFromDeposit(ledger, t, caller, caller, w)
      BY <3>1 DEF withdrawDeposit
    <3> HIDE DEF w
    <3> QED BY <2>2, <3>2, <3>3, PayFromDepositKeeps
  <2>5. CASE \E amount \in Amount : collectFee(caller, t, amount)
    BY <2>2, <2>5, CollectFeeKeeps DEF collectFee
  <2>6. CASE \E executor \in Account, gasUsed \in Gas, txGasPrice \in GasPrice,
                nativePrice \in Price, tokenPrice \in Price :
                 deductGasComp(caller, t, executor, gasUsed, txGasPrice, nativePrice, tokenPrice)
    <3>1. PICK executor \in Account, gasUsed \in Gas, txGasPrice \in GasPrice,
               nativePrice \in Price, tokenPrice \in Price :
                 deductGasComp(caller, t, executor, gasUsed, txGasPrice, nativePrice, tokenPrice)
      BY <2>6
    <3> DEFINE comp == ComputeGasComp(gasConfig, tokens[t], gasUsed, txGasPrice,
                                      nativePrice, tokenPrice)
    <3>2. /\ gasConfig \in [oracle : BOOLEAN, markupBps : Nat, overhead : Nat, maxGasPrice : Nat]
          /\ tokens[t] \in TokenConfig
      BY ConfigRead
    <3>3. gasUsed \in Nat /\ txGasPrice \in Nat /\ nativePrice \in Nat /\ tokenPrice \in Nat
      OBVIOUS
    <3>4. comp \in Nat
      BY <3>2, <3>3, ChargeNat
    <3>5. /\ comp <= ledger.dep[t][caller] /\ CanPay(ledger, t, Registry, comp)
          /\ ledger' = PayFromDeposit(ledger, t, caller, executor, comp)
      BY <3>1 DEF deductGasComp
    <3> HIDE DEF comp
    <3> QED BY <2>2, <3>4, <3>5, PayFromDepositKeeps
  <2>7. CASE \E to \in Account, amount \in Amount : transfer(caller, to, t, amount)
    BY <2>2, <2>7, TransferKeeps DEF transfer
  <2> QED BY <2>1, <2>3, <2>4, <2>5, <2>6, <2>7
<1>5. CASE UNCHANGED registryVars
  BY <1>2, <1>5 DEF registryVars
<1> QED BY <1>3, <1>4, <1>5 DEF RegistryNext

\* The configuration keeps its type: in particular no fee rate exceeds
\* MAX_FEE_BPS.
LEMMA ConfigTyped ==
    ASSUME RegistryTypeOK, [RegistryNext]_registryVars
    PROVE  /\ tokens' \in [Token -> TokenConfig]
           /\ depositFeeBps' \in 0 .. MAX_FEE_BPS
           /\ withdrawFeeBps' \in 0 .. MAX_FEE_BPS
           /\ gasConfig' \in GasConfig \cup {NoGasConfig}
           /\ owner' \in Caller \cup {NoOwner}
<1> USE FeeRegistryAssumption DEF RegistryTypeOK
<1>1. CASE OwnerNext
  <2>1. ASSUME NEW t \in Token, NEW unit \in TokenUnit, addAcceptedToken(t, unit)
        PROVE  tokens' \in [Token -> TokenConfig]
    BY <2>1 DEF addAcceptedToken, TokenConfig
  <2>2. ASSUME NEW t \in Token, removeAcceptedToken(t)
        PROVE  tokens' \in [Token -> TokenConfig]
    BY <2>2 DEF removeAcceptedToken, TokenConfig
  <2> QED BY <1>1, <2>1, <2>2 DEF OwnerNext, addAcceptedToken, removeAcceptedToken,
             setDepositFeeBps, setWithdrawFeeBps, setGasConfig, transferOwnership,
             withdrawFees, configVars
<1>2. CASE \E caller \in Caller : PublicCall(caller)
  BY <1>2 DEF PublicCall, depositFor, withdrawDeposit, collectFee, deductGasComp,
              transfer, configVars
<1>3. CASE UNCHANGED registryVars
  BY <1>3 DEF registryVars
<1> QED BY <1>1, <1>2, <1>3 DEF RegistryNext

\* Every reachable state of the registry is well typed.
THEOREM RegistryTypeCorrect == RegistrySpec => []RegistryTypeOK
<1>1. RegistryInit => RegistryTypeOK
  BY FeeRegistryAssumption DEF RegistryInit, RegistryTypeOK, Ledger, TokenConfig, Caller
<1>2. RegistryTypeOK /\ [RegistryNext]_registryVars => RegistryTypeOK'
  BY StepKeeps, ConfigTyped DEF RegistryTypeOK
<1> QED BY <1>1, <1>2, PTL DEF RegistrySpec

\* The registry starts with empty books.
LEMMA NothingBooked == Total([a \in Account |-> 0]) = 0
<1>1. Units([a \in Account |-> 0]) = {}
  BY DEF Units
<1> QED BY <1>1, FS_EmptySet DEF Total

\* In every reachable state the registry holds at least the sum of all vault
\* deposits plus the collected fees, token by token.
THEOREM RegistryStaysSolvent == RegistrySpec => []RegistrySolvent
<1>1. RegistryInit => RegistrySolvent
  <2> SUFFICES ASSUME RegistryInit, NEW t \in Token
               PROVE  Booked(ledger, t) <= ledger.bal[t][Registry]
    BY DEF RegistrySolvent, Solvent
  <2>1. Booked(ledger, t) = 0 + 0
    BY NothingBooked DEF RegistryInit, Booked
  <2>2. ledger.bal[t][Registry] \in Nat
    BY FeeRegistryAssumption, FeeLedgerAssumption DEF RegistryInit
  <2> QED BY <2>1, <2>2
<1>2. RegistryTypeOK /\ RegistrySolvent /\ [RegistryNext]_registryVars => RegistrySolvent'
  <2> SUFFICES ASSUME RegistryTypeOK, Solvent(ledger), [RegistryNext]_registryVars PROVE Solvent(ledger')
    BY DEF RegistrySolvent
  <2>1. ledger \in Ledger /\ ledger' \in Ledger /\ KeepsSurplus(ledger, ledger')
    BY StepKeeps DEF RegistryTypeOK
  <2> QED BY <2>1, SolventKept
<1> QED BY <1>1, <1>2, RegistryTypeCorrect, PTL DEF RegistrySpec

\* No step of the registry pays out tokens that its books do not account for.
THEOREM RegistrySurplusNeverSpent == RegistrySpec => SurplusNeverSpent
<1>1. RegistryTypeOK /\ [RegistryNext]_registryVars => [KeepsSurplus(ledger, ledger')]_registryVars
  BY StepKeeps
<1> QED BY <1>1, RegistryTypeCorrect, PTL DEF RegistrySpec, SurplusNeverSpent

-----------------------------------------------------------------------------
(* Estimates.  The charge is the estimate at a gas price that may have been *)
(* capped, so it is enough that every stage of the conversion is monotone. *)

\* Multiplying by a natural number is monotone.
LEMMA TimesMonotone ==
    ASSUME NEW a \in Nat, NEW b \in Nat, NEW c \in Nat, a <= b
    PROVE  a * c <= b * c
<1>1. PICK d \in Nat : b = a + d
  <2>1. b - a \in Nat /\ b = a + (b - a)
    OBVIOUS
  <2> QED BY <2>1
<1>2. b * c = a * c + d * c
  BY <1>1
<1>3. a * c \in Nat /\ d * c \in Nat
  OBVIOUS
<1> QED BY <1>2, <1>3

\* So is Solidity's division.
LEMMA DivMonotone ==
    ASSUME NEW a \in Nat, NEW b \in Nat, NEW c \in Nat \ {0}, a <= b
    PROVE  a \div c <= b \div c
<1>1. PICK p \in Nat : p = a \div c
  BY DivNat
<1>2. PICK q \in Nat : q = b \div c
  BY DivNat
<1>3. c * p <= a /\ b < c * (q + 1)
  BY <1>1, <1>2
<1>4. c * p < c * (q + 1)
  <2>1. c * p \in Nat /\ c * (q + 1) \in Nat
    OBVIOUS
  <2> QED BY <1>3, <2>1
<1>5. ~(q + 1 <= p)
  <2> SUFFICES ASSUME q + 1 <= p PROVE FALSE
    OBVIOUS
  <2>1. (q + 1) * c <= p * c
    BY TimesMonotone
  <2>2. (q + 1) * c = c * (q + 1) /\ p * c = c * p
    OBVIOUS
  <2> QED BY <1>4, <2>1, <2>2
<1>6. p <= q
  BY <1>5
<1> QED BY <1>1, <1>2, <1>6

\* A higher cost in dollars is a higher amount of the fee token.
LEMMA TokenAmountMonotone ==
    ASSUME NEW tok \in TokenConfig, NEW tp \in Nat,
           NEW a \in Nat, NEW b \in Nat, a <= b
    PROVE  FeeTokenAmount(tok, a, tp) <= FeeTokenAmount(tok, b, tp)
<1>1. tok.unit \in Nat \ {0} /\ WAD \in Nat \ {0}
  BY FeeLedgerAssumption DEF TokenConfig
<1>2. CASE a = 0
  <2>1. FeeTokenAmount(tok, a, tp) = 0
    BY <1>2 DEF FeeTokenAmount
  <2>2. FeeTokenAmount(tok, b, tp) \in Nat
    BY TokenAmountNat
  <2> QED BY <2>1, <2>2
<1>3. CASE a # 0 /\ ~tok.enabled
  BY <1>3 DEF FeeTokenAmount
<1>4. CASE a # 0 /\ tok.enabled
  <2>1. b # 0
    BY <1>4
  <2>2. CASE tp > 0
    <3>1. a * tok.unit <= b * tok.unit /\ a * tok.unit \in Nat /\ b * tok.unit \in Nat
      BY <1>1, TimesMonotone
    <3>2. (a * tok.unit) \div tp <= (b * tok.unit) \div tp
      BY <2>2, <3>1, DivMonotone
    <3> QED BY <1>4, <2>1, <2>2, <3>2 DEF FeeTokenAmount
  <2>3. CASE ~(tp > 0) /\ tok.unit >= WAD
    <3>1. tok.unit \div WAD \in Nat
      BY <1>1, DivNat
    <3>2. a * (tok.unit \div WAD) <= b * (tok.unit \div WAD)
      BY <3>1, TimesMonotone
    <3> QED BY <1>4, <2>1, <2>3, <3>2 DEF FeeTokenAmount
  <2>4. CASE ~(tp > 0) /\ ~(tok.unit >= WAD)
    <3>1. WAD \div tok.unit \in Nat \ {0}
      BY <1>1, <2>4
    <3>2. a \div (WAD \div tok.unit) <= b \div (WAD \div tok.unit)
      BY <3>1, DivMonotone
    <3> QED BY <1>4, <2>1, <2>4, <3>2 DEF FeeTokenAmount
  <2> QED BY <2>2, <2>3, <2>4
<1> QED BY <1>2, <1>3, <1>4

\* A higher gas price is a higher charge.
LEMMA EstimateMonotone ==
    ASSUME NEW cfg \in [oracle : BOOLEAN, markupBps : Nat,
                        overhead : Nat, maxGasPrice : Nat],
           NEW tok \in TokenConfig, NEW gas \in Nat, NEW np \in Nat, NEW tp \in Nat,
           NEW low \in Nat, NEW high \in Nat, low <= high
    PROVE  EstimateWithPrice(cfg, tok, gas, low, np, tp)
               <= EstimateWithPrice(cfg, tok, gas, high, np, tp)
<1> USE FeeLedgerAssumption
<1>1. CASE low = 0
  <2>1. EstimateWithPrice(cfg, tok, gas, low, np, tp) = 0
    BY <1>1 DEF EstimateWithPrice
  <2>2. EstimateWithPrice(cfg, tok, gas, high, np, tp) \in Nat
    BY EstimateNat
  <2> QED BY <2>1, <2>2
<1>2. CASE low # 0
  <2>1. /\ gas * low \in Nat /\ gas * high \in Nat
        /\ gas * low * np \in Nat /\ gas * high * np \in Nat
    OBVIOUS
  <2>2. gas * low <= gas * high
    BY TimesMonotone
  <2>3. gas * low * np <= gas * high * np
    BY <2>1, <2>2, TimesMonotone
  <2>4. PICK a \in Nat : a = (gas * low * np) \div WAD
    BY <2>1, DivNat
  <2>5. PICK b \in Nat : b = (gas * high * np) \div WAD
    BY <2>1, DivNat
  <2>6. a <= b
    BY <2>1, <2>3, <2>4, <2>5, DivMonotone
  <2>7. PICK x \in Nat : x = Fee(a, cfg.markupBps)
    BY DivNat DEF Fee
  <2>8. PICK y \in Nat : y = Fee(b, cfg.markupBps)
    BY DivNat DEF Fee
  <2>9. x <= y
    <3>1. /\ a * cfg.markupBps <= b * cfg.markupBps
          /\ a * cfg.markupBps \in Nat /\ b * cfg.markupBps \in Nat
      BY <2>6, TimesMonotone
    <3> QED BY <2>7, <2>8, <3>1, DivMonotone DEF Fee
  <2>10. FeeTokenAmount(tok, a + x, tp) <= FeeTokenAmount(tok, b + y, tp)
    BY <2>6, <2>9, TokenAmountMonotone
  <2>11. high # 0
    BY <1>2
  <2>12. /\ EstimateWithPrice(cfg, tok, gas, low, np, tp) = FeeTokenAmount(tok, a + x, tp)
         /\ EstimateWithPrice(cfg, tok, gas, high, np, tp) = FeeTokenAmount(tok, b + y, tp)
    BY <1>2, <2>4, <2>5, <2>7, <2>8, <2>11 DEF EstimateWithPrice
  <2> QED BY <2>10, <2>12
<1> QED BY <1>1, <1>2

\* No execution is charged more than estimateGasComp announces for the same
\* gas, gas price and oracle answers, whatever cap, markup and decimals the
\* owner configured: a deposit sized by the estimate is enough.
THEOREM EstimatesCoverCharges == RegistrySpec => []EstimateCoversCharge
<1>1. RegistryTypeOK => EstimateCoversCharge
  <2> SUFFICES ASSUME RegistryTypeOK, NEW t \in Token, NEW g \in Gas, NEW gp \in GasPrice,
                      NEW np \in Price, NEW tp \in Price
               PROVE  ComputeGasComp(gasConfig, tokens[t], g, gp, np, tp)
                          <= EstimateGasComp(gasConfig, tokens[t], g, gp, np, tp)
    BY DEF EstimateCoversCharge
  <2>1. g \in Nat /\ gp \in Nat /\ np \in Nat /\ tp \in Nat
    BY FeeRegistryAssumption
  <2>2. /\ gasConfig \in [oracle : BOOLEAN, markupBps : Nat, overhead : Nat, maxGasPrice : Nat]
        /\ tokens[t] \in TokenConfig
    BY ConfigRead
  <2>3. PICK capped \in Nat :
            /\ capped <= gp
            /\ capped = IF gasConfig.maxGasPrice > 0 /\ gp > gasConfig.maxGasPrice
                        THEN gasConfig.maxGasPrice ELSE gp
    BY <2>1, <2>2
  <2>4. g + gasConfig.overhead \in Nat
    BY <2>1, <2>2
  <2>5. EstimateWithPrice(gasConfig, tokens[t], g + gasConfig.overhead, capped, np, tp)
            <= EstimateWithPrice(gasConfig, tokens[t], g + gasConfig.overhead, gp, np, tp)
    BY <2>1, <2>2, <2>3, <2>4, EstimateMonotone
  <2> QED BY <2>3, <2>5 DEF ComputeGasComp, EstimateGasComp
<1> QED BY <1>1, RegistryTypeCorrect, PTL
=============================================================================
