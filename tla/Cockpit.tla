------------------------------ MODULE Cockpit ------------------------------
(***************************************************************************)
(* What a vault is worth and what it has earned.  A valuation reads the     *)
(* protocol positions, the idle tokens and the gas reserve one after the    *)
(* other, through caches of different ages, while the vault moves on; the   *)
(* hourly loop stores valuations as snapshots, from which, together with    *)
(* the indexed deposits and withdrawals, the profit of a range is computed. *)
(*                                                                         *)
(* Amounts are dollars, the clock counts the loop's intervals.  The caches  *)
(* live for seconds: an entry may be gone at any moment, and is gone when   *)
(* the clock moves.                                                         *)
(***************************************************************************)
EXTENDS Integers, Sequences, FiniteSetsExt

CONSTANTS
    Gross,       \* amounts an owner deposits or withdraws
    RangeLength, \* lengths of a performance range
    Retention,   \* age at which snapshots are deleted
    MaxEvents,   \* movements on chain, failed reads and live views taken together
    MaxClock     \* intervals

ASSUME CockpitAssumption == Gross \subseteq Nat /\ RangeLength \subseteq Nat

VARIABLES
    vault,       \* on chain
    moves,       \* history: what changed the vault, in order, and its VaultEvent row
    clock,
    portfolio,   \* VaultPortfolioService.cache
    aave,        \* AaveV3Adapter.cache
    reading,     \* the valuation in progress
    ticked,      \* when the loop ran last
    snaps,       \* VaultValueSnapshot rows, oldest first
    views,
    incidents

cockpitVars == <<vault, moves, clock, portfolio, aave, reading, ticked, snaps, incidents, views>>

NoEntry == [at |-> -1]
NotReading == [step |-> "none", loop |-> FALSE, total |-> 0, claimed |-> FALSE, seen |-> {}, flaws |-> {}]

\* A vault that has just been funded: a first deposit of FirstGross, a part of it
\* supplied to the protocol and a part put aside for the keepers.
FirstGross == 5
CockpitInit ==
    /\ vault = [idle |-> 1, supplied |-> 1, debt |-> 0, reserve |-> 1]
    /\ moves = <<[at |-> 0, usd |-> FirstGross, net |-> 3, paidIn |-> FirstGross, row |-> "pending"]>>
    /\ clock = 0
    /\ portfolio = NoEntry
    /\ aave = NoEntry
    /\ reading = NotReading
    /\ ticked = 0
    /\ snaps = <<>>
    /\ incidents = 0
    /\ views = 0

\* What the positions of v add up to: debt counts against the rest.
NetEquity(v) == v.idle + v.supplied - v.debt + v.reserve

\* Where the chain stands: reads made at the same point agree.
Now == Len(moves)
NetAt(i) == IF i = 0 THEN 0 ELSE moves[i].net
PaidInAt(i) == IF i = 0 THEN 0 ELSE moves[i].paidIn
GainAt(i) == NetAt(i) - PaidInAt(i)

---------------------------------------------------------------------------
(* The vault on chain: the owner's deposits and withdrawals (boundary       *)
(* events, in gross amounts), its automations' protocol steps, interest,    *)
(* and the keepers' compensation.                                           *)

Spare == Len(moves) + incidents + views < MaxEvents

Incident(happens) ==
    /\ happens => Spare
    /\ incidents' = incidents + IF happens THEN 1 ELSE 0

Moved(v, usd) ==
    /\ Spare
    /\ \A k \in DOMAIN v : v[k] >= 0
    /\ vault' = v
    /\ moves' = Append(moves, [at |-> clock, usd |-> usd, net |-> NetEquity(v),
                               paidIn |-> PaidInAt(Now) + usd,
                               row |-> IF usd = 0 THEN "nothing" ELSE "pending"])
    /\ UNCHANGED <<clock, portfolio, aave, reading, ticked, snaps, incidents, views>>

DepositFee(gross) == gross \div 2

deposit == \E g \in Gross : Moved([vault EXCEPT !.idle = @ + g - DepositFee(g)], g)
withdraw == \E g \in Gross : Moved([vault EXCEPT !.idle = @ - g], -g)
supply == Moved([vault EXCEPT !.idle = @ - 1, !.supplied = @ + 1], 0)
borrow == vault.supplied > vault.debt /\ Moved([vault EXCEPT !.idle = @ + 1, !.debt = @ + 1], 0)
depositFees == Moved([vault EXCEPT !.idle = @ - 1, !.reserve = @ + 1], 0)
accrueInterest == vault.supplied > 0 /\ Moved([vault EXCEPT !.supplied = @ + 1], 0)
compensate == Moved([vault EXCEPT !.reserve = @ - 1], 0)

\* The indexer stores the oldest pending event, with the dollar amount of its
\* gross tokens, or without one when no price is to be had.
persistVaultEvent ==
    \E i \in DOMAIN moves : \E row \in {"priced", "unpriced"} :
        /\ moves[i].row = "pending"
        /\ \A j \in 1 .. i - 1 : moves[j].row # "pending"
        /\ Incident(row = "unpriced")
        /\ moves' = [moves EXCEPT ![i].row = row]
        /\ UNCHANGED <<vault, clock, portfolio, aave, reading, ticked, snaps, views>>

---------------------------------------------------------------------------
(* Caches.                                                                  *)

pass ==
    /\ clock < MaxClock
    /\ reading = NotReading
    /\ clock' = clock + 1
    /\ portfolio' = NoEntry /\ aave' = NoEntry
    /\ UNCHANGED <<vault, moves, reading, ticked, snaps, incidents, views>>

\* What a read through a cache gives: its entry, or, when that has expired, a new one.
Through(entry, reads) == reads \cup IF entry = NoEntry THEN {} ELSE {entry}

\* The adapter's read of its one reserve: the reserve may be skipped before or
\* after its tokens were noted as claimed, without a trace in the answer.
AaveReads ==
    {[claimed |-> TRUE, supplied |-> vault.supplied, debt |-> vault.debt, flaws |-> {}, at |-> Now],
     [claimed |-> TRUE, supplied |-> 0, debt |-> 0, flaws |-> {"reserve"}, at |-> Now],
     [claimed |-> FALSE, supplied |-> 0, debt |-> 0, flaws |-> {"reserve"}, at |-> Now]}

\* The token list: a provider that answers with an error counts as an empty
\* vault; a token without a price is listed and not counted; the aTokens are
\* tokens like any other, with a price or without.
PortfolioReads ==
    {[idle |-> vault.idle, aTokens |-> a, flaws |-> {}, at |-> Now] : a \in {0, vault.supplied}}
      \cup {[idle |-> 0, aTokens |-> 0, flaws |-> f, at |-> Now] : f \in {{"tokens"}, {"shown"}}}

\* getOverview, the dashboard's list, reads all vaults' tokens and fills the cache.
getOverview ==
    \E read \in PortfolioReads :
        /\ Incident(read.flaws # {})
        /\ portfolio' = read
        /\ UNCHANGED <<vault, moves, clock, aave, reading, ticked, snaps, views>>

---------------------------------------------------------------------------
(* A valuation.                                                             *)

Reading(step) == reading.step = step
Reads(next, read, usd) ==
    reading' = [reading EXCEPT !.step = next, !.total = @ + usd,
                               !.seen = @ \cup {read.at}, !.flaws = @ \cup read.flaws]

\* The loop values every vault past the valuation's own cache; a refreshing
\* visitor does so too, and a visitor of a vault without snapshots when that
\* cache, which holds an earlier valuation as it was, has expired.
snapshotTick ==
    /\ Reading("none") /\ ticked < clock
    /\ ticked' = clock
    /\ reading' = [NotReading EXCEPT !.step = "claims", !.loop = TRUE]
    /\ UNCHANGED <<vault, moves, clock, portfolio, aave, snaps, incidents, views>>

getPositionsView ==
    /\ Reading("none") /\ Spare
    /\ views' = views + 1
    /\ reading' = [NotReading EXCEPT !.step = "claims"]
    /\ UNCHANGED <<vault, moves, clock, portfolio, aave, ticked, snaps, incidents>>

\* claimedTokens: a failure is logged, and nothing is claimed.
readClaims ==
    /\ Reading("claims")
    /\ \/ \E read \in Through(aave, AaveReads) :
            /\ Incident(read # aave /\ read.flaws # {})
            /\ aave' = read
            /\ reading' = [reading EXCEPT !.step = "positions", !.claimed = read.claimed,
                                !.flaws = IF read.claimed THEN @ ELSE @ \cup {"claims"}]
       \/ /\ Incident(TRUE)
          /\ reading' = [reading EXCEPT !.step = "positions", !.flaws = @ \cup {"claims"}]
          /\ aave' = NoEntry
    /\ UNCHANGED <<vault, moves, clock, portfolio, ticked, snaps, views>>

\* getPositions: a failure is a row without a value.
readPositions ==
    /\ Reading("positions")
    /\ \/ \E read \in Through(aave, AaveReads) :
            /\ Incident(read # aave /\ read.flaws # {})
            /\ aave' = read
            /\ Reads("idle", read, read.supplied - read.debt)
       \/ /\ Incident(TRUE)
          /\ reading' = [reading EXCEPT !.step = "idle", !.flaws = @ \cup {"shown"}]
          /\ aave' = NoEntry
    /\ UNCHANGED <<vault, moves, clock, portfolio, ticked, snaps, views>>

\* Mutant: the tokens of the protocols are counted with the idle ones.
Idle_CountsClaimed(read, claimed) == read.idle + read.aTokens

\* The idle tokens are those no adapter has claimed.
Idle(read, claimed) == read.idle + IF claimed THEN 0 ELSE read.aTokens

readIdle ==
    /\ Reading("idle")
    /\ \/ \E read \in Through(portfolio, PortfolioReads) :
            /\ Incident(read # portfolio /\ read.flaws # {})
            /\ portfolio' = read
            /\ Reads("reserve", read, Idle(read, reading.claimed))
       \/ /\ Incident(TRUE)
          /\ reading' = [reading EXCEPT !.step = "reserve", !.flaws = @ \cup {"shown"}]
          /\ portfolio' = NoEntry
    /\ UNCHANGED <<vault, moves, clock, aave, ticked, snaps, views>>

\* The gas reserve, or a row without a value.
readReserve ==
    /\ Reading("reserve")
    /\ \E read \in {[usd |-> vault.reserve, flaws |-> {}, at |-> Now],
                    [usd |-> 0, flaws |-> {"shown"}, at |-> Now]} :
         /\ Incident(read.flaws # {})
         /\ Reads("valued", read, read.usd)
    /\ UNCHANGED <<vault, moves, clock, portfolio, aave, ticked, snaps, views>>

\* The visitor gets the valuation as it is.
answerView ==
    /\ Reading("valued") /\ ~reading.loop
    /\ reading' = NotReading
    /\ UNCHANGED <<vault, moves, clock, portfolio, aave, ticked, snaps, incidents, views>>

\* The loop's row; a vault whose row cannot be written is logged and left out.
createSnapshot ==
    /\ Reading("valued") /\ reading.loop
    /\ \/ /\ snaps' = Append(snaps, [asOf |-> clock, total |-> reading.total,
                                     seen |-> reading.seen, flaws |-> reading.flaws])
          /\ UNCHANGED incidents
       \/ Incident(TRUE) /\ UNCHANGED snaps
    /\ reading' = [NotReading EXCEPT !.step = "prune", !.loop = TRUE]
    /\ UNCHANGED <<vault, moves, clock, portfolio, aave, ticked, views>>

\* The rows are oldest first: what is young enough is their end.
prune ==
    /\ Reading("prune")
    /\ LET kept == {i \in DOMAIN snaps : snaps[i].asOf >= clock - Retention}
       IN snaps' = SubSeq(snaps, Len(snaps) - Cardinality(kept) + 1, Len(snaps))
    /\ reading' = NotReading
    /\ UNCHANGED <<vault, moves, clock, portfolio, aave, ticked, incidents, views>>

CockpitNext ==
    \/ deposit \/ withdraw \/ supply \/ borrow \/ depositFees \/ accrueInterest \/ compensate
    \/ persistVaultEvent \/ pass \/ getOverview
    \/ snapshotTick \/ getPositionsView \/ readClaims \/ readPositions \/ readIdle \/ readReserve
    \/ answerView \/ createSnapshot \/ prune

CockpitSpec == CockpitInit /\ [][CockpitNext]_cockpitVars

---------------------------------------------------------------------------
(* Performance over a range that begins at cutoff; "all" has the cutoff 0,  *)
(* before which nothing happened.                                           *)

Boundary == {i \in DOMAIN moves : moves[i].usd # 0}

\* Mutant: the snapshots of the range.
Baselines_Within(cutoff) == {i \in DOMAIN snaps : snaps[i].asOf >= cutoff}

\* The candidates for the value at the beginning of the range; the youngest is taken.
Baselines(cutoff) == {i \in DOMAIN snaps : cutoff > 0 /\ snaps[i].asOf <= cutoff}

ValueAtRangeStart(cutoff) == IF Baselines(cutoff) = {} THEN 0 ELSE snaps[Max(Baselines(cutoff))].total

EventsInRange(cutoff) == {i \in Boundary : moves[i].row = "priced" /\ moves[i].at >= cutoff}
NetDeposits(cutoff) ==
    LET sum[i \in 0 .. Len(moves)] ==
          IF i = 0 THEN 0 ELSE sum[i - 1] + IF i \in EventsInRange(cutoff) THEN moves[i].usd ELSE 0
    IN  sum[Len(moves)]

Pnl(cutoff) == snaps[Len(snaps)].total - ValueAtRangeStart(cutoff) - NetDeposits(cutoff)

---------------------------------------------------------------------------

\* Every read agreed on where the chain stood, and none failed or lacked a price.
Sound(v) == v.flaws = {} /\ Cardinality(v.seen) = 1
SeenBy(v) == CHOOSE i \in v.seen : TRUE

\* Whatever the caches held and in whatever order valuations, movements and
\* failures came: a valuation whose reads agree is the vault's net equity, each
\* token counted once and debt counted against it; only a movement during the
\* reads (or since a cached one) and the failures named in flaws make it differ
\* (valuation.service.ts:45-113).
ValuationExact ==
    \A v \in {reading} \cup {snaps[i] : i \in DOMAIN snaps} :
        (v = reading => Reading("valued")) /\ Sound(v) => v.total = NetAt(SeenBy(v))

\* How far the chain had come when the range began.
Began(cutoff) == Cardinality({i \in DOMAIN moves : moves[i].at < cutoff})

\* All boundary events have a row with a price, the youngest snapshot has seen
\* them all, and the youngest one before the range, if anything happened before
\* it, has seen what happened until its beginning and nothing else.
Aligned(cutoff) ==
    /\ \A i \in Boundary : moves[i].row = "priced" /\ i <= SeenBy(snaps[Len(snaps)])
    /\ LET before == {i \in DOMAIN snaps : snaps[i].asOf <= cutoff}
       IN IF cutoff = 0 \/ before = {} THEN Began(cutoff) = 0
          ELSE SeenBy(snaps[Max(before)]) = Began(cutoff)

\* Over every range whose snapshots are sound and aligned with its events, the
\* profit is what the vault gained in it - interest, less deposit fees and
\* compensation - and no deposit or withdrawal passes for a gain or a loss
\* (performance.ts:47-66, performance.service.ts:72-123).
PnlIsGain ==
    \A cutoff \in {0} \cup {clock - n : n \in RangeLength} :
        /\ snaps # <<>> /\ \A i \in DOMAIN snaps : Sound(snaps[i])
        /\ cutoff >= 0 /\ Aligned(cutoff)
        => Pnl(cutoff) = GainAt(SeenBy(snaps[Len(snaps)])) - GainAt(Began(cutoff))

\* The header, the chart and the profit rest on numbers that are right unless
\* one of the named conditions says otherwise.
CockpitTellsTruth == ValuationExact /\ PnlIsGain
=============================================================================
