------------------------------ MODULE MCBooks -------------------------------
(***************************************************************************)
(* The registry's books beside what the cockpit makes of a vault: its value *)
(* and profit, its PancakeSwap positions, the panels that show them.  The   *)
(* four share no state and are explored side by side: the initial state     *)
(* picks one, the others stay as they begin.                                *)
(***************************************************************************)
EXTENDS MCFeeRegistry, Cockpit, LpPositions, Panels

VARIABLE part

mcTick == -3 .. 3
mcSqrtRatio ==
    [t \in -6 .. 6 |-> <<5, 6, 7, 8, 9, 10, 12, 14, 16, 18, 21, 24, 28>>[t + 7]]

\* Empty; closed with fees left in it; open; open over another range.
mcNFTs ==
    {[lower |-> -3, upper |-> 0, liquidity |-> l, fees0 |-> f, fees1 |-> 0] :
        <<l, f>> \in {<<0, 0>>, <<0, 1>>, <<5, 1>>}}
      \cup {[lower |-> -3, upper |-> 3, liquidity |-> 7, fees0 |-> 0, fees1 |-> 2]}
mcLegPrice == {Unpriced, 2}

mcPast == {<<"deposit", "deposit", "slot">>, <<"snapshot", "snapshot", "snapshot">>}

BooksInit ==
    /\ part \in {"registry", "cockpit", "positions", "panels"}
    /\ RegistryInit /\ CockpitInit /\ LpInit /\ PositionsInit /\ PanelsInit
    /\ tick = 0 /\ sqrtP = SqrtRatio[0] /\ bal0 = 0
    /\ part # "positions" => held = <<CHOOSE n \in NFTs : TRUE>> /\ market = [tick |-> 0, sqrt |-> SqrtRatio[0]]
    /\ part # "panels" => open = Ranged /\ moments = <<"snapshot", "snapshot", "snapshot">>

BooksNext ==
    /\ UNCHANGED <<part, lpVars>>
    /\ \/ part = "registry" /\ RegistryNext /\ UNCHANGED <<cockpitVars, positionVars, panelVars>>
       \/ part = "cockpit" /\ CockpitNext /\ UNCHANGED <<registryVars, positionVars, panelVars>>
       \/ part = "positions" /\ PositionsNext /\ UNCHANGED <<registryVars, cockpitVars, panelVars>>
       \/ part = "panels" /\ PanelsNext /\ UNCHANGED <<registryVars, cockpitVars, positionVars>>

BooksSpec == BooksInit /\ [][BooksNext]_<<part, registryVars, cockpitVars, lpVars, positionVars, panelVars>>
=============================================================================
