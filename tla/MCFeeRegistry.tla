--------------------------- MODULE MCFeeRegistry ---------------------------
(* A small instance of FeeRegistry: one token, two vaults that hold tokens  *)
(* of their own, the registry's owner, and gas configurations with and      *)
(* without a price cap.                                                     *)
EXTENDS FeeRegistry, TLC

CONSTANTS t1, reg, o, v1, v2

MCInitialBal == [t \in Token |-> [a \in Account |-> IF a \in {v1, v2} THEN 2 ELSE 0]]

MCGasConfig ==
    {[oracle |-> TRUE,  markupBps |-> 0, overhead |-> 0, maxGasPrice |-> 1],
     [oracle |-> TRUE,  markupBps |-> 1, overhead |-> 1, maxGasPrice |-> 0]}

\* The two vaults start alike and no other constant names them.
MCSymmetry == Permutations({v1, v2})
=============================================================================
