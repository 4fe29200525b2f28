----------------------------- MODULE MCIndexer ------------------------------
(***************************************************************************)
(* Instances of the indexer for TLC: logs of two vaults, one created with  *)
(* the chain and one later.                                                *)
(***************************************************************************)
EXTENDS Indexer, TLC

CONSTANTS v1, v2, k1, k2, k3, h1, h2

MCVault == {v1, v2}
MCKey == {k1, k2, k3}
MCCreatedAt == [v \in Vault |-> IF v = v1 THEN 1 ELSE 2]

\* The feed: a withdrawal of v1, an execution of v2.
FeedEvent ==
    [k \in Key |->
        CASE k = k2 -> [vault |-> v1, kind |-> "money", automation |-> 0]
          [] k = k3 -> [vault |-> v2, kind |-> "exec", automation |-> 0]]

\* Failures: automation 0 of both vaults, and a protocol flow.
FailureEvent ==
    [k \in Key |->
        CASE k = k1 -> [vault |-> v1, kind |-> "exec", automation |-> 0]
          [] k = k2 -> [vault |-> v2, kind |-> "exec", automation |-> 0]
          [] k = k3 -> [vault |-> v1, kind |-> "flow", automation |-> 0]]

HandlerSymmetry == Permutations(Handler)
=============================================================================
