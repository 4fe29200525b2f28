---------------------------- MODULE MCDeployFlow ----------------------------
(* A public draft of the editor, one of the MCP server with a variable of    *)
(* its own, and an owner-only draft as long as the first.                     *)
EXTENDS DeployFlow, TLC

CONSTANTS r1, r2, r3, s1, s2

Info(ownerOnly, target, name, starts, saved) ==
    [ownerOnly |-> ownerOnly, stepCount |-> 1, target |-> target, names |-> <<name>>,
     starts |-> starts, saved |-> saved]

MCGraph ==
    [r \in Row |->
        CASE r = r1 -> Info(FALSE, "interval", "a", {"a"}, TRUE)
          [] r = r2 -> Info(TRUE, "transfer", "b", {}, TRUE)
          [] r = r3 -> Info(FALSE, "interval", "b", {"b"}, FALSE)]

SessionSymmetry == Permutations(Session)
=============================================================================
