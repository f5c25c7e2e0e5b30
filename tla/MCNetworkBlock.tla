--------------------------- MODULE MCNetworkBlock ---------------------------
(* Values of the constants of NetworkBlock.                                *)
EXTENDS NetworkBlock

(* In units of five minutes, R019 shortened to what the clock can reach.   *)
MCRuleTTL == [r \in Rules |-> IF r = "R009" THEN 2 ELSE 1]

(* The metadata service, as R019 blocks it, for less time.                 *)
MCPolicyKeys == {RuleKey("R019", 1, 4444)}
=============================================================================
