----------------------------- MODULE MCPipeline -----------------------------
(* Instances of Pipeline for TLC: two alerts of one group.                 *)
EXTENDS Pipeline, TLC

CONSTANTS a1, a2, key

MCKeyOf == (a1 :> key) @@ (a2 :> key)
=============================================================================
