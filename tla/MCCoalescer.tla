---------------------------- MODULE MCCoalescer -----------------------------
(* An instance of Coalescer for TLC: two groups, one of two alerts.        *)
EXTENDS Coalescer, TLC

CONSTANTS a1, a2, b1, shell, curl

MCKeyOf == (a1 :> shell) @@ (a2 :> shell) @@ (b1 :> curl)
=============================================================================
