---------------------------- MODULE MCCorrelator ----------------------------
(* Instances of Correlator for TLC: a rule that needs two signals of one   *)
(* process, and a rule that needs one of them, from anywhere in the        *)
(* container; they share the signal net.                                   *)
EXTENDS Correlator, TLC

CONSTANTS both, either, shell, net, p1, p2, cid

MCSignalsOf == (both :> {shell, net}) @@ (either :> {net})
MCLogic == (both :> "all") @@ (either :> "any")
MCSpan == (both :> 1) @@ (either :> 1)
MCGroupOf == (both :> [s \in {p1, p2} |-> s]) @@ (either :> [s \in {p1, p2} |-> cid])

SameSources == Permutations({p1, p2})
=============================================================================
