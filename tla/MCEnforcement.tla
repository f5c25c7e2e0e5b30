--------------------------- MODULE MCEnforcement ---------------------------
(* Instances of Enforcement for TLC.                                       *)
EXTENDS Enforcement, TLC

CONSTANTS init, agent, victim, app, system, none

MCPids == {init, agent, victim}
MCNamespaces == {app, system, none}
MCKeys == {<<app>>, <<system>>, <<none>>}

(* An event that every rule lets through, and variations of it that one    *)
(* rule each refuses.                                                      *)
Eligible == [pid |-> victim, ppid |-> init, ns |-> app, key |-> <<app>>,
             attributed |-> TRUE, action |-> "enforce"]

MCEvents ==
  { Eligible,
    [Eligible EXCEPT !.attributed = FALSE, !.ns = none, !.key = <<none>>],
    [Eligible EXCEPT !.ns = system, !.key = <<system>>],
    [Eligible EXCEPT !.pid = init],
    [Eligible EXCEPT !.ppid = agent] }

(* Of these only the first can lead to a signal.                           *)
MCEligible == {Eligible}

(* Enrichment reports the namespace of a pod, or does not know it yet.     *)
MCLabels == [n \in MCNamespaces |-> {n, none}]

(* At the start every process counts as app's; the victim's PID may be     *)
(* given to a process of either pod, or of none, later.                    *)
MCRunning0 == {[p \in MCPids |-> [gen |-> 0, st |-> "alive", ns |-> app]]}

Symmetric == Permutations(Requests)
=============================================================================
