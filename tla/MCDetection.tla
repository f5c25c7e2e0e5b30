---------------------------- MODULE MCDetection ----------------------------
(* One instance for TLC of the parts of detection and of what the rules    *)
(* mean, each by itself: part says which one a behaviour is about, the     *)
(* others rest.  The parts share no state, so running two of them beside   *)
(* each other would show no more than running each.                        *)
EXTENDS Detection, MCCorrelator, RuleCatalog

CONSTANTS slack, generic

VARIABLE part

MCVars == <<part, detectionVars, conditionVars, catalogVars>>

-----------------------------------------------------------------------------
(* The rules given to the engine: C is of the exec events alone, B of the  *)
(* same and of the fork events, D of any event and enforced; what is added *)
(* later replaces D by a rule for two event types and A by one for any.    *)

exec == [type |-> 1, cat |-> 1]
fork == [type |-> 2, cat |-> 1]
fileopen == [type |-> 10, cat |-> 2]
MCEvents == {exec, fork, fileopen}

MCRule(id, edition, types, cat, rank, enforce, holds, excepted) ==
  [id |-> id, edition |-> edition, types |-> types, cat |-> cat, rank |-> rank,
   enforce |-> enforce, holds |-> holds, excepted |-> excepted]

MCBaseline == <<
  MCRule("A", 1, <<1>>, 0, 4, FALSE, {exec}, {}),
  MCRule("B", 1, <<1, 2>>, 1, 5, FALSE, {exec}, {exec}),
  MCRule("C", 1, <<1>>, 0, 5, FALSE, {exec, fork}, {}),
  MCRule("D", 1, <<0>>, 0, 5, TRUE, MCEvents, {}) >>

MCAdded == <<
  MCRule("D", 2, <<1, 10>>, 0, 3, TRUE, MCEvents, {}),
  MCRule("A", 2, <<0>>, 0, 7, TRUE, MCEvents, {}) >>

(* The conditions read back: all of up to three operators over each other, *)
(* of three checks.                                                        *)
Atoms == {Leaf(check) : check \in {"a", "b", "c"}}
Over(parts) ==
  parts \cup {Not(e) : e \in parts}
        \cup {Node(op, l, r) : op \in {"and", "or"}, l \in parts, r \in parts}
MCSamples == Over(Over(Atoms))

MCConfigured == <<slack, generic>>

-----------------------------------------------------------------------------

MCInit ==
  /\ part \in {"correlator", "engine", "conditions", "catalog", "output"}
  /\ DetectionInit
  /\ ConditionInit /\ (part # "conditions" => written = Leaf("a") /\ style = "plain")
  /\ CatalogInit /\ (part # "catalog" => event = Plain(Exec, FALSE))

Only(name) ==
  /\ part = name /\ UNCHANGED part
  /\ name \in {"conditions", "catalog"} => UNCHANGED detectionVars
  /\ name # "conditions" => UNCHANGED conditionVars
  /\ name # "catalog" => UNCHANGED catalogVars

MCNext ==
  \/ Only("correlator") /\ CorrelatorStep
  \/ Only("engine") /\ EngineStep
  \/ Only("output") /\ OutputStep
  \/ Only("conditions") /\ Parse
  \/ Only("catalog") /\ Evaluate

MCSpec == MCInit /\ [][MCNext]_MCVars
=============================================================================
