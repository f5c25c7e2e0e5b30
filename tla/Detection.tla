----------------------------- MODULE Detection -----------------------------
(* The parts of detection that keep state, side by side, as the workers    *)
(* use them: the correlator, the rule engine, and the delivery of alerts.  *)
(* Each has a lock of its own, and none reads what another keeps, so any   *)
(* step of one may come between two steps of another.                      *)
EXTENDS Correlator, RuleEngine, AlertOutput

detectionVars == <<correlatorVars, engineVars, outputVars>>

CorrelatorStep == CorrelatorNext /\ UNCHANGED <<engineVars, outputVars>>
EngineStep == EngineNext /\ UNCHANGED <<correlatorVars, outputVars>>
OutputStep == OutputNext /\ UNCHANGED <<correlatorVars, engineVars>>

DetectionInit == CorrelatorInit /\ EngineInit /\ OutputInit
DetectionNext == CorrelatorStep \/ EngineStep \/ OutputStep
DetectionSpec == DetectionInit /\ [][DetectionNext]_detectionVars

(* The parts keep their types beside each other: the correlator its bound  *)
(* on the table (evictEldestWindow), the engine its slices within their arrays,  *)
(* and the manager its view within its own (Evaluate, Send, AddSink).      *)
DetectionTypeOK ==
  /\ CorrelatorTypeOK /\ TableBounded
  /\ EngineTypeOK
  /\ OutputTypeOK
=============================================================================
