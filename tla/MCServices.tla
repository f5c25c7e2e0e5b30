----------------------------- MODULE MCServices -----------------------------
(* One instance for TLC of the parts of the agent around detection, each   *)
(* by itself: part says which one a behaviour is about, the others rest in *)
(* their initial states, in which no action with fairness is enabled.      *)
(* Enrichment is run twice: as a whole, with processes in no cgroup, since *)
(* only the map of cgroups depends on them; and, with processes in any     *)
(* cgroup, without the watcher of pods, which does not touch that map.     *)
EXTENDS MCEnforcement, AlertOutput, Enrichment, LinkedCache, MCLoader

CONSTANTS slack, generic

VARIABLE part

servicesVars == <<part, vars, outputVars, enrichVars, cacheListVars, loaderVars>>

MCConfigured == <<slack, generic>>

-----------------------------------------------------------------------------

OutsideCgroups == \A p \in Listed : home[p].cgroup = NoCgroup

ServicesInit ==
  /\ part \in {"enforcement", "output", "enrichment", "cgroups", "cache", "loader"}
  /\ Init /\ (part # "enforcement" => pmode = "audit" /\ ~graceful)
  /\ OutputInit
  /\ EnrichInit /\ (part \notin {"enrichment", "cgroups"} => Listed = {})
  /\ part = "enrichment" => OutsideCgroups
  /\ LinkedCacheInit /\ (part # "cache" => kind = "cri" /\ size = 0)
  /\ LoaderInit /\ (part # "loader" => ~mockMode)

Only(name) ==
  /\ part = name /\ UNCHANGED part
  /\ name # "enforcement" => UNCHANGED vars
  /\ name # "output" => UNCHANGED outputVars
  /\ name \notin {"enrichment", "cgroups"} => UNCHANGED enrichVars
  /\ name # "cache" => UNCHANGED cacheListVars
  /\ name # "loader" => UNCHANGED loaderVars

ServicesNext ==
  \/ Only("enforcement") /\ Next
  \/ Only("output") /\ OutputNext
  \/ Only("enrichment") /\ EnrichNext /\ OutsideCgroups'
  \/ Only("cgroups") /\ EnrichNext /\ (watcher' = watcher \/ manager = "new")
  \/ Only("cache") /\ LinkedCacheNext
  \/ Only("loader") /\ LoaderNext

ServicesSpec ==
  /\ ServicesInit /\ [][ServicesNext]_servicesVars
  /\ EnforcementFairness /\ OutputFairness /\ EnrichFairness /\ LoaderFairness

(* The types of the parts.                                                 *)
ServicesTypeOK ==
  CASE part = "enforcement" -> TypeOK
    [] part = "output" -> OutputTypeOK
    [] part \in {"enrichment", "cgroups"} -> EnrichTypeOK
    [] part = "cache" -> LinkedCacheTypeOK
    [] part = "loader" -> LoaderTypeOK
=============================================================================
