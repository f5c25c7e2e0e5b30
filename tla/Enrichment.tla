----------------------------- MODULE Enrichment -----------------------------
(***************************************************************************)
(* Container enrichment (pkg/enrichment): Manager with its caches, the     *)
(* poller that scans /proc for containers (cri.go), the watcher that scans *)
(* it for pods (k8s.go), and the consumers of what the two report.         *)
(*                                                                         *)
(* The poller registers what it finds itself and reports it as an event    *)
(* too, which the consumer applies later, again.  Stop keeps the manager's *)
(* mutex while it waits for the goroutines in its wait group: all of them  *)
(* but the poller.                                                         *)
(*                                                                         *)
(* The key of cgroupMap is a hash of the path of one process's cgroup, in  *)
(* the unified hierarchy: processes of one container may be found in       *)
(* several cgroups (nested ones), or in none (cgroup v1), and containers   *)
(* may share one.  Of the pod metadata only its presence counts.  Left     *)
(* out: k8sCache, which nothing reads, and PruneCaches, which nothing      *)
(* calls.                                                                  *)
(***************************************************************************)
EXTENDS Naturals, Sequences, FiniteSets

CONSTANTS
  Containers,    \* container IDs
  Processes,     \* PIDs
  Nowhere,       \* no container, no process
  Cgroups,       \* hashes of cgroup paths
  NoCgroup,      \* 0: none was found
  QueueCap,      \* the capacity of each event channel (256)
  Cancels,       \* whether the context given to Start is ever cancelled
  MaxMoves,      \* bound: processes started and ended
  MaxObjects     \* bound: ContainerInfo objects

ASSUME EnrichAssumption ==
  /\ Nowhere \notin Containers \cup Processes /\ NoCgroup \notin Cgroups
  /\ QueueCap \in Nat /\ MaxObjects \in Nat

VARIABLES
  home,      \* home[p]: the container and the cgroup of p; Nowhere: no such process
  moves,     \* bound: processes started and ended so far
  objects,   \* the ContainerInfo objects: container, cgroup, and whether pod metadata is set
  criCache,  \* criCache[c]: the object registered for c, 0 if none
  cgroupMap, \* cgroupMap[g]: the container to which g leads, Nowhere if none
  criQueue, k8sQueue,   \* the event channels
  poller, watcher, criConsumer, k8sConsumer, reaper,   \* the goroutines
  manager,   \* "new", "running", "stopping" (Stop waits, with the mutex) or "stopped"
  cancelled

nodeVars == <<home, moves>>
cacheVars == <<objects, criCache, cgroupMap>>
goroutines == <<poller, watcher, criConsumer, k8sConsumer, reaper>>
enrichVars == <<nodeVars, cacheVars, criQueue, k8sQueue, goroutines, manager, cancelled>>

Place == [id : Containers, cgroup : Cgroups \cup {NoCgroup}]
ContainerInfo == [id : Containers, cgroup : Cgroups \cup {NoCgroup}, pod : BOOLEAN]
CRIEvent == [type : {"start", "stop"}, obj : 1..MaxObjects]
Scan == [at : {"off", "list", "fullscan", "scan", "gone", "idle", "done"},
         seen : [Processes -> Place \cup {Nowhere}], todo : SUBSET (Processes \cup Containers),
         picked : Processes \cup {Nowhere}]

EnrichTypeOK ==
  /\ home \in [Processes -> Place \cup {Nowhere}]
  /\ objects \in Seq(ContainerInfo) /\ Len(objects) <= MaxObjects
  /\ criCache \in [Containers -> 0..Len(objects)]
  /\ \A c \in Containers : criCache[c] # 0 => objects[criCache[c]].id = c
  /\ cgroupMap \in [Cgroups -> Containers \cup {Nowhere}]
  /\ criQueue \in Seq(CRIEvent) /\ Len(criQueue) <= QueueCap
  /\ k8sQueue \in Seq(Containers) /\ Len(k8sQueue) <= QueueCap
  /\ poller \in Scan
  /\ watcher \in [at : {"off", "idle", "scan", "done"}, todo : SUBSET Processes]
  /\ criConsumer \in [at : {"off", "select", "start", "stop", "done"}, obj : 0..MaxObjects]
  /\ k8sConsumer \in [at : {"off", "select", "added", "done"}, id : Containers \cup {Nowhere}]
  /\ reaper \in {"off", "select", "prune", "done"}
  /\ manager \in {"new", "running", "stopping", "stopped"}
  /\ cancelled \in BOOLEAN

Listed == {p \in Processes : home[p] # Nowhere}
Inhabited == {home[p].id : p \in Listed}
Unseen == [p \in Processes |-> Nowhere]
MutexFree == manager # "stopping"
CRISelect == [at |-> "select", obj |-> 0]
K8sSelect == [at |-> "select", id |-> Nowhere]
Enqueue(queue, event) == IF Len(queue) < QueueCap THEN Append(queue, event) ELSE queue

-----------------------------------------------------------------------------
(* The node: processes start and end, and PIDs are used again.  (Bound:    *)
(* not in a behaviour in which the manager stops.)                         *)

Move(p) ==
  /\ moves < MaxMoves /\ moves' = moves + 1
  /\ manager \in {"new", "running"} /\ ~cancelled
  /\ IF home[p] = Nowhere THEN \E place \in Place : home' = [home EXCEPT ![p] = place]
     ELSE home' = [home EXCEPT ![p] = Nowhere]
  /\ UNCHANGED <<cacheVars, criQueue, k8sQueue, goroutines, manager, cancelled>>

-----------------------------------------------------------------------------
(* The manager.                                                            *)

(* RegisterContainer, under the mutex.                                     *)
Register(obj) ==
  /\ criCache' = [criCache EXCEPT ![objects'[obj].id] = obj]
  /\ cgroupMap' = [g \in Cgroups |->
       IF g = objects'[obj].cgroup THEN objects'[obj].id ELSE cgroupMap[g]]

(* A mutant: the map of cgroups is left to the reaper.                     *)
UnregisterCRIOnly(c) ==
  criCache' = [criCache EXCEPT ![c] = 0] /\ UNCHANGED cgroupMap

(* UnregisterContainer, under the mutex: of the container's keys the one   *)
(* goes with which it was registered last, whoever it leads to by now.     *)
Unregister(c) ==
  /\ criCache' = [criCache EXCEPT ![c] = 0]
  /\ cgroupMap' = [g \in Cgroups |->
       IF criCache[c] # 0 /\ g = objects[criCache[c]].cgroup THEN Nowhere ELSE cgroupMap[g]]

(* Start fills the PID cache (module LinkedCache), then starts goroutines. *)
StartEnrichment ==
  /\ manager = "new" /\ manager' = "running"
  /\ poller' = [poller EXCEPT !.at = "list"]
  /\ watcher' = [at |-> "scan", todo |-> Listed]
  /\ criConsumer' = CRISelect /\ k8sConsumer' = K8sSelect /\ reaper' = "select"
  /\ UNCHANGED <<nodeVars, cacheVars, criQueue, k8sQueue, cancelled>>

(* Stop, once it has the mutex, closes stopCh and waits.                   *)
StopBegins ==
  /\ manager = "running" /\ manager' = "stopping" /\ moves = 0
  /\ UNCHANGED <<nodeVars, cacheVars, criQueue, k8sQueue, goroutines, cancelled>>

StopEnds ==
  /\ manager = "stopping" /\ manager' = "stopped"
  /\ watcher.at = "done" /\ criConsumer.at = "done" /\ k8sConsumer.at = "done"
  /\ reaper = "done"
  /\ UNCHANGED <<nodeVars, cacheVars, criQueue, k8sQueue, goroutines, cancelled>>

(* The context is cancelled; helpers.go gives the agent one that never is. *)
Cancel ==
  /\ Cancels /\ ~cancelled /\ manager # "new" /\ cancelled' = TRUE /\ moves = 0
  /\ UNCHANGED <<nodeVars, cacheVars, criQueue, k8sQueue, goroutines, manager>>

-----------------------------------------------------------------------------
(* The poller: one full scan, then one scan every five seconds.            *)

(* A scan lists the processes in a container.                              *)
ListContainers ==
  /\ poller.at \in {"list", "idle"}
  /\ poller' = [at |-> IF poller.at = "list" THEN "fullscan" ELSE "scan", seen |-> home,
                todo |-> Listed, picked |-> Nowhere]
  /\ UNCHANGED <<nodeVars, cacheVars, criQueue, k8sQueue, watcher, criConsumer, k8sConsumer,
                 reaper, manager, cancelled>>

(* A process listed: the full scan registers its container, a later scan   *)
(* only if the cache does not have it.                                     *)
PickNew(p) ==
  /\ poller.at \in {"fullscan", "scan"} /\ poller.picked = Nowhere /\ p \in poller.todo
  /\ poller' = [poller EXCEPT !.todo = @ \ {p},
       !.picked = IF poller.at = "fullscan" \/ criCache[poller.seen[p].id] = 0 THEN p ELSE Nowhere]
  /\ UNCHANGED <<nodeVars, cacheVars, criQueue, k8sQueue, watcher, criConsumer, k8sConsumer,
                 reaper, manager, cancelled>>

(* The container is registered, as a new object with the cgroup of the     *)
(* process and without pod metadata, and its start reported, unless the    *)
(* channel is full.                                                        *)
RegisterNew ==
  /\ poller.picked # Nowhere /\ MutexFree /\ Len(objects) < MaxObjects
  /\ objects' = Append(objects, [id |-> poller.seen[poller.picked].id,
                                 cgroup |-> poller.seen[poller.picked].cgroup, pod |-> FALSE])
  /\ Register(Len(objects) + 1)
  /\ criQueue' = Enqueue(criQueue, [type |-> "start", obj |-> Len(objects) + 1])
  /\ poller' = [poller EXCEPT !.picked = Nowhere]
  /\ UNCHANGED <<nodeVars, k8sQueue, watcher, criConsumer, k8sConsumer, reaper,
                 manager, cancelled>>

(* A mutant: the scans leave what is gone to the runtime's stop events.    *)
LookNoFurther ==
  /\ poller.at \in {"fullscan", "scan"} /\ poller.todo = {} /\ poller.picked = Nowhere
  /\ poller' = [poller EXCEPT !.at = "idle", !.seen = Unseen]
  /\ UNCHANGED <<nodeVars, cacheVars, criQueue, k8sQueue, watcher, criConsumer, k8sConsumer,
                 reaper, manager, cancelled>>

(* All processes done: a later scan turns to the containers in the cache   *)
(* that it has not seen.                                                   *)
LookForGone ==
  /\ poller.at \in {"fullscan", "scan"} /\ poller.todo = {} /\ poller.picked = Nowhere
  /\ poller' = IF poller.at = "fullscan" THEN [poller EXCEPT !.at = "idle", !.seen = Unseen]
       ELSE [poller EXCEPT !.at = "gone", !.todo =
               {c \in Containers : criCache[c] # 0
                  /\ \A p \in Processes : poller.seen[p] # Nowhere => poller.seen[p].id # c},
               !.seen = Unseen]
  /\ UNCHANGED <<nodeVars, cacheVars, criQueue, k8sQueue, watcher, criConsumer, k8sConsumer,
                 reaper, manager, cancelled>>

(* A container that is gone is unregistered and its stop reported.         *)
UnregisterGone(c) ==
  /\ poller.at = "gone" /\ c \in poller.todo /\ MutexFree
  /\ Unregister(c)
  /\ criQueue' = IF criCache[c] = 0 THEN criQueue
                 ELSE Enqueue(criQueue, [type |-> "stop", obj |-> criCache[c]])
  /\ poller' = [poller EXCEPT !.todo = @ \ {c}]
  /\ UNCHANGED <<nodeVars, objects, k8sQueue, watcher, criConsumer, k8sConsumer,
                 reaper, manager, cancelled>>

(* The scan ends; between two scans the context's end ends the poller.     *)
ScanEnds ==
  /\ \/ poller.at = "gone" /\ poller.todo = {} /\ poller' = [poller EXCEPT !.at = "idle"]
     \/ poller.at = "idle" /\ cancelled /\ poller' = [poller EXCEPT !.at = "done"]
  /\ UNCHANGED <<nodeVars, cacheVars, criQueue, k8sQueue, watcher, criConsumer, k8sConsumer,
                 reaper, manager, cancelled>>

-----------------------------------------------------------------------------
(* The watcher of pods: a scan at the start, then one every ten seconds.   *)

WatchScan ==
  /\ watcher.at = "idle"
  /\ watcher' = [at |-> "scan", todo |-> Listed]
  /\ UNCHANGED <<nodeVars, cacheVars, criQueue, k8sQueue, poller, criConsumer, k8sConsumer,
                 reaper, manager, cancelled>>

(* A process listed, if it is there still: its pod, made up from the       *)
(* cgroup, is reported, unless the channel is full.                        *)
ReportPod(p) ==
  /\ watcher.at = "scan" /\ p \in watcher.todo
  /\ watcher' = [watcher EXCEPT !.todo = @ \ {p}]
  /\ k8sQueue' = IF home[p] = Nowhere THEN k8sQueue ELSE Enqueue(k8sQueue, home[p].id)
  /\ UNCHANGED <<nodeVars, cacheVars, criQueue, poller, criConsumer, k8sConsumer, reaper,
                 manager, cancelled>>

(* A mutant: the watcher does not look at the context either.              *)
WatchesOn ==
  /\ watcher.at = "scan" /\ watcher.todo = {} /\ watcher' = [watcher EXCEPT !.at = "idle"]
  /\ UNCHANGED <<nodeVars, cacheVars, criQueue, k8sQueue, poller, criConsumer, k8sConsumer,
                 reaper, manager, cancelled>>

(* The watcher ends with the context, or by its own stopCh, which nothing  *)
(* ever closes.                                                            *)
WatchEnds ==
  /\ \/ watcher.at = "scan" /\ watcher.todo = {} /\ watcher' = [watcher EXCEPT !.at = "idle"]
     \/ watcher.at = "idle" /\ cancelled /\ watcher' = [watcher EXCEPT !.at = "done"]
  /\ UNCHANGED <<nodeVars, cacheVars, criQueue, k8sQueue, poller, criConsumer, k8sConsumer,
                 reaper, manager, cancelled>>

-----------------------------------------------------------------------------
(* The consumers.  Their select takes any branch that is ready: an event   *)
(* also when stopCh is closed.                                             *)

Ending == cancelled \/ manager = "stopping" \/ manager = "stopped"

TakeCRIEvent ==
  /\ criConsumer.at = "select"
  /\ \/ /\ criQueue # <<>> /\ criQueue' = Tail(criQueue)
        /\ criConsumer' = [at |-> Head(criQueue).type, obj |-> Head(criQueue).obj]
     \/ Ending /\ criConsumer' = [criConsumer EXCEPT !.at = "done"] /\ UNCHANGED criQueue
  /\ UNCHANGED <<nodeVars, cacheVars, k8sQueue, poller, watcher, k8sConsumer, reaper, manager,
                 cancelled>>

HandleCRIEvent ==
  /\ criConsumer.at \in {"start", "stop"} /\ MutexFree
  /\ UNCHANGED objects
  /\ IF criConsumer.at = "start" THEN Register(criConsumer.obj)
     ELSE Unregister(objects[criConsumer.obj].id)
  /\ criConsumer' = CRISelect
  /\ UNCHANGED <<nodeVars, criQueue, k8sQueue, poller, watcher, k8sConsumer,
                 reaper, manager, cancelled>>

TakeK8sEvent ==
  /\ k8sConsumer.at = "select"
  /\ \/ /\ k8sQueue # <<>> /\ k8sQueue' = Tail(k8sQueue)
        /\ k8sConsumer' = [at |-> "added", id |-> Head(k8sQueue)]
     \/ Ending /\ k8sConsumer' = [k8sConsumer EXCEPT !.at = "done"] /\ UNCHANGED k8sQueue
  /\ UNCHANGED <<nodeVars, cacheVars, criQueue, poller, watcher, criConsumer, reaper, manager,
                 cancelled>>

(* HandlePodAdded sets the metadata of the object in the cache, if there   *)
(* is one; else what it was told is lost.                                  *)
HandlePodAdded ==
  /\ k8sConsumer.at = "added" /\ MutexFree
  /\ objects' = IF criCache[k8sConsumer.id] = 0 THEN objects
                ELSE [objects EXCEPT ![criCache[k8sConsumer.id]].pod = TRUE]
  /\ k8sConsumer' = K8sSelect
  /\ UNCHANGED <<nodeVars, criCache, cgroupMap, criQueue, k8sQueue, poller,
                 watcher, criConsumer, reaper, manager, cancelled>>

(* The reaper drops what has expired in the PID cache and then, under the  *)
(* mutex, the cgroups of containers that are not registered.               *)
ReapPIDs ==
  /\ reaper = "select"
  /\ \/ reaper' = "prune"
     \/ Ending /\ reaper' = "done"
  /\ UNCHANGED <<nodeVars, cacheVars, criQueue, k8sQueue, poller, watcher, criConsumer,
                 k8sConsumer, manager, cancelled>>

PruneCgroupMap ==
  /\ reaper = "prune" /\ MutexFree /\ reaper' = "select"
  /\ cgroupMap' = [g \in Cgroups |->
       IF cgroupMap[g] # Nowhere /\ criCache[cgroupMap[g]] = 0 THEN Nowhere ELSE cgroupMap[g]]
  /\ UNCHANGED <<nodeVars, objects, criCache, criQueue, k8sQueue, poller,
                 watcher, criConsumer, k8sConsumer, manager, cancelled>>

-----------------------------------------------------------------------------

EnrichInit ==
  /\ home \in [Processes -> Place \cup {Nowhere}] /\ moves = 0
  /\ objects = <<>>
  /\ criCache = [c \in Containers |-> 0] /\ cgroupMap = [g \in Cgroups |-> Nowhere]
  /\ criQueue = <<>> /\ k8sQueue = <<>>
  /\ poller = [at |-> "off", seen |-> Unseen, todo |-> {}, picked |-> Nowhere]
  /\ watcher = [at |-> "off", todo |-> {}]
  /\ criConsumer = [CRISelect EXCEPT !.at = "off"] /\ k8sConsumer = [K8sSelect EXCEPT !.at = "off"]
  /\ reaper = "off"
  /\ manager = "new" /\ cancelled = FALSE

Poller ==
  \/ ListContainers \/ RegisterNew \/ LookForGone \/ ScanEnds
  \/ \E p \in Processes : PickNew(p)
  \/ \E c \in Containers : UnregisterGone(c)
Watcher == WatchScan \/ WatchEnds \/ \E p \in Processes : ReportPod(p)
CRIConsumer == TakeCRIEvent \/ HandleCRIEvent
K8sConsumer == TakeK8sEvent \/ HandlePodAdded
Reaper == ReapPIDs \/ PruneCgroupMap

EnrichNext ==
  \/ StartEnrichment \/ StopBegins \/ StopEnds \/ Cancel
  \/ \E p \in Processes : Move(p)
  \/ Poller \/ Watcher \/ CRIConsumer \/ K8sConsumer \/ Reaper

(* Goroutines run, tickers tick and Stop goes on when it can; a consumer   *)
(* that is offered its end again and again takes it at some time, since    *)
(* select chooses at random.                                               *)
EnrichFairness ==
  /\ WF_enrichVars(Poller) /\ WF_enrichVars(Watcher) /\ WF_enrichVars(CRIConsumer)
  /\ WF_enrichVars(K8sConsumer) /\ WF_enrichVars(Reaper) /\ WF_enrichVars(StopEnds)
  /\ SF_enrichVars(TakeCRIEvent /\ criConsumer'.at = "done")
  /\ SF_enrichVars(TakeK8sEvent /\ k8sConsumer'.at = "done")
  /\ SF_enrichVars(ReapPIDs /\ reaper' = "done")
  /\ SF_enrichVars(WatchEnds /\ watcher'.at = "done")

EnrichSpec == EnrichInit /\ [][EnrichNext]_enrichVars /\ EnrichFairness

-----------------------------------------------------------------------------

(* Once the processes of the node rest, the registry comes to hold exactly *)
(* the containers that run, each with its pod metadata, although scans and *)
(* queued events register and unregister the same containers out of order, *)
(* PodAdded for an unregistered container is lost, and each registration   *)
(* starts without metadata (consumeCRIEvents, HandlePodAdded).             *)
RegistrySettles ==
  <>[](manager = "running" /\ ~cancelled) =>
    <>[](\A c \in Containers :
           IF c \in Inhabited THEN criCache[c] # 0 /\ objects[criCache[c]].pod ELSE criCache[c] = 0)

(* The objects of c that were found in g; and those found elsewhere.       *)
SeenIn(c, g) == {i \in 1..Len(objects) : objects[i].id = c /\ objects[i].cgroup = g}
SeenElsewhere(c, g) == {i \in 1..Len(objects) : objects[i].id = c /\ objects[i].cgroup # g}

(* A container that is registered is found by the cgroup it was registered *)
(* with last, unless another container was seen in the same, although the  *)
(* poller and late events register and unregister it in any order; and a   *)
(* cgroup that leads to a container no longer registered is left over from *)
(* one that was seen in several (RegisterContainer, UnregisterContainer):  *)
(* only these wait for the reaper.                                         *)
CgroupsLeadBack ==
  /\ \A c \in Containers : criCache[c] # 0 =>
       LET g == objects[criCache[c]].cgroup IN
       g = NoCgroup \/ cgroupMap[g] = c \/ \E d \in Containers \ {c} : SeenIn(d, g) # {}
  /\ \A g \in Cgroups : cgroupMap[g] # Nowhere =>
       /\ SeenIn(cgroupMap[g], g) # {}
       /\ criCache[cgroupMap[g]] = 0 => SeenElsewhere(cgroupMap[g], g) # {}

(* With the context cancelled, Stop returns, unless a consumer or the      *)
(* reaper has work in hand for which it needs the mutex that Stop keeps    *)
(* while it waits for them (Manager.Stop, RegisterContainer).              *)
EnrichmentStops ==
  manager = "stopping" /\ cancelled ~>
    \/ manager = "stopped"
    \/ criConsumer.at \in {"start", "stop"} \/ k8sConsumer.at = "added" \/ reaper = "prune"

(* container.go:143, "Stop gracefully stops the enrichment manager".       *)
StopCompletes == manager = "stopping" ~> manager = "stopped"
=============================================================================
