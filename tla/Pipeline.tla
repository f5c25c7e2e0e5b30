------------------------------ MODULE Pipeline ------------------------------
(***************************************************************************)
(* The life of the event pipeline (pkg/pipeline/pipeline.go): the agent    *)
(* goroutine starts it, and stops it on shutdown (pkg/agent/agent.go);     *)
(* workers take events from the loader's channel and carry each through    *)
(* the pipeline; the coalescer loop flushes; Agent.SetMode comes from an   *)
(* API goroutine.                                                          *)
(*                                                                         *)
(* Pipeline.mu is a sync.RWMutex: a writer that waits keeps new readers    *)
(* out.  A reader holds it only to copy a few fields, in one step here.    *)
(* Stop holds it until it returns.                                         *)
(***************************************************************************)
EXTENDS Coalescer, Integers, Sequences

CONSTANTS
  NumWorkers,   \* config.Workers
  ChanCap,      \* the capacity of the loader's event channel
  MaxSetModes   \* bound of the model: the calls of Agent.SetMode

(* The events are named as the alerts they may lead to.                    *)
Events == Alerts

Workers == 1 .. NumWorkers

ASSUME PipelineAssumption ==
  /\ Alerts # {}
  /\ NumWorkers \in Nat \ {0}
  /\ ChanCap \in Nat \ {0}
  /\ MaxSetModes \in Nat

Writers == {"agent", "api"}

WorkerSteps == {"new", "select", "route", "triage", "add", "emit", "enforce",
                "advise", "correlate", "suggest", "exited"}

AgentSteps == {"start", "run", "stop", "wait", "drain", "flush", "stopped"}

VARIABLES
  queue,        \* the loader's event channel
  unsent,       \* the events that the kernel has not delivered yet
  wpc,          \* wpc[w]: what worker w does next
  wev,          \* wev[w]: the event it works on, if it does
  loop,         \* the coalescer loop: "new", "wait", "flush" or "exited"
  agent,        \* the agent goroutine
  cancelled,    \* the pipeline's context is done
  stopCh,       \* stopCh is closed
  escalations,  \* graceful kills whose escalation goroutine has not ended
  writer,       \* who holds Pipeline.mu for writing ("none": nobody)
  pending,      \* who waits in Pipeline.mu.Lock
  setModes      \* how often Agent.SetMode was called

lockVars == <<writer, pending, setModes>>
agentVars == <<agent, cancelled, stopCh>>
workVars == <<queue, unsent, wpc, wev, escalations>>
pipelineVars == <<coalescerVars, lockVars, agentVars, workVars, loop>>

PipelineTypeOK ==
  /\ CoalescerTypeOK
  /\ queue \in Seq(Events) /\ Len(queue) <= ChanCap
  /\ unsent \subseteq Events
  /\ wpc \in [Workers -> WorkerSteps]
  /\ wev \in [Workers -> Events]
  /\ loop \in {"new", "wait", "flush", "exited"}
  /\ agent \in AgentSteps
  /\ cancelled \in BOOLEAN /\ stopCh \in BOOLEAN
  /\ escalations \subseteq Events
  /\ writer \in Writers \cup {"none"}
  /\ pending \subseteq Writers
  /\ setModes \in 0 .. MaxSetModes

Busy(w) == wpc[w] \notin {"new", "select", "exited"}

(* The worker waits for a read lock.                                       *)
Reading(w) == wpc[w] \in {"route", "triage", "advise", "correlate", "suggest"}

CanRead == writer = "none" /\ pending = {}
CanWrite == writer = "none"

Done == cancelled \/ stopCh

Goto(w, step) == wpc' = [wpc EXCEPT ![w] = step]

-----------------------------------------------------------------------------
(* The loader *)

(* A mutant: a full channel grows.                                         *)
DeliverUnbounded(e) ==
  /\ e \in unsent
  /\ unsent' = unsent \ {e}
  /\ queue' = Append(queue, e)
  /\ UNCHANGED <<coalescerVars, lockVars, agentVars, loop, wpc, wev, escalations>>

(* Loader.deliver never blocks: an event that finds the channel full is    *)
(* dropped.                                                                *)
Deliver(e) ==
  /\ e \in unsent
  /\ unsent' = unsent \ {e}
  /\ queue' = IF Len(queue) < ChanCap THEN Append(queue, e) ELSE queue
  /\ UNCHANGED <<coalescerVars, lockVars, agentVars, loop, wpc, wev, escalations>>

-----------------------------------------------------------------------------
(* Workers *)

(* select: of the cases that are ready Go takes any, so a worker may take  *)
(* another event when it could exit.                                       *)
TakeEvent(w) ==
  /\ wpc[w] = "select" /\ queue # <<>>
  /\ wev' = [wev EXCEPT ![w] = Head(queue)]
  /\ queue' = Tail(queue)
  /\ \E step \in {"route", "advise", "correlate"} : Goto(w, step)
  /\ UNCHANGED <<coalescerVars, lockVars, agentVars, loop, unsent, escalations>>

Leave(w) ==
  /\ wpc[w] = "select" /\ Done
  /\ Goto(w, "exited")
  /\ UNCHANGED <<coalescerVars, lockVars, agentVars, loop, queue, unsent, wev, escalations>>

(* The read sections: routeDecision takes the mode, then the triage        *)
(* settings; the outcome is an alert, an enforcement, or neither.          *)
(* processCorrelationSignal takes the correlator; when a correlation fires *)
(* an alert about it is emitted and emitCorrelationAlert takes the rule    *)
(* suggester, and so does emitAnomalyAlert ("advise") for an event that no *)
(* rule matched.                                                           *)
Read(w) ==
  /\ Reading(w) /\ CanRead
  /\ \E step \in CASE wpc[w] = "route"     -> {"triage"}
                   [] wpc[w] = "triage"    -> {"add", "enforce", "correlate"}
                   [] wpc[w] = "advise"    -> {"correlate"}
                   [] wpc[w] = "correlate" -> {"suggest", "select"}
                   [] wpc[w] = "suggest"   -> {"select"} :
       Goto(w, step)
  /\ UNCHANGED <<coalescerVars, lockVars, agentVars, loop, queue, unsent, wev, escalations>>

(* emitAlert: the alert joins a group, or opens one and is emitted.        *)
AddAlert(w) ==
  /\ wpc[w] = "add"
  /\ \/ Join(wev[w]) /\ Goto(w, "correlate")
     \/ Open(wev[w]) /\ Goto(w, "emit")
  /\ UNCHANGED <<lockVars, agentVars, loop, queue, unsent, wev, escalations>>

EmitAlert(w) ==
  /\ wpc[w] = "emit"
  /\ EmitFirst(wev[w])
  /\ Goto(w, "correlate")
  /\ UNCHANGED <<lockVars, agentVars, loop, queue, unsent, wev, escalations>>

(* executeEnforcement: Enforce may leave an escalation goroutine behind.   *)
Enforce(w) ==
  /\ wpc[w] = "enforce"
  /\ escalations' \in {escalations, escalations \cup {wev[w]}}
  /\ Goto(w, "correlate")
  /\ UNCHANGED <<coalescerVars, lockVars, agentVars, loop, queue, unsent, wev>>

(* The escalation goroutine sends SIGKILL, or finds the process gone.      *)
Escalate(e) ==
  /\ e \in escalations
  /\ escalations' = escalations \ {e}
  /\ UNCHANGED <<coalescerVars, lockVars, agentVars, loop, queue, unsent, wpc, wev>>

-----------------------------------------------------------------------------
(* The coalescer loop *)

LoopFlush ==
  /\ loop = "wait" /\ Take("loop")
  /\ loop' = "flush"
  /\ UNCHANGED <<lockVars, agentVars, workVars>>

LoopEmit ==
  /\ loop = "flush"
  /\ \/ /\ \E g \in batch["loop"] : EmitGroup("loop", g)
        /\ UNCHANGED loop
     \/ /\ batch["loop"] = {}
        /\ loop' = "wait"
        /\ UNCHANGED coalescerVars
  /\ UNCHANGED <<lockVars, agentVars, workVars>>

LoopLeave ==
  /\ loop = "wait" /\ Done
  /\ loop' = "exited"
  /\ UNCHANGED <<coalescerVars, lockVars, agentVars, workVars>>

-----------------------------------------------------------------------------
(* Start and Stop, called by the agent goroutine *)

(* Start: the coalescer loop first, then the workers, one by one.          *)
Start ==
  /\ agent = "start"
  /\ \/ /\ loop = "new"
        /\ loop' = "wait"
        /\ UNCHANGED wpc
     \/ /\ loop # "new"
        /\ \E w \in Workers :
             /\ wpc[w] = "new" /\ \A v \in 1 .. w - 1 : wpc[v] # "new"
             /\ Goto(w, "select")
        /\ UNCHANGED loop
  /\ agent' = IF \A w \in Workers : wpc'[w] # "new" THEN "run" ELSE "start"
  /\ UNCHANGED <<coalescerVars, lockVars, cancelled, stopCh, queue, unsent, wev, escalations>>

(* The caller of Agent.Start cancels the context.                          *)
CancelContext ==
  /\ ~cancelled
  /\ cancelled' = TRUE
  /\ UNCHANGED <<coalescerVars, lockVars, agent, stopCh, workVars, loop>>

(* runLoop returns, on a signal or because of the context; its deferred    *)
(* pipelineCancel runs, and shutdown calls Pipeline.Stop.                  *)
Shutdown ==
  /\ agent = "run"
  /\ agent' = "stop"
  /\ cancelled' = TRUE
  /\ pending' = pending \cup {"agent"}
  /\ UNCHANGED <<coalescerVars, writer, setModes, stopCh, workVars, loop>>

(* Stop takes the lock, for as long as it runs, and closes stopCh.         *)
StopLocks ==
  /\ agent = "stop" /\ CanWrite
  /\ agent' = "wait"
  /\ writer' = "agent"
  /\ pending' = pending \ {"agent"}
  /\ stopCh' = TRUE
  /\ UNCHANGED <<coalescerVars, setModes, cancelled, workVars, loop>>

(* Mutants: Stop does not wait for the workers; it waits for the channel   *)
(* to drain as well.                                                       *)
StopJoinsLoop ==
  /\ agent = "wait"
  /\ loop = "exited"
  /\ agent' = "drain"
  /\ UNCHANGED <<coalescerVars, lockVars, cancelled, stopCh, workVars, loop>>

StopJoinsDrained ==
  /\ agent = "wait"
  /\ loop = "exited" /\ \A w \in Workers : wpc[w] = "exited"
  /\ queue = <<>>
  /\ agent' = "drain"
  /\ UNCHANGED <<coalescerVars, lockVars, cancelled, stopCh, workVars, loop>>

(* wg.Wait.                                                                *)
StopJoins ==
  /\ agent = "wait"
  /\ loop = "exited" /\ \A w \in Workers : wpc[w] = "exited"
  /\ agent' = "drain"
  /\ UNCHANGED <<coalescerVars, lockVars, cancelled, stopCh, workVars, loop>>

(* ResponseActor.Stop waits for the escalations; then the last Flush       *)
(* takes the groups.                                                       *)
StopDrains ==
  /\ agent = "drain" /\ escalations = {}
  /\ Take("stop")
  /\ agent' = "flush"
  /\ UNCHANGED <<lockVars, cancelled, stopCh, workVars, loop>>

(* A mutant: Stop returns without giving the lock back.                    *)
StopFlushesLocked ==
  /\ agent = "flush"
  /\ \/ /\ \E g \in batch["stop"] : EmitGroup("stop", g)
        /\ UNCHANGED agent
     \/ /\ batch["stop"] = {}
        /\ agent' = "stopped"
        /\ UNCHANGED coalescerVars
  /\ UNCHANGED <<lockVars, cancelled, stopCh, workVars, loop>>

(* The last Flush emits; then Stop returns, and gives back the lock.       *)
StopFlushes ==
  /\ agent = "flush"
  /\ \/ /\ \E g \in batch["stop"] : EmitGroup("stop", g)
        /\ UNCHANGED <<agent, writer>>
     \/ /\ batch["stop"] = {}
        /\ agent' = "stopped"
        /\ writer' = "none"
        /\ UNCHANGED coalescerVars
  /\ UNCHANGED <<cancelled, stopCh, pending, setModes, workVars, loop>>

-----------------------------------------------------------------------------
(* Agent.SetMode, in an API goroutine *)

SetModeCalled ==
  /\ "api" \notin pending /\ writer # "api" /\ setModes < MaxSetModes
  /\ pending' = pending \cup {"api"}
  /\ setModes' = setModes + 1
  /\ UNCHANGED <<coalescerVars, writer, agentVars, workVars, loop>>

SetModeLocks ==
  /\ "api" \in pending /\ CanWrite
  /\ writer' = "api"
  /\ pending' = pending \ {"api"}
  /\ UNCHANGED <<coalescerVars, setModes, agentVars, workVars, loop>>

(* A mutant: SetMode returns without giving the lock back.                 *)
SetModeReturnsLocked == writer = "api" /\ UNCHANGED pipelineVars

SetModeReturns ==
  /\ writer = "api"
  /\ writer' = "none"
  /\ UNCHANGED <<coalescerVars, pending, setModes, agentVars, workVars, loop>>

-----------------------------------------------------------------------------

PipelineInit ==
  /\ CoalescerInit
  /\ queue = <<>>
  /\ unsent = Events
  /\ wpc = [w \in Workers |-> "new"]
  /\ wev = [w \in Workers |-> CHOOSE e \in Events : TRUE]
  /\ loop = "new"
  /\ agent = "start"
  /\ cancelled = FALSE /\ stopCh = FALSE
  /\ escalations = {}
  /\ writer = "none" /\ pending = {} /\ setModes = 0

WorkerStep(w) ==
  TakeEvent(w) \/ Leave(w) \/ Read(w) \/ AddAlert(w) \/ EmitAlert(w) \/ Enforce(w)

LoopStep == LoopFlush \/ LoopEmit \/ LoopLeave

StopStep == StopLocks \/ StopJoins \/ StopDrains \/ StopFlushes

SetModeStep == SetModeLocks \/ SetModeReturns

PipelineNext ==
  \/ \E e \in Events : Deliver(e) \/ Escalate(e)
  \/ \E w \in Workers : WorkerStep(w)
  \/ LoopStep
  \/ Start \/ CancelContext \/ Shutdown \/ StopStep
  \/ SetModeCalled \/ SetModeStep

PipelineSpec == PipelineInit /\ [][PipelineNext]_pipelineVars

(* Every goroutine that can run does.  A select whose context or stop case *)
(* stays ready takes it some time; the loop between two ticks too.         *)
PipelineFairness ==
  /\ \A w \in Workers : WF_pipelineVars(WorkerStep(w)) /\ SF_pipelineVars(Leave(w))
  /\ \A e \in Events : WF_pipelineVars(Escalate(e))
  /\ WF_pipelineVars(LoopEmit) /\ SF_pipelineVars(LoopLeave)
  /\ WF_pipelineVars(StopStep)
  /\ WF_pipelineVars(SetModeStep)

FairPipelineSpec == PipelineSpec /\ PipelineFairness

-----------------------------------------------------------------------------
(* Properties *)

(* When Stop has returned nothing of the pipeline is alive: no worker, no  *)
(* flush and no escalation can touch a process or an alert any more, and   *)
(* every alert that was coalesced has been handed to the emitter (Stop).   *)
QuietAfterStop ==
  agent = "stopped" =>
    /\ \A w \in Workers : wpc[w] = "exited"
    /\ loop = "exited" /\ escalations = {}
    /\ owed = {}
    /\ \A a \in added : \E r \in emitted : r.by = "flush" /\ a \in r.members

(* A worker is carrying an event to its end, or is held up by a Stop in    *)
(* progress that waits for it; nothing else can hold it up for ever.       *)
WorkersHeldOnlyByStop ==
  \A w \in Workers :
    Busy(w) ~> ~Busy(w) \/ (Reading(w) /\ writer = "agent" /\ agent = "wait")

(* Stop returns, or it waits for ever for a worker that waits for the lock *)
(* it holds: nothing else can keep it.                                     *)
StopReturnsOrDeadlocks ==
  agent = "stop" ~> \/ agent = "stopped"
                    \/ agent = "wait" /\ \E w \in Workers : Reading(w)

(* SetMode returns, unless a Stop in progress holds the lock.              *)
SetModeReturnsUnlessStopping ==
  "api" \in pending ~> "api" \notin pending \/ (writer = "agent" /\ agent = "wait")

(* pipeline.go:259: "Stop gracefully stops the pipeline."                  *)
StopReturns == agent = "stop" ~> agent = "stopped"
=============================================================================
