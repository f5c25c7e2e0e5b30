---------------------------- MODULE Enforcement ----------------------------
(***************************************************************************)
(* The enforcement path: Pipeline.routeDecision decides what to do with a  *)
(* rule match, ResponseActor.Enforce applies the 7-rule safety protocol    *)
(* and signals the process (pkg/pipeline/pipeline.go, response.go,         *)
(* enforcement_log.go).  Pipeline workers run it concurrently, while the   *)
(* operator and the policy watcher change the mode and while the kernel    *)
(* ends processes and gives their PIDs to new ones.                        *)
(*                                                                         *)
(* A job is one rule match handed to routeDecision.  It has two threads:   *)
(* "enforce", the worker that runs Enforce, and "escalate", the goroutine  *)
(* that a graceful kill leaves behind.  Each step of a thread ends where   *)
(* the code takes or releases a lock, makes a system call or sleeps.       *)
(***************************************************************************)
EXTENDS RateLimiter

CONSTANTS
  Workers,      \* config.Workers: how many jobs run at once
  Events,       \* the enriched events that may come with a match
  Namespaces,   \* Kubernetes namespaces, NoNamespace among them
  NoNamespace,  \* the empty namespace
  Protected,    \* config.ProtectedNamespaces
  Labels,       \* Labels[n]: the namespaces that enrichment may report for a
                \* process of namespace n
  Pids,         \* process ids
  Untouchable,  \* PIDs 0 and 1
  Agent,        \* the agent's own PID
  PolicyModes,  \* the modes of the ScarletPolicy objects that may be applied
  Running0,     \* the processes that may be running when the agent starts
  MaxGen        \* bound of the model: how often a PID is given out again

Jobs == Requests

Modes == {"audit", "enforce", "simulate"}
Actions == {"alert", "enforce", "simulate", "suppress"}

Event ==
  [pid : Pids, ppid : Pids, ns : Namespaces, key : Keys,
   attributed : BOOLEAN, action : Actions]

Process == [gen : 0 .. MaxGen, st : {"alive", "zombie", "gone"}, ns : Namespaces]

ASSUME EnforcementAssumption ==
  /\ Events \subseteq Event /\ Events # {}
  /\ NoNamespace \in Namespaces
  /\ Protected \subseteq Namespaces \ {NoNamespace}
  /\ Labels \in [Namespaces -> SUBSET Namespaces]
  /\ Untouchable \subseteq Pids /\ Agent \in Pids
  /\ Workers \in Nat \ {0}
  /\ MaxGen \in Nat
  /\ PolicyModes \subseteq Modes
  /\ Running0 \subseteq [Pids -> {p \in Process : p.gen = 0 /\ p.st = "alive"}]

Threads == {"enforce", "escalate"}

Steps == {"idle", "route", "gate", "allow", "term", "kill", "confirm",
          "record", "grace", "done"}

Reasons == {"none", "no_container_id", "simulate_mode", "protected_namespace",
            "init_process", "self_preservation", "rate_limited",
            "no_namespace_scope", "sigterm_delivered", "killed",
            "kill_failed"}

VARIABLES
  pmode,      \* Pipeline.mode
  rmode,      \* ResponseActor.mode
  setting,    \* SetMode in progress: the mode it is about to give the
              \* response actor, holding Pipeline.mu ("none": not in progress)
  graceful,   \* config.Mode = graceful
  pc,         \* pc[t][j]: what thread t of job j does next
  event,      \* event[j]: the event of job j, once it is submitted
  reason,     \* reason[t][j]: result.Reason of that thread
  audit,      \* the records of the enforcement audit log
  proc,       \* proc[p]: the process that has PID p
  seen,       \* history: the generation of the PID that job j's event is attributed to
  hits,       \* history: hits[t][j] are the processes that thread has signalled
  enforcing   \* history: Pipeline.mode was "enforce" at some time since job j began

jobVars == <<pc, event, reason, audit, seen, hits>>
vars == <<rateVars, pmode, rmode, setting, graceful, jobVars, proc, enforcing>>

Hit == [sig : {"TERM", "KILL"}, gen : 0 .. MaxGen, ns : Namespaces]
AuditRecord == [by : Threads, job : Jobs, reason : Reasons]

(* Every variable holds a value of its kind.                               *)
TypeOK ==
  /\ RateTypeOK
  /\ pmode \in Modes /\ rmode \in Modes
  /\ setting \in Modes \cup {"none"}
  /\ graceful \in BOOLEAN
  /\ pc \in [Threads -> [Jobs -> Steps]]
  /\ event \in [Jobs -> Events]
  /\ reason \in [Threads -> [Jobs -> Reasons]]
  /\ audit \subseteq AuditRecord
  /\ proc \in [Pids -> Process]
  /\ seen \in [Jobs -> 0 .. MaxGen]
  /\ hits \in [Threads -> [Jobs -> SUBSET Hit]]
  /\ enforcing \in [Jobs -> BOOLEAN]

Pid(j) == event[j].pid
Running == {j \in Jobs : pc["enforce"][j] \notin {"idle", "done"}}

-----------------------------------------------------------------------------
(* routeDecision *)

(* A mutant: audit mode enforces like enforce mode.                        *)
RoutedInAudit(e, mode) ==
  CASE e.action # "enforce"  -> e.action
    [] ~e.attributed         -> "alert"
    [] mode = "simulate"     -> "simulate"
    [] OTHER                 -> "enforce"

(* The action that routeDecision derives from the match and the mode.      *)
Routed(e, mode) ==
  CASE e.action # "enforce"  -> e.action
    [] ~e.attributed         -> "alert"
    [] mode = "audit"        -> "alert"
    [] mode = "simulate"     -> "simulate"
    [] OTHER                 -> "enforce"

(* A worker takes a matched event.  Enrichment attributes it to the        *)
(* process that has the PID, or to one that had it before, of whatever     *)
(* namespace: the cgroup ID of the event names the process that caused it, *)
(* and the PID cache answers by PID alone until its entry expires.         *)
Submit(j) ==
  /\ pc["enforce"][j] = "idle"
  /\ Cardinality(Running) < Workers
  /\ \E e \in Events : \E from \in 0 .. proc[e.pid].gen :
       /\ from = proc[e.pid].gen => e.ns \in Labels[proc[e.pid].ns]
       /\ event' = [event EXCEPT ![j] = e]
       /\ seen' = [seen EXCEPT ![j] = from]
  /\ pc' = [pc EXCEPT !["enforce"][j] = "route"]
  /\ enforcing' = [enforcing EXCEPT ![j] = (pmode = "enforce")]
  /\ UNCHANGED <<rateVars, pmode, rmode, setting, graceful, reason, audit, proc, hits>>

(* routeDecision reads the mode under Pipeline.mu, which SetMode holds     *)
(* while it is in progress.  AI triage is advisory: it may suppress any    *)
(* action (the job is then done) and upgrade none.                         *)
Route(j) ==
  /\ pc["enforce"][j] = "route"
  /\ setting = "none"
  /\ \E step \in {"gate", "done"} :
       /\ step = "gate" => Routed(event[j], pmode) = "enforce"
       /\ pc' = [pc EXCEPT !["enforce"][j] = step]
  /\ UNCHANGED <<rateVars, pmode, rmode, setting, graceful, event, reason, audit,
                 proc, seen, hits, enforcing>>

-----------------------------------------------------------------------------
(* Enforce: the safety protocol *)

(* Mutants of Refusal: the parent PID is not looked at; namespaces are not *)
(* protected; the mode is not looked at.                                   *)
RefusalButChildren(e, mode) ==
  CASE ~e.attributed                        -> "no_container_id"
    [] mode = "simulate"                    -> "simulate_mode"
    [] e.ns \in Protected                   -> "protected_namespace"
    [] e.pid \in Untouchable                -> "init_process"
    [] e.pid = Agent                        -> "self_preservation"
    [] OTHER                                -> "none"

RefusalButNamespaces(e, mode) ==
  CASE ~e.attributed                        -> "no_container_id"
    [] mode = "simulate"                    -> "simulate_mode"
    [] e.pid \in Untouchable                -> "init_process"
    [] e.pid = Agent \/ e.ppid = Agent      -> "self_preservation"
    [] OTHER                                -> "none"

RefusalInAnyMode(e, mode) ==
  CASE ~e.attributed                        -> "no_container_id"
    [] e.ns \in Protected                   -> "protected_namespace"
    [] e.pid \in Untouchable                -> "init_process"
    [] e.pid = Agent \/ e.ppid = Agent      -> "self_preservation"
    [] OTHER                                -> "none"

(* Rules 1 to 5, in the code's order: why the job is refused, or "none".   *)
Refusal(e, mode) ==
  CASE ~e.attributed                        -> "no_container_id"
    [] mode = "simulate"                    -> "simulate_mode"
    [] e.ns \in Protected                   -> "protected_namespace"
    [] e.pid \in Untouchable                -> "init_process"
    [] e.pid = Agent \/ e.ppid = Agent      -> "self_preservation"
    [] OTHER                                -> "none"

Gate(j) ==
  LET why == Refusal(event[j], rmode) IN
  /\ pc["enforce"][j] = "gate"
  /\ reason' = [reason EXCEPT !["enforce"][j] = why]
  /\ pc' = [pc EXCEPT !["enforce"][j] = IF why = "none" THEN "allow" ELSE "record"]
  /\ UNCHANGED <<rateVars, pmode, rmode, setting, graceful, event, audit, proc,
                 seen, hits, enforcing>>

(* Rule 6 refuses the job.                                                 *)
RateLimited(j) ==
  /\ pc["enforce"][j] = "allow"
  /\ ~WithinBudget(event[j].key)
  /\ reason' = [reason EXCEPT !["enforce"][j] = "rate_limited"]
  /\ pc' = [pc EXCEPT !["enforce"][j] = "record"]
  /\ UNCHANGED <<rateVars, pmode, rmode, setting, graceful, event, audit, proc,
                 seen, hits, enforcing>>

(* Rule 6 lets the job pass and spends one kill of the pod's budget; rule  *)
(* 7 may still refuse it.                                                  *)
Permit(j) ==
  LET unscoped == event[j].ns = NoNamespace IN
  /\ pc["enforce"][j] = "allow"
  /\ Allow(j, event[j].key)
  /\ reason' = [reason EXCEPT !["enforce"][j] = IF unscoped THEN "no_namespace_scope" ELSE "none"]
  /\ pc' = [pc EXCEPT !["enforce"][j] =
              IF unscoped THEN "record" ELSE IF graceful THEN "term" ELSE "kill"]
  /\ UNCHANGED <<pmode, rmode, setting, graceful, event, audit, proc, seen, hits,
                 enforcing>>

-----------------------------------------------------------------------------
(* Enforce: signals *)

Exists(p) == proc[p].st # "gone"

(* The process that has PID p changes its state.                           *)
Becomes(p, st) ==
  proc' = [proc EXCEPT ![p] = [gen |-> proc[p].gen, st |-> st, ns |-> proc[p].ns]]

Deliver(t, j, sig) ==
  hits' = [hits EXCEPT ![t][j] = @ \cup
             {[sig |-> sig, gen |-> proc[Pid(j)].gen, ns |-> proc[Pid(j)].ns]}]

(* executeGracefulKill: SIGTERM; when it is delivered the escalation       *)
(* goroutine is started, when it is not SIGKILL follows at once.           *)
Term(j) ==
  /\ pc["enforce"][j] = "term"
  /\ \/ /\ Exists(event[j].pid)
        /\ Deliver("enforce", j, "TERM")
        /\ reason' = [reason EXCEPT !["enforce"][j] = "sigterm_delivered"]
        /\ pc' = [pc EXCEPT !["enforce"][j] = "record", !["escalate"][j] = "grace"]
     \/ /\ ~Exists(event[j].pid)
        /\ pc' = [pc EXCEPT !["enforce"][j] = "kill"]
        /\ UNCHANGED <<hits, reason>>
  /\ UNCHANGED <<rateVars, pmode, rmode, setting, graceful, event, audit, proc, seen,
                 enforcing>>

(* A mutant: the probe's answer is read the wrong way round.               *)
WakeInverted(j) ==
  /\ pc["escalate"][j] = "grace"
  /\ pc' = [pc EXCEPT !["escalate"][j] = IF Exists(event[j].pid) THEN "done" ELSE "kill"]
  /\ UNCHANGED <<rateVars, pmode, rmode, setting, graceful, event, reason, audit,
                 proc, seen, hits, enforcing>>

(* The escalation wakes after the grace period and probes the PID: gone,   *)
(* it returns without a record; still there, it goes on to SIGKILL.        *)
Wake(j) ==
  /\ pc["escalate"][j] = "grace"
  /\ pc' = [pc EXCEPT !["escalate"][j] = IF Exists(event[j].pid) THEN "kill" ELSE "done"]
  /\ UNCHANGED <<rateVars, pmode, rmode, setting, graceful, event, reason, audit,
                 proc, seen, hits, enforcing>>

(* sendSIGKILL, first half: the signal.  The process dies and stays a      *)
(* zombie until its parent reaps it.                                       *)
Kill(t, j) ==
  /\ pc[t][j] = "kill"
  /\ \/ /\ Exists(Pid(j))
        /\ Deliver(t, j, "KILL")
        /\ Becomes(Pid(j), "zombie")
        /\ pc' = [pc EXCEPT ![t][j] = "confirm"]
        /\ UNCHANGED reason
     \/ /\ ~Exists(Pid(j))
        /\ reason' = [reason EXCEPT ![t][j] = "kill_failed"]
        /\ pc' = [pc EXCEPT ![t][j] = "record"]
        /\ UNCHANGED <<hits, proc>>
  /\ UNCHANGED <<rateVars, pmode, rmode, setting, graceful, event, audit, seen, enforcing>>

(* Mutants: a kill is taken for granted; an escalation is not recorded.    *)
ConfirmBlindly(t, j) ==
  /\ pc[t][j] = "confirm"
  /\ reason' = [reason EXCEPT ![t][j] = "killed"]
  /\ pc' = [pc EXCEPT ![t][j] = "record"]
  /\ UNCHANGED <<rateVars, pmode, rmode, setting, graceful, event, audit, proc, seen,
                 hits, enforcing>>

ConfirmUnrecorded(t, j) ==
  /\ pc[t][j] = "confirm"
  /\ reason' = [reason EXCEPT ![t][j] = IF Exists(Pid(j)) THEN "kill_failed" ELSE "killed"]
  /\ pc' = [pc EXCEPT ![t][j] = IF t = "escalate" THEN "done" ELSE "record"]
  /\ UNCHANGED <<rateVars, pmode, rmode, setting, graceful, event, audit, proc, seen,
                 hits, enforcing>>

(* sendSIGKILL, second half, 10 ms later: a PID that still exists, as a    *)
(* zombie or as another process, counts as a failed kill.                  *)
Confirm(t, j) ==
  /\ pc[t][j] = "confirm"
  /\ reason' = [reason EXCEPT ![t][j] = IF Exists(Pid(j)) THEN "kill_failed" ELSE "killed"]
  /\ pc' = [pc EXCEPT ![t][j] = "record"]
  /\ UNCHANGED <<rateVars, pmode, rmode, setting, graceful, event, audit, proc, seen,
                 hits, enforcing>>

(* auditLog.Record, for the call of Enforce and for the escalation.        *)
Record(t, j) ==
  /\ pc[t][j] = "record"
  /\ audit' = audit \cup {[by |-> t, job |-> j, reason |-> reason[t][j]]}
  /\ pc' = [pc EXCEPT ![t][j] = "done"]
  /\ UNCHANGED <<rateVars, pmode, rmode, setting, graceful, event, reason, proc, seen,
                 hits, enforcing>>

-----------------------------------------------------------------------------
(* Mode changes *)

(* Pipeline.SetMode, under Pipeline.mu: its own mode first, ...            *)
SetMode(m) ==
  /\ setting = "none" /\ m # pmode
  /\ setting' = m
  /\ pmode' = m
  /\ enforcing' = [j \in Jobs |-> enforcing[j] \/ m = "enforce"]
  /\ UNCHANGED <<rateVars, rmode, graceful, jobVars, proc>>

(* ... then the response actor's, under the actor's mutex.                 *)
SetModeOfActor ==
  /\ setting # "none"
  /\ rmode' = setting
  /\ setting' = "none"
  /\ UNCHANGED <<rateVars, pmode, graceful, jobVars, proc, enforcing>>

(* PolicyWatcher.ApplyPolicy sets the response actor's mode alone.         *)
ApplyPolicy(m) ==
  /\ m # rmode
  /\ rmode' = m
  /\ UNCHANGED <<rateVars, pmode, setting, graceful, jobVars, proc, enforcing>>

-----------------------------------------------------------------------------
(* The kernel *)

(* A process ends by itself, or because it obeys SIGTERM.                  *)
Exit(p) ==
  /\ proc[p].st = "alive" /\ p \notin Untouchable \cup {Agent}
  /\ Becomes(p, "zombie")
  /\ UNCHANGED <<rateVars, pmode, rmode, setting, graceful, jobVars, enforcing>>

Reap(p) ==
  /\ proc[p].st = "zombie"
  /\ Becomes(p, "gone")
  /\ UNCHANGED <<rateVars, pmode, rmode, setting, graceful, jobVars, enforcing>>

(* The PID is given to a new process, of any pod or of none.               *)
Spawn(p) ==
  /\ proc[p].st = "gone" /\ proc[p].gen < MaxGen
  /\ \E ns \in Namespaces :
       proc' = [proc EXCEPT ![p] = [gen |-> @.gen + 1, st |-> "alive", ns |-> ns]]
  /\ UNCHANGED <<rateVars, pmode, rmode, setting, graceful, jobVars, enforcing>>

(* The limiter's cleanup and the clock.                                    *)
Elapse ==
  /\ Cleanup \/ Tick
  /\ UNCHANGED <<pmode, rmode, setting, graceful, jobVars, proc, enforcing>>

-----------------------------------------------------------------------------

Init ==
  /\ RateInit
  /\ pmode \in Modes /\ rmode = pmode
  /\ setting = "none"
  /\ graceful \in BOOLEAN
  /\ pc = [t \in Threads |-> [j \in Jobs |-> "idle"]]
  /\ event = [j \in Jobs |-> CHOOSE e \in Events : TRUE]
  /\ reason = [t \in Threads |-> [j \in Jobs |-> "none"]]
  /\ audit = {}
  /\ proc \in Running0
  /\ seen = [j \in Jobs |-> 0]
  /\ hits = [t \in Threads |-> [j \in Jobs |-> {}]]
  /\ enforcing = [j \in Jobs |-> FALSE]

JobStep(j) ==
  \/ Route(j) \/ Gate(j) \/ RateLimited(j) \/ Permit(j) \/ Term(j) \/ Wake(j)
  \/ \E t \in Threads : Kill(t, j) \/ Confirm(t, j) \/ Record(t, j)

Kernel == \E p \in Pids : Exit(p) \/ Reap(p) \/ Spawn(p)

Next ==
  \/ \E j \in Jobs : Submit(j) \/ JobStep(j)
  \/ \E m \in Modes : SetMode(m)
  \/ \E m \in PolicyModes : ApplyPolicy(m)
  \/ SetModeOfActor
  \/ Kernel
  \/ Elapse

Spec == Init /\ [][Next]_vars

(* Goroutines that can run do run, and a SetMode that has begun ends.      *)
EnforcementFairness ==
  /\ \A j \in Jobs : WF_vars(JobStep(j))
  /\ WF_vars(SetModeOfActor)

FairSpec == Spec /\ EnforcementFairness

-----------------------------------------------------------------------------
(* Properties *)

(* Every rule of the protocol lets e through.                              *)
Cleared(e) ==
  /\ e.attributed /\ e.action = "enforce"
  /\ e.ns \notin Protected
  /\ e.pid \notin Untouchable \cup {Agent} /\ e.ppid # Agent

(* The 7-rule protocol, end to end: whatever the interleaving, a job that  *)
(* has signalled a process, at once or after the grace period, has an      *)
(* event that every rule lets through, and it spent a grant of its pod's   *)
(* budget (Enforce).                                                       *)
SafetyProtocol ==
  \A t \in Threads, j \in Jobs : hits[t][j] # {} =>
    /\ Cleared(event[j])
    /\ event[j].ns # NoNamespace
    /\ \E g \in grants : g.req = j /\ g.key = event[j].key

(* No job signals unless the pipeline was in enforce mode at some moment   *)
(* of the job: neither a policy that sets the response actor's mode alone  *)
(* nor a mode change halfway turns an audit decision into a kill.          *)
NeverOutsideEnforce ==
  \A t \in Threads, j \in Jobs : hits[t][j] # {} => enforcing[j]

(* Rules 3 and 7 judge the event, kill(2) hits whoever has the PID now.    *)
(* Where enrichment can only report a protected namespace, or none, a      *)
(* process is signalled only if its PID belonged to another process when   *)
(* the event was attributed: by PID reuse, in the agent's caches or before *)
(* the signal.  Wrong labels are the one other way to a wrong victim.      *)
WrongVictimOnlyByReuse ==
  \A t \in Threads, j \in Jobs : \A h \in hits[t][j] :
    Labels[h.ns] \subseteq Protected \cup {NoNamespace} => h.gen # seen[j]

(* A record that says "killed" tells the truth, then and ever after: the   *)
(* process that was signalled does not exist any more (sendSIGKILL).       *)
KilledIsGone ==
  \A a \in audit : a.reason = "killed" =>
    /\ hits[a.by][a.job] # {}
    /\ \A h \in hits[a.by][a.job] :
         LET p == proc[Pid(a.job)] IN p.gen = h.gen => p.st = "gone"

(* Every call of Enforce is recorded once, and so is every escalation that *)
(* sent SIGKILL: a signal without a record belongs to a thread that is     *)
(* about to write it, and no thread that signalled is recorded as refused. *)
EverySignalAudited ==
  \A t \in Threads, j \in Jobs :
    LET mine == {a \in audit : a.by = t /\ a.job = j} IN
    /\ \A a, b \in mine : a = b
    /\ hits[t][j] # {} /\ mine = {} => pc[t][j] \in {"confirm", "record"}
    /\ hits[t][j] # {} =>
         \A a \in mine : a.reason \in {"sigterm_delivered", "killed", "kill_failed"}

(* The jobs that may still deliver a signal.                               *)
InFlight ==
  {j \in Jobs : \/ pc["enforce"][j] \in {"allow", "term", "kill"}
                \/ pc["escalate"][j] \in {"grace", "kill"}}

(* What simulate mode does guarantee: from the moment the response actor   *)
(* is in it no job is admitted; the signals that still come are those of   *)
(* the jobs that were past rule 2 already.                                 *)
SimulateDrains == [][rmode = "simulate" => InFlight' \subseteq InFlight]_vars

(* A process that got SIGTERM does not survive: it exits, or the           *)
(* escalation kills it, whatever the modes do meanwhile.                   *)
TermIsFinal ==
  \A j \in Jobs :
    (\E h \in hits["enforce"][j] : h.sig = "TERM")
      ~> \A h \in hits["enforce"][j] :
           proc[Pid(j)].gen = h.gen => proc[Pid(j)].st # "alive"

(* README.md, Enforcement Safety, rule 2: "simulate mode never delivers    *)
(* signals".                                                               *)
SimulateNeverSignals ==
  [][rmode = "simulate" => UNCHANGED hits]_vars
=============================================================================
