# TLA+ models of SecurityScarlet Runtime

SecurityScarlet Runtime is an agent that runs on every node of a cluster. eBPF
probes report what processes do, the agent attributes each event to a container,
matches it against rules, and alerts, kills the process, or blocks its network
destination. This directory holds TLA+ models of the parts whose correctness
depends on the order in which things happen, the TLC configurations that check
them on small instances, and proofs for every instance.

Paths below are relative to `src/pkg/`.

## 1. The system

| Component | State it keeps | Operations | Talks to |
| --- | --- | --- | --- |
| Enforcement path (`pipeline/pipeline.go` routeDecision, `pipeline/response.go`, `pipeline/enforcement_log.go`) | the pipeline's mode and the actor's mode, the kill counters of each pod, the audit log, one goroutine for each graceful kill | Enforce, SetMode, Allow, cleanup, Record | the kernel (`kill(2)`), pipeline workers, policy watcher |
| Pipeline (`pipeline/pipeline.go`, `agent/agent.go`) | `mu`, `running`, `stopCh`, its goroutines | Start, Stop, SetMode, workers, coalescer loop | every other component |
| Coalescer (`pipeline/coalescer.go`) | open groups of alerts | Add, Flush | workers, alert output |
| Correlator (`correlate/correlate.go`) | rules, windows | ProcessSignal, AddRule, RemoveRule, purge | workers |
| Network enforcer (`enforcement/network.go`, `ebpf/tc_loader.go`, `ebpf/probes/network_tc.bpf.c`) | the blocklist with TTLs, its copy in a kernel map | Block, Unblock, IsBlocked, expiry | workers, policies, kernel |
| Alert output (`output/alert.go`, `output/webhook.go`) | sinks, circuit breakers, a semaphore | Emit, Send, AddSink, RemoveSink, Close | workers, coalescer, HTTP |
| Enrichment (`enrichment/`) | PID cache, cgroup map, container cache, pod cache | ResolveContainerID, Register, Unregister, pod events, Stop | workers, container runtime, Kubernetes |
| Rule engine (`rules/`) | rules, buckets by event type | Evaluate, Reload | workers |
| Loader and filter (`ebpf/loader.go`, `ebpf/filter.go`) | the event channel (2048), filter counters | deliver, Stop | kernel, workers |
| Policy watcher (`crd/types.go`) | policies | ApplyPolicy, file and API watch | response actor, network enforcer |
| AI connector and anomaly scores (`ai/`) | traces, baselines | TriageAlert, SuggestRule, ScoreAnomaly | workers |
| Agent, command line, metrics (`agent/`, `cli/`, `output/metrics.go`) | status, mode | Start, shutdown, SetMode | all |

What is hard about it:

* **Concurrency.** Workers, the coalescer loop, escalation goroutines, the signal
  handler and API callers share a few `RWMutex`es. The mode is copied under a lock
  and acted on after it; `Stop` waits for goroutines with a lock held.
* **The kernel moves on.** An event describes a process of the past. By the time
  of the signal it may be a zombie, gone, or another process with its PID, and the
  PID cache of enrichment may still name the earlier one.
* **Time.** Kill budgets, coalescing, correlation windows, TTLs, grace periods and
  circuit breakers run on the same clock as the events that race them.
* **Bounded tables and channels.** Events are dropped, windows evicted.

### What makes each component correct

* Enforcement: nothing is signalled that a rule of the safety protocol refuses,
  outside enforce mode, or beyond the pod's budget; a graceful kill ends; the audit
  log tells the truth.
* Pipeline: `Stop` and `SetMode` return; after `Stop` nothing runs and no alert is
  left behind.
* Coalescer: no alert is lost, none is counted twice, one record for a group.
* Correlator: fires on evidence within the window, once, and whenever it should.
* Network enforcer: the kernel blocks exactly what the list says, until the TTL.
* Alert output: the circuit opens, probes and closes; no sink is skipped or served
  twice; no alert waits for a slot for ever.
* Enrichment: the registry comes to hold what runs; the lists of the caches hold what their
  maps hold; `Stop` returns.
* Rule engine: a condition means what it says; the most severe match wins; no rule
  misses an event by the index or by a rule set that is being loaded.
* Loader: its calls return, whatever the readers and the map updates do.

## 2. Plan

Modules, most important behaviour first. All of them exist.

1. `RateLimiter`, `Enforcement`: the path that kills.
2. `Coalescer`, `Pipeline` (extends it): lifecycle and locks.
3. `Correlator`.
4. `NetworkBlock`: the userspace list, the kernel map beside it, the verdicts of both,
   expiry, calls that the kernel refuses; its read lock taken twice.
5. `CircuitBreaker` (abstract), `WebhookSink` (implements it), `AlertOutput` (extends
   it): concurrent sends, the manager's slots and its slice of sinks.
6. `Enrichment`, `LinkedCache`: the registry under container churn, late events and pod
   metadata, `Stop`; the two linked lists.
7. `RuleEngine`, `Conditions`, `RuleCatalog`: `Evaluate` beside `Reload`, what conditions
   mean, what the built-in rules find.
8. `Loader`.
9. `Detection`: the correlator, the engine and the delivery side by side.

Proofs exist for all of them but `Conditions` and `RuleCatalog`. What is left, in this
order: the policy files of `crd/types.go`, once the agent applies them; the rules of
`ebpf/filter.go`, a free choice today; the exceptions of `pipeline/exceptions.go`.

## 3. Modules

| Module | Models | Extends |
| --- | --- | --- |
| `RateLimiter` | `RateLimiter.Allow`, `cleanup` | |
| `Enforcement` | `routeDecision`, `Enforce`, the two kill modes, the escalation, the audit log, both `SetMode`s, `ApplyPolicy`'s mode change; processes | `RateLimiter` |
| `EnforcementProofs` | theorems and proofs of both | `Enforcement` |
| `Coalescer` | `Coalescer.Add`, `Flush` | |
| `Pipeline` | `Start`, `Stop`, `SetMode`, `processEvents`, `coalescerLoop`, `Loader.deliver`, the agent's shutdown | `Coalescer` |
| `Correlator` | `ProcessSignal`, `AddRule`, `RemoveRule`, eviction, purge | |
| `NetworkBlock` | `BlockWithTTL`, `Unblock`, `IsBlocked`, expiry, `Start`, `Stop`, `Stats`, `handleNetworkBlock`, the kernel map and the TC programs' verdict | |
| `NetworkBlockProofs` | theorems and proofs | `NetworkBlock` |
| `PipelineProofs`, `CorrelatorProofs` | theorems and proofs | `Pipeline`, `Correlator` |
| `CircuitBreaker` | what a circuit breaker promises (abstract) | |
| `WebhookSink` | `sendWithRetry` of any sink; the refinement of `CircuitBreaker` | |
| `AlertOutput` | `Emit`, `Send`, `AddSink`, `RemoveSink`, `SetEnabled`, `Close`, the end of the process | `WebhookSink` |
| `AlertOutputProofs` | theorems and proofs of both | `AlertOutput` |
| `Enrichment` | `Manager`, the scans of `cri.go` and `k8s.go`, the consumers, the reaper, `Stop` | |
| `LinkedCache` | the linked lists of `PIDCache` and `CRICache` | |
| `EnrichmentProofs` | theorems and proofs of both | `Enrichment`, `LinkedCache` |
| `RuleEngine` | `Evaluate`, `Reload`, `loadRules`, `AddCompiledRule`, the shared slices | |
| `Conditions` | `expandMacros`, the condition parser, `compileExpr` | |
| `RuleCatalog` | the thirty built-in rules, compiled | `Conditions`, `RuleEngine` |
| `Loader` | `Load`, `Attach`, `Start`, `Stop`, map updates, readers | |
| `Detection` | the correlator, the engine and the delivery, interleaved | `Correlator`, `RuleEngine`, `AlertOutput` |
| `DetectionProofs` | theorems and proofs of the engine and of the three together | `Detection`, their proofs |
| `MCEnforcement`, `MCPipeline`, `MCCoalescer`, `MCCorrelator`, `MCNetworkBlock`, `MCLoader` | values of the constants for TLC | |
| `MCDetection`, `MCServices` | several parts in one instance for TLC | the parts |
| `ServicesProofs` | theorems and proofs of the loader, and of the parts of `MCServices` together | `MCServices`, the parts' proofs |

Definitions whose comment starts with "A mutant" are plausible bugs. They are not
used by the specifications; replacing the definition after them with one must make
a property fail.

### Enforcement

A *job* is one rule match in `routeDecision`. Its threads are "enforce", the worker
in `Enforce`, and "escalate", the goroutine that `executeGracefulKill` leaves behind.
`pc[t][j]` says where a thread is; a step ends where the code takes or releases a
lock, makes a system call or sleeps:

`Submit` -> `Route` (mode read, downgrade, triage) -> `Gate` (rules 1 to 5) ->
`RateLimited` or `Permit` (rules 6 and 7) -> `Term` or `Kill` -> `Confirm` ->
`Record`, and `Wake` -> `Kill` -> `Confirm` -> `Record` for an escalation.

`SetMode` and `SetModeOfActor` are the two halves of `Pipeline.SetMode`;
`ApplyPolicy` is the watcher's. The kernel is `Exit`, `Reap` and `Spawn`: a process
has a generation, so the model can tell a process from the next holder of its PID.
`hits`, `seen` and `enforcing` are history: who was signalled, which process the
event was attributed to, and whether enforce mode was on during the job.

Enrichment is a parameter. `Submit` attributes an event to the process that has the
PID, or to one that had it before: the PID cache (`enrichment/container.go:170`) looks
at nothing but the PID. `Labels[n]` is the set of namespaces that may be reported for
a process of namespace `n`. With pod metadata it is `n` or nothing; without the
Kubernetes API every pod is labelled "default" (`enrichment/k8s.go:338`), which
`WrongVictimOnlyByReuse` names as the other way to a wrong victim.

Abstractions: a kill reason is one of the reasons of `Reasons` (the escalation's
"..._after_grace" reasons are those of its thread), a rule match is the action and
what the protocol looks at, AI triage may turn any decision into "suppressed" and none
into an enforcement. Left out: a `kill(2)` refused for lack of privilege (the agent
is deployed privileged), the audit log's eviction after 10000 records, and the
`non_enforce_action` branch (`response.go:253`), which `routeDecision` never reaches.

### Coalescer and Pipeline

A group keeps the set of its members, where the code keeps a count. `Take` is the
part of `Flush` under the mutex and `EmitGroup` the part after it. In `Pipeline` an
event is named as the alert it may lead to, and a worker's way through
`processOneEvent` is reduced to what other goroutines can notice: the read sections
of `Pipeline.mu` ("route", "triage", "advise", "correlate", "suggest"), the alert, the
enforcement. Which way it takes is a free choice. `Pipeline.mu` is `writer` and
`pending`: a waiting writer keeps new readers out, as Go's `RWMutex` does. `Start` takes
that lock for two assignments before any worker exists, which is left out.

### Correlator

One action takes the mutex, then each rule is visited in a step of its own, in any
order (the code ranges over a map), with the clock free to move between visits. A
visit is the whole loop body: expiry, eviction, the new window, the signal, firing.
`lost` records the windows that were evicted, or removed with their rule, while
they were open.

### Network blocks

A writer is a worker (a match of R009, R019 or R027), "api" (a block of a policy, or an
`Unblock`), the expiry goroutine or the agent (`Start`, `Stop`). `request` is what it
asks for and `waiting` whether it stands at `ne.mu.Lock`; a worker gets there some time
after it looked at the mode. What it does under the lock is one step, the kernel call for
each key included, and the kernel may refuse each of them: always when the map is full.
`missed` and `stuck` are history: the keys of refused updates and refused deletes.
`late` is history, too: how many blocks each worker has entered since the mode left enforce.
A caller of `Stats` holds the read lock twice, and a waiting writer keeps the second
one out; readers that lock once are left out. A packet is a destination and a length,
because that is what the TC programs look at (finding 5). `KernelMap` says whether the
TC programs are loaded. Left out: their attaching and closing (before the first and
after the last block), the counters, and IPv6 destinations, which `BlockWithTTL` refuses
and which `Unblock` takes for the wildcard IP.

### Alert output

`sink[s]` is the state of a `baseWebhookSink` and `post[i]` the call that occupies slot
`i` of the manager's semaphore. A call goes `SendSingle` -> `CheckEnabled` -> `Refuse` or
`Admit` -> `Retry` ... -> `Succeed` or `Fail`: the breaker's check and the outcome of
the requests are two critical sections of `sendWithRetry`, with every other call in between. Of
the time since a failure only matters whether it exceeds `circuitResetAfter` (`Cool`).

`CircuitBreaker` states the contract that the comments of `webhook.go` give: closed, open,
half open; calls under way; what may close the circuit. `WebhookSink` maps its state onto it:
`Circuit(s)` is half open when `circuitOpen` is off although the failures that set it are
still counted, and `Posting(s)` are the callers whose call has been admitted.

In `AlertOutput` the manager's sinks are a Go slice: `view` is a length into one of
`arrays`. `Send` copies the view and not the array, walks it without the lock, and
waits for a slot for each sink; `RemoveSink` shifts elements in place; `AddSink` appends
in place where there is room. `copied` and `moved` are history: what the walk should
serve, and whether a removal went through the array under it. The process may exit at any
moment: `shutdown` waits for no sender.

### Enrichment

Processes of the node appear in containers and disappear (`Move`). The poller's full scan
and later scans list them, register new containers and report them on a channel, then
unregister what is gone; the pod watcher lists them and reports pods; two consumers apply
what was reported, later; the reaper prunes. All but the poller are in the wait group that
`Stop` waits for while it holds the mutex (`MutexFree`). Container information is an object
with an identity, since registering makes a new one and pod metadata is written into the
old. A process lives in a container and in a cgroup (`Place`), and `cgroupMap` is keyed by
the cgroup of the process that a registration came from: a container may have several keys,
or none, and may share one (cri.go:475). A full channel drops. `Cancels` says whether the
context is ever cancelled.

`LinkedCache` is the list that both caches implement with pointers: the PID cache with
TTLs, the CRI cache with `Delete` and possibly without a limit. `Reap` and `Prune` remove one
entry after the other: `doomed` is what their loop has found and not removed yet, and while
there is any the cache's mutex is theirs.

### Rules

A bucket of `RuleEngine` is a Go slice, an array and a length. `Evaluate` appends the
candidates of two further buckets to the slice of the event's type: where the array has
room, into the array that the engine and all other evaluations share. `Lookup`, `Gather`
(one append) and `Judge` (one candidate) are separate steps, under the read lock;
`Reload` clears the index and then loads rule by rule, taking the lock for each, and under
the lock a rule is filed under one key after the other: `filing` is what has yet to be
filed (`FileNext`). `log` is history: `log[k]` is what was filed under `k` since the
index was last cleared.

`Conditions` works on tokens: operators, parentheses, and one token for each check or macro.
`Write` is the reference: it writes an expression down as a rule's author would, and
`Means` says what the expression means. `RuleCatalog` gives the built-in rules as
conditions over named checks, with the keywords that `inferEventTypes` and
`inferCategory` look for; of the long lists of names and paths it keeps the members that
tell rules apart. `Verdict` follows `Evaluate`.

### Loader

`life` is the agent's goroutine in `Load`, `Attach`, `Start` or `Stop`, `locker` the holder
of `Loader.mu` for writing, `update` the map updates of other goroutines, `reader[c]` the
goroutine that reads the ring buffer of category `c`. `Load` calls `AddMonitoredSyscall` with
the lock in hand (`MapUpdate("owner")`). `stopped` and `panicked` stand for `stopCh`,
which a second `Stop` after a second `Start` would close again.

### Unions

`MCDetection` and `MCServices` put several parts into one instance. In `Detection` any step of
one part may come between two steps of another; TLC looks at one part at a time, since the
parts share no state, and `DetectionTyped` is about all their interleavings. The variable `part` says
which part a behaviour is about; the others stay in an initial state, in which no action with
fairness is enabled. A property of one part is then checked over exactly the
behaviours of that part.

## 4. Runs

| Run | Instance | Shows |
| --- | --- | --- |
| `enforcement` | 2 jobs, 2 workers, an event for each rule of the protocol and one that every rule lets through, 3 PIDs with 2 generations, budget 1, window 1, clock to 2, policies that enforce; 3.7 million states | the safety invariants and `SimulateDrains` |
| `services` | fairness; of enforcement 1 job, policies of every mode; of alert output 2 sinks, 2 slots, 2 alerts; of enrichment 1 container in one cgroup or none; of the caches 3 keys; of the loader 2 categories; 102 thousand states | `TermIsFinal`, delivery, the registry, the map of cgroups, `Stop` of enrichment, the loader's calls, the lists |
| `simulate_signals` | 1 job, no policies: `SetMode` alone changes the mode | violation: a signal in simulate mode |
| `pipeline` | 2 alerts of one group, 2 workers, channel of 1, one `SetMode`, fairness; 85 thousand states | coalescing, shutdown, progress |
| `pipeline_stop` | 1 worker, fairness | violation: `Stop` deadlocks |
| `detection` | of the correlator an "all" rule of two signals per process and an "any" rule per container with one of them, 2 processes, table of 2, clock to 2, 4 signals; of the engine 2 workers, 4 rules and 2 that replace, one `Reload`; all conditions of two levels of operators; every kind of event; 2 alerts and 3 calls of the manager; 1.25 million states | the correlator, the engine, conditions and catalog, the breaker and the walks |
| `correlator_missed` | the correlator with 3 signals and a table of 4, so that nothing is evicted | violation: a rule misses a signal |
| `coalescer_duplicate` | 3 alerts, 2 groups | violation: two records for one alert |
| `network` | 1 worker, 1 caller of `Stats`, 2 keys, a kernel map of 1, clock to 2, fairness; 246 thousand states | list and kernel, expiry, progress, late blocks |
| `network_drop` | the same, no fairness | violation: a packet to a blocked destination passes |
| `load_returns` | the loader of `services`, fairness | violation: `Load` waits for itself |
| `enrichment_stop` | the enrichment of `services`, a context that is never cancelled, fairness | violation: `Stop` never returns |

Why the bounds are enough. Two jobs are enough for one to hold what another needs
(a worker, a grant, the PID); two generations of a PID make a wrong victim; a clock of 2
with a window of 1 has a window open, expire and open again; budget 1 is full after
one grant. In `pipeline` two alerts of one key give a group that grows between the
two halves of a flush, two workers a reader beside a waiting one, and a channel of
1 a drop. In `network` a rule's key and one that a policy blocks too, for less time, share
a kernel map of one entry, and a block of one tick is entered, expires and is purged before
the clock stops. In `services` enforcement has one event that every rule lets through and
a clock that stands still, since a graceful kill waits for no clock of the model.

* Correlator: windows of one tick expire before the clock stops, both rules share a
  signal, and a table of 2 under 3 possible windows evicts.
* Alert output: `MaxFailures` 2 and one retry tell a call that fails from one that retries
  and a failure that opens from one that does not; two slots hold a stale answer
  beside a probe. `Budget` 3 has two alerts walk while a sink is removed, or one while a sink
  is added after a removal left room; 2 is enough for the slots to be the bottleneck.
* Enrichment: one container with one process that ends and starts again (`MaxMoves` 2), or
  starts and ends, is registered by scan and by event in every order; a queue of 1
  drops; 4 objects are one more than these moves use up. A behaviour in which the manager
  stops has no moves, and needs none: what stops are the goroutines. One part of the
  instance has the processes in no cgroup, since nothing but `cgroupMap` depends on it; the
  other has them in a cgroup or in none, so that a container leaves a key behind, and does
  without the pod watcher, which does not touch that map. Containers that share a cgroup are
  left to the theorem.
* Lists: three keys in a cache of two evict, and move from head, middle and tail.
* Engine: buckets of 1, 2 and 3 rules have room in their array or not, two evaluations
  of the same type append to the same one, and the added rules are filed under
  other keys than those they replace.
* Conditions: two levels of operators over three checks are every pair of operators in either
  operand, in as few parentheses as possible and fully parenthesised. Catalog: each
  value of a field that some check of the catalog tells from others.
* Loader: two categories, six calls (a life, and a second one up to its `Stop`), two records for
  a channel of one.

The theorems of section 6 hold for all values anyway. Symmetry is used between jobs
(`enforcement`) and between processes (`detection`), in runs without fairness;
`RefinesBreaker` is checked in one of them as the safety property it is.

`CHECK_DEADLOCK FALSE` is set throughout: clocks stop, each alert and each job is used
once, `Stop` is final and a bound ends each union. The deadlocks that matter are found by
`StopReturns`, `LoadReturns` and `StopCompletes`, and the absence of others by the
progress properties.

### Properties

* `SafetyProtocol`: whoever was signalled, at once or after the grace period, has an
  event every rule lets through and a grant of its pod.
* `NeverOutsideEnforce`: nor does a policy, or a mode change halfway, turn an audit
  decision into a kill.
* `WrongVictimOnlyByReuse`: rules 3 and 7 judge an event and the signal goes to a PID;
  with right labels only PID reuse makes the two differ.
* `KilledIsGone`, `EverySignalAudited`: the audit log is true and complete.
* `SlidingBudget`: what a fixed window really promises in any interval of its length,
  `2 * MaxKills - 1`. `MaxKills` itself, as README.md:126 may be read, is not a bound.
* `SimulateDrains`: what simulate mode really promises: nobody is admitted, whoever
  was past the check may still signal.
* `TermIsFinal`: no process survives a graceful kill.
* `CountedOnce`: an alert belongs to one group at one place, however additions and two
  flushers interleave.
* `QuietAfterStop`: nothing outlives a `Stop` that returns, and every alert is out.
* `WorkersHeldOnlyByStop`, `StopReturnsOrDeadlocks`, `SetModeReturnsUnlessStopping`: the
  write lock held in `wg.Wait` is the only thing that can hold up a worker, a `Stop`
  or a `SetMode` for ever.
* `FiredOnEvidence`, `NoRefire`, `CompleteMeansFired`: a correlation has its signals, of its
  group and within its window; fires once for a window, unless the window was lost; and
  fires whenever a window is complete. `DetectionTypeOK` has the bound on the table.
* `KernelFollowsList`, `VerdictsAgree`: the kernel map and the list, and the two lookups
  by wildcards, one in Go and one in C, differ only by what the kernel refused.
* `OneLateBlock`: what audit mode really promises of network blocks: a worker that copied the
  mode before the switch still enters its block after it, but no worker enters a second.
* `WritersReturn`, `ExpiredIsLifted`: only `Stats`, which takes its read lock twice, can
  hold up a block, the expiry or a shutdown for ever; otherwise what has expired is lifted.
* `RefinesBreaker`, `OnlyStaleAnswersClose`: a sink is a circuit breaker although calls
  overlap between the check and the outcome; the one surprise is an answer to a call that was
  admitted before the circuit opened, which closes it without a probe.
* `EachSinkOnce`: a walk serves each sink once, unless a removal shifts the array under it.
* `AlertsHandedOver`: sinks that fail and retry share the slots and cannot starve an alert.
* `RegistrySettles`: registrations by scan and by queued events in any order, lost pod
  events and full channels do not leave a container registered that is gone, or one that
  runs without its pod, once the node rests.
* `EnrichmentStops`: what `Stop` really promises once the context is cancelled: it returns, unless a
  goroutine that it waits for has work in hand that needs the mutex it keeps.
* `ListHoldsEntries`: no operation of the two caches loses an entry, links one twice, or
  leaves a pointer to one that is gone. Which entry a full cache evicts it does not say (section 5).
* `CgroupsLeadBack`: what `cgroupMap`, with its keys of processes, still promises of containers:
  one that is registered is found by its last cgroup unless another was seen in the same, and
  only a container that was seen in several places leaves a key behind.
* `BucketsFollowLog`, `MostSevereVerdict`: appending to shared arrays under a read lock disturbs
  neither the index nor another evaluation's verdict.
* `RulesInForceJudged`: no event passes a rule in force by, also during a load: the edition in
  force for the event's type judges it, and an edition of one for its category or any event.
  That the editions which were replaced are judged no more it does not say (section 5).
* `ParsesAsWritten`: precedence, nesting and grouping, and negation as long as it does not
  stand alone in its parentheses (section 5).
* `IndexMissesNothing`: the guesses from keywords never hide an event from a rule of the
  catalog.
* `LoaderCallsReturn`: only a `Load` that has reached its map updates can hold up the
  loader's calls.

### Fairness

`TermIsFinal` needs that a goroutine that can run does run, and that `SetMode`, once
begun, ends (`WF` of each job's steps and of `SetModeOfActor`). Nothing is assumed of
the kernel: a process may ignore SIGTERM for ever. In `Pipeline` each goroutine's
steps are weakly fair; the exits of a worker and of the coalescer loop are strongly
fair, because Go's `select` picks among ready cases at random, so a case that is ready
again and again is taken. In `NetworkBlock` a writer at the lock gets it (Go's `RWMutex`
keeps new readers out and queues the writers), the ticker ticks, and the expiry's exit is
strongly fair for the same reason as above. In `AlertOutput` senders and calls go on: a
request ends by an answer or by the HTTP client's timeout, and Go's channels serve
waiting senders. In `Enrichment` goroutines run and tickers tick, and the exits are
strongly fair as above. In `Loader` the caller's steps, the map updates and the delivery of a
record that was read are weakly fair; nothing is assumed of the pipeline, which may have
stopped taking events, or of the kernel. Nothing is assumed of new events, of the context or of the
callers of `Stop` and `SetMode` anywhere.

## 5. Findings

1. **Simulate mode delivers signals** (`simulate_signals`). README.md:122 says it never
   does. The mode is read once, before the budget and the signal, and the escalation
   does not read it: a process that got SIGTERM in enforce mode gets SIGKILL in simulate
   mode.
2. **`Pipeline.Stop` can deadlock** (`pipeline_stop`). It holds `Pipeline.mu` in `wg.Wait`
   (pipeline.go:270), and a worker that is in an event needs a read lock of it
   (pipeline.go:894 at the latest). `SetMode` then waits too.
3. **A correlation that fires hides the signal from other rules** (`correlator_missed`).
   `ProcessSignal` returns at the first rule that fires; map order decides which.
4. **Single alerts are emitted twice** (`coalescer_duplicate`). By `emitAlert` when they
   come, by `Flush` when the group is taken.
5. **Blocked packets pass** (`network_drop`). The TC programs parse the transport header
   with a header length of 0 (network_tc.bpf.c:312), so they take the IP header's total
   length for the destination port. Blocks that name a port, which those of all three rules
   do, match only packets of that length.

6. **`Load` never returns on a host with BTF** (`load_returns`). It holds `l.mu` and calls
   `populateKernelMaps`, whose `AddMonitoredSyscall` takes the read lock of the same
   mutex (loader.go:520, 469). loader_linux_test.go:52 expects it to return.
7. **Enrichment's `Stop` never returns** (`enrichment_stop`). The agent's context is
   `context.Background()` (cli/helpers.go:34), and the pod watcher looks at it and at a channel
   that nothing closes (k8s.go:200). `shutdown` then does not get to the alert output's
   `Flush` (agent.go:430).

The proofs (section 6) settle for every instance what the runs of 2, 5, 6 and 7 show in
one, that the deadlocks are final and the drops are by length (`StopStaysTrapped`,
`PortsMeetLengths`, `LoadStaysStuck`, `StopOnlyByContext`); and they bound 3 and 4: nothing
but a rule that fires, or a full table, hides a signal (`OnlyFiringMisses`), and no alert
but the first of a group is emitted twice (`OnlyFirstsTwice`).

Seen while reading, and not settled by a run: the comment of `Start` (pipeline.go:234) says
it blocks, it does not; "drain events" (agent.go:387) drains nothing, workers leave with
events in the channel; rule 5 spares the agent's children but not their children; the agent
never calls `Loader.Start` (loader.go:302), without which nobody reads the probes' ring
buffers; R019 blocks port 80 alone, where pipeline.go:1353 says "all ports"; `Stats` can
deadlock with a writer (network.go:548), for good (`StatsStaysStuck`), which `WritersReturn`
names as the one exception; "Allow this single attempt" (webhook.go:242) lets every call
pass that comes before the probe is answered, which `RefinesBreaker` allows; in mock mode
`Load` is no "no-op" (loader.go:191) but fails, because `checkBTF` looks for the file whose
absence makes the mode; a `Load` that fails keeps the collections loaded so far;
`Loader.Stop` does nothing unless `Start` was called, so probes that are only loaded and
attached stay; the second `Stop` of a loader that was started twice closes a closed channel;
and nothing outside the tests calls `ApplyPolicy`: the watcher stores the policies it reads
(crd/types.go:338) and keeps those whose file is gone, where crd/types.go:189 says it
"applies changes to the local enforcement configuration".

Where the code disagrees with what is said of it, and a property of section 4 claims only
what the code does keep:

* Replaced rules. "Same rule ID replaces" (rules/engine.go:185, 209) is true of the map by ID
  only; in the index by type and category the old edition stays, before the new one, and
  goes on judging events (`addCompiledRule`, engine.go:344). `RulesInForceJudged` leaves it room.
* Negations in parentheses. `(not a)`, and so a macro that expands to a negation, is false
  whatever `a` is: `parseLeafExpr` looks for "not" before it strips the parentheses
  (rules/compiler.go:173). compiler.go:7-11 and docs/rule_writing_guide.md:111 have `not` as
  negation and parentheses as grouping. `ParsesAsWritten` excludes these conditions.
* Rules that never give the verdict. For no kind of event of `RuleCatalog` is the verdict of
  `Evaluate` R013, R015, R016, R017, R020, R025 or R028: their conditions never hold, or a
  more severe rule or an earlier one of the same priority matches as well. Their descriptions
  (rules/catalog.go:302-306 for R016), "30 compiled rules" (README.md:35) and
  escape_test.go:196 ("may still match R013 (drift) or R028") say otherwise. It was found
  by evaluating `Verdict` for each event; no property states it.
* Eviction. The caches are called LRU (README.md:38, enrichment/container.go:516-526, 631), with
  "Move to front of LRU list" in `Get` (container.go:555), where nothing is moved: a full
  cache evicts the entry that was stored longest ago, used since or not.
* Blocks in audit mode. "No blocks in audit mode" (pipeline.go:1159) fails for a worker that
  copied the mode before the switch (pipeline.go:1130); `OneLateBlock` bounds it.
* Keys of cgroups. `UnregisterContainer` deletes the key of the last registration only
  (container.go:217), so a container that was seen in two cgroups leaves one behind until the
  reaper comes.

## 6. Proofs

TLAPS proves, for every value of the constants that satisfies the modules'
assumptions:

| Theorem | States |
| --- | --- |
| `RateSlidingBudget` | `RateSpec => []SlidingBudget` |
| `TypeCorrect` | `Spec => []TypeOK` |
| `ProtocolHolds`, `OnlyInEnforce`, `VictimsOnlyByReuse`, `KilledIsTrue`, `SignalsAudited`, `BudgetHolds` | `Spec => []` of `SafetyProtocol`, `NeverOutsideEnforce`, `WrongVictimOnlyByReuse`, `KilledIsGone`, `EverySignalAudited`, `SlidingBudget` |
| `SimulateModeDrains` | `Spec => SimulateDrains` |
| `EnforcementRunsLimiter` | `Spec => RateSpec` |
| `TermIsFollowed` | `Spec => []TermThenKill` |
| `NetworkTypes`, `KernelFollows`, `VerdictsDoAgree` | `NetworkSpec => []` of `NetworkTypeOK`, `KernelFollowsList`, `VerdictsAgree` |
| `LateBlocksAreFew` | `NetworkSpec => []OneLateBlock` |
| `StatsStaysStuck` | `NetworkSpec => StatsTraps` |
| `PortsMeetLengths` | `NetworkSpec => []DropsByLength` |
| `PipelineTyped`, `PipelineCountsOnce`, `QuietOnceStopped` | `PipelineSpec => []` of `PipelineTypeOK`, `CountedOnce`, `QuietAfterStop` |
| `PipelineRunsCoalescer` | `PipelineSpec => CoalescerSpec` |
| `OnlyFirstsTwice`, `PipelineFirstsTwice` | `CoalescerSpec =>`, `PipelineSpec => []DuplicatesAreFirsts` |
| `StopStaysTrapped` | `PipelineSpec => StopTraps` |
| `TableStaysBounded`, `EvidenceHolds`, `FiresOnceAWindow`, `CompleteFires`, `OnlyFiringMisses` | `CorrelatorSpec => []` of `CorrelatorTypeOK /\ TableBounded`, `FiredOnEvidence`, `NoRefire`, `CompleteMeansFired`, `MissesNothing` |
| `SinksRefineBreaker` | `SinkSpec => RefinesBreaker`, `[]ProbeUnderWay`, `OnlyStaleAnswersClose` |
| `OutputTyped`, `ServesEachSinkOnce` | `OutputSpec => []` of `OutputTypeOK`, `EachSinkOnce` |
| `OutputRefinesBreaker` | `OutputSpec => RefinesBreaker`, `[]ProbeUnderWay`, `OnlyStaleAnswersClose` |
| `EngineTyped`, `IndexFollowsLog`, `JudgesRulesInForce`, `VerdictIsMostSevere` | `EngineSpec => []` of `EngineTypeOK`, `BucketsFollowLog`, `RulesInForceJudged`, `MostSevereVerdict` |
| `CacheTyped`, `ListStaysWhole` | `LinkedCacheSpec => []` of `LinkedCacheTypeOK`, `ListHoldsEntries` |
| `EnrichmentTyped`, `EventsKeepTheirObjects`, `CgroupsDoLeadBack`, `StopOnlyByContext` | `EnrichSpec => []` of `EnrichTypeOK`, `EventsRefer`, `CgroupsLeadBack`, `StopNeedsContext` |
| `StopTrapsConsumers` | `EnrichSpec => MutexTraps` |
| `LoadStaysStuck`, `LoaderTyped` | `LoaderSpec => StuckInLoad`, `[](LoaderTypeOK /\ LockOK)` |
| `DetectionTyped`, `ServicesTyped` | `DetectionSpec => []DetectionTypeOK`, `ServicesSpec => []ServicesTypeOK` |

The assumptions are `NetworkAssumption` (finitely many keys, positive TTLs, workers apart
from the other writers), `RateAssumption` (finitely many requests, a positive budget),
`EnforcementAssumption` (the kinds of the constants; the empty namespace is not
protected), `CoalescerAssumption` and `PipelineAssumption` (each alert has a key; there
are alerts, workers and room in the channel), `CorrelatorAssumption` (each rule has
signals, a logic and a span, and the table has room for one window), `SinkAssumption`
(one failure at least opens a circuit), `OutputAssumption` (the manager starts with
sinks, and no sink is `None`), `EngineAssumption` (events of one type are of one category;
rules are rules), `CacheAssumption` and `EnrichAssumption` (a nil pointer is no key,
"nowhere" no container, capacities are numbers) and `LoaderAssumption` (the categories come in
an order; the channel has a size).

**The budget.** `SlidingBudget` counts grants in an interval, which no step looks at, so
it is not inductive. The invariant ties each grant to the window that admitted it: a
window's grants are as many as its counter says and at most `MaxKills`, its first lies
`Window` before its end, and windows of one key do not overlap. Two windows at most then
meet an interval of one window's length, and if two do the grant that opened the earlier
one is outside, hence `2 * MaxKills - 1` (`IntervalBudget`). Finite cardinalities come
from the library's theorems.

**The enforcement path.** The inductive invariant is

    IInv == StateTypeOK /\ RateInv /\ ProtocolInv /\ AuditInv /\ VictimInv

`SafetyProtocol` says nothing of a job that has not signalled yet. `ProtocolInv` says for
each step of a job what has been established when it gets there: "gate" means that
routing allowed it in enforce mode, "allow" that rules 1 to 5 have passed, "kill" that
it holds a grant. `AuditInv` says for each step what the thread has hit and what it
has recorded. `VictimInv` says that while the PID belongs to the process the event is
attributed to, the event carries one of its labels. `NextSplit` reduces a step to a
job's step, a submission, or a step outside the jobs, and `OthersUntouched` keeps every
other job out of the argument; `ProcForward` says that generations only grow and that the
dead stay dead. Each invariant then has a lemma with a case for each action, and the
theorems follow from `IInv` with temporal logic. `TermThenKill` is the safety half of
`TermIsFinal`: it needs to know of an escalation that it was started by a SIGTERM of its
job, and to which generation of the PID (`FollowInv`).

**Network blocks.** `NetworkInv` adds two things to the properties: only the agent starts
and stops (`RequestInv`), and there is an expiry goroutine while the enforcer runs and then
only until the `Stop` that waits for it returns (`LifecycleInv`), without which a `Start`
could make a second. `VerdictsAgree` follows once both lookups are shown to be the same set
of five keys (`SameKeys`). `OneLateBlock` counts a block that a worker has decided on with
those it has entered, so the count grows by the decision, which a quiet mode forbids, and
not by the block; and leaving or entering enforce mode starts it again. `DropsByLength` is
finding 5 without an instance: what the TC programs drop is what `KernelFollowsList` leaves
in the map, met by length. `StatsTraps` needs types alone: with the read lock held and a
writer waiting, neither can take a step.

**Pipeline and coalescer.** `CountedOnce` looks at groups in three kinds of places. The
invariant says of any two groups, wherever they lie, that they share no alert
(`ApartInv`), that a group has only alerts that were added, of one key (`MembersInv`), and that
every added alert is in a group (`CoveredInv`). `Take` and `EmitGroup` move groups from one
place to another, which `MoveKeeps` proves harmless once for both; `Join` needs besides that
there is one open group for a key (`OpenInv`), since otherwise the group it replaces could stay
behind elsewhere. `PipelineRunsCoalescer` carries the result over to the pipeline.
`QuietAfterStop` needs who can still act: an alert that is owed has a worker about to
emit it (`OwedInv`), a flusher has groups in hand only while it flushes (`BatchInv`),
and after `wg.Wait` nobody opens a group (`StopInv`). `DuplicatesAreFirsts` bounds finding 4:
of the alerts of a group the first, and no other, was promised to its worker
(`FirstInv`), so a group comes to two records, of which one is its first alert's.
`StopTraps` is finding 2: while `Stop` is in `wg.Wait` it has the lock (`LockInv`), and each
way out of an event takes the read lock.

**Correlator.** `NoRefire` compares results with each other, and the window of an earlier
result may be gone. `ResultInv` says where it is: over, lost, or in the table and fired.
`RefireInv` orders the results of a rule and group before the window that is open, so that
the next one to fire cannot be early. `TableInv`, `WindowInv` and `CallInv` carry the bound,
the evidence of windows, and that a call visits only rules that want its signal.
`MissesNothing` bounds finding 3: during a call a rule it has visited holds the signal,
unless a full table evicted the rule's window (`VisitedInv`), and a table that was full
stays nearly so for the rest of the call, since each visit puts one window in the place of
at most one (`ReplaceKeepsSize`).

**Circuit breaker.** A step of the sinks maps to a step of `CircuitBreaker` or to a stutter
(`NextRefines`), given that an open circuit still counts the failures that opened it
(`OpenIsTripped`): otherwise half-opening it would look closed. `OpenIsOutlived` says that
a call under way at an open circuit was admitted before it opened, which is what makes an
answer that closes it a stale one.

**Alert output.** For each walk the invariant says how far it is (`Progress`), whom it has
served (`Served`), and that the part of the array it walks still holds what was copied unless
a removal went through it (`OnArray`). An append in place writes behind the manager's view,
and every walk over that array that no removal has disturbed is within the view.
`StepsOfSinks` maps each step to one of the sinks or a stutter, so the refinement carries over.

**Rule engine.** Evaluations append to arrays that the index and other evaluations share,
with nothing but a read lock. Two evaluations write into the same array only if their events
are of one type and so look into the same buckets, and then they write the same:
what an evaluation gathers, its duplicates left out, is determined by the index alone
(`SameCandidates`). `EngineInv` says so for each evaluation (`EvalOK`: its candidates, as
they can be read now, are those of its event as far as it has gathered, and `best` is a most severe match
among those judged), that all of it happens while nothing is filed (`Locked`), and that each
bucket is the log of its key within the length it had before (`Indexed`). That a rule in force
is filed or being filed, and that nothing of the baseline is missing once it is loaded, is
`Loaded`. An evaluation takes all of its own type, and of the other two buckets one edition
at least of each ID (`JudgedAreComplete`), which makes `RulesInForceJudged` of it.

**Lists of the caches.** `Spells(l, s)` says that the pointers of `l` spell out the sequence
`s`. `removeEntry` and `addToFront` do to the pointers what taking a key out and putting one
in front do to the sequence; `moveToFront`, `drop` and `evictLRU` are made of these, and
each operation of these. The invariant is that there is a sequence that the list spells out, which
names each key of the map once, and that what is doomed is in the map. That a full cache stays
within its capacity compares the number of entries with the length of the sequence, hence the
library's theorems on finite sets.

**Enrichment.** `EnrichTypeOK` is not inductive: a consumer turns an event into a
registration, so the events that are queued or in hand must refer to objects there are
(`EventsRefer`), and what the poller has picked must be in a container. Objects are only
added and keep their container, so what once referred to one still does. `EnrichInv` says
so for each goroutine at each of its steps. `CgroupsLeadBack` is inductive with it: a
registration takes its key, from another container if need be, which has then been seen in
that cgroup too; a container that goes takes the key of its last registration with it, so a
key that still leads to it comes from another place. `StopNeedsContext` and `MutexTraps` are the
two reasons, finding 7 and the exceptions of `EnrichmentStops`, for which `Stop` never returns.

**Loader.** `LoaderInv` says where `l.mu` is held, and by whom. A `Load` at its map
updates holds the lock that these updates wait for, and nobody else can release it: the call
and the lock stay as they are (`StuckInLoad`). Finding 6 is thus true of every host with
BTF, and not of one schedule. That every other call then waits as well follows, and is
liveness.

**The parts together.** A step of `DetectionSpec` or `ServicesSpec` is a step of one part
and a stutter of the others (`EachPartMoves`, `EachPartSteps`), so the inductive invariants
of the parts are together inductive for the whole.

**Only model-checked.**

* Liveness: `TermIsFinal`, `AlertsHandedOver`, `RegistrySettles`, `EnrichmentStops`,
  `LoaderCallsReturn`, `WorkersHeldOnlyByStop`, `StopReturnsOrDeadlocks`,
  `SetModeReturnsUnlessStopping`, `WritersReturn`, `ExpiredIsLifted`. The prover knows
  neither fairness nor `ENABLED`.
* `ParsesAsWritten`, `IndexMissesNothing`: `Conditions` and `RuleCatalog` compute
  with recursive operators, which the prover's backends do not take, and what a parser does
  to every condition needs induction over data. The catalog is finite, and TLC looks
  at every kind of event there is, so for the latter nothing is left open but the abstraction of events.
* The properties of the violation runs, which are false.

## 7. Not modelled

* The YAML parser, rule files and lists (`rules/parser.go`), the exceptions of
  `pipeline/exceptions.go`, and the rules of the ring buffer filter (`ebpf/filter.go`): data.
  What an exception says of an event is data of a rule in `RuleEngine`; what the
  filter says is a free choice in `Loader`.
* Policy files and their validation (`crd/types.go`): `Enforcement` has the mode change of
  `ApplyPolicy`, and `NetworkBlock` a policy's blocks, at any time, although nothing calls
  `ApplyPolicy` yet (section 5).
* Webhook payloads, the counters of `Stats`, and the batches that no sink uses.
* The gRPC connection to the container runtime, which the code replaces by polling;
  `k8sCache`, which nothing reads; `PruneCaches`, which nothing calls.
* Attaching and closing the TC programs, IPv6 destinations, a `kill(2)` refused for lack of
  privilege, and the eviction of audit records (section 3).
* Anomaly scores (floating-point statistics), the AI connector (a stub with neutral
  answers), event decoding, DNS and TLS parsing and the probes (data, no control
  between components), command line and metrics (input and output).

`PROJECT.json` lists every component with its state, every hazard with the
properties that cover it, and the source lines of every definition.
