---------------------------- MODULE NetworkBlock ----------------------------
(***************************************************************************)
(* Network blocks (pkg/enforcement/network.go, pkg/ebpf/tc_loader.go,      *)
(* pkg/ebpf/probes/network_tc.bpf.c).  The enforcer keeps a list of blocks *)
(* with their expiry; each change is repeated in a kernel map, which knows *)
(* no expiry and which the TC programs look up for every packet.           *)
(*                                                                         *)
(* A writer asks for something (request), waits for the write lock         *)
(* (waiting) and does its work in one step.  Readers that take the read    *)
(* lock once and change nothing are left out; Stats takes it twice and is  *)
(* not.                                                                    *)
(***************************************************************************)
EXTENDS Integers, FiniteSets

CONSTANTS
  Modes,        \* the pipeline's modes: audit, enforce, simulate
  KernelMap,    \* whether the TC programs, and so the map, are loaded
  Workers,      \* pipeline workers, which block what rules R009, R027, R019 match
  Callers,      \* goroutines that call Stats
  Remotes,      \* the remote IPs that an event may carry; 0 is 0.0.0.0
  Ports,        \* ports other than 0 and 80
  MetadataIP,   \* 169.254.169.254
  RuleTTL,      \* TTL by rule: R027 5, R009 10, R019 30 minutes
  PolicyKeys,   \* the keys of the blocks in policies
  PolicyTTLs,   \* and their TTLs
  Lengths,      \* total lengths of IP packets
  Capacity,     \* max_entries of the kernel map
  MaxTime       \* bound of the model: the clock stops here

TCP == 6
UDP == 17
Any == 0       \* wildcard, for an IP, a port or a protocol

Rules == {"R009", "R027", "R019"}

(* What a rule blocks (handleNetworkBlock, BlockMiningPool, BlockC2Port,   *)
(* BlockCloudMetadata).                                                    *)
RuleKey(r, ip, port) ==
  IF r = "R019" THEN [ip |-> MetadataIP, port |-> 80, proto |-> Any]
                ELSE [ip |-> ip, port |-> port, proto |-> TCP]

Keys == {RuleKey(r, ip, port) : r \in Rules, ip \in Remotes, port \in Ports} \cup PolicyKeys

ASSUME NetworkAssumption ==
  /\ RuleTTL \in [Rules -> Nat \ {0}]
  /\ PolicyTTLs \subseteq Nat \ {0}
  /\ Capacity \in Nat /\ MaxTime \in Nat /\ KernelMap \in BOOLEAN
  /\ IsFiniteSet(Keys)
  /\ Workers \cap {"api", "expirer", "agent"} = {}

Actors == Workers \cup {"api", "expirer", "agent"}

NoKey == [ip |-> Any, port |-> Any, proto |-> Any]
Request(kind, key, ttl) == [kind |-> kind, key |-> key, ttl |-> ttl]
None == Request("none", NoKey, 0)
Requests == {None, Request("purge", NoKey, 0), Request("start", NoKey, 0), Request("stop", NoKey, 0)}
  \cup [kind : {"block"}, key : Keys, ttl : {RuleTTL[r] : r \in Rules} \cup PolicyTTLs]
  \cup [kind : {"unblock"}, key : Keys, ttl : {0}]

VARIABLES
  mode,      \* the pipeline's mode
  late,      \* history: blocks of each worker since the mode stopped them
  now,       \* the clock
  expires,   \* entries: when the block of a key expires; 0 when there is none
  kernel,    \* the keys in the kernel map
  missed,    \* history: listed keys that the kernel did not take
  stuck,     \* history: keys no longer listed that the kernel did not give up
  running,   \* NetworkEnforcer.running
  stopped,   \* whether stopCh is closed
  loops,     \* how many expiry goroutines there are
  request,   \* what each goroutine that wants to write asks for
  waiting,   \* the goroutines whose Lock call waits
  stats      \* where each caller of Stats is

lists == <<expires, kernel, missed, stuck>>
lifecycle == <<running, stopped, loops>>
networkVars == <<mode, late, now, lists, lifecycle, request, waiting, stats>>

(* The modes in which no rule is to block.                                 *)
Quiet == {"audit", "simulate"}

Listed(k) == k \in Keys /\ expires[k] > 0

-----------------------------------------------------------------------------
(* Verdicts                                                                *)

(* IsBlocked: the entries that it looks at.                                *)
ListKeys(d) ==
  {d, [d EXCEPT !.proto = Any], [d EXCEPT !.port = Any, !.proto = Any],
   [d EXCEPT !.ip = Any], [d EXCEPT !.ip = Any, !.proto = Any]}

IsBlocked(d) == \E k \in ListKeys(d) : Listed(k) /\ now < expires[k]

(* A mutant: the checks for any protocol come after the port is wiped.     *)
KernelKeysWiped(d) ==
  {d, [d EXCEPT !.proto = Any, !.port = Any],
   [d EXCEPT !.ip = Any, !.proto = Any], [d EXCEPT !.ip = Any]}

(* check_blocklist: the keys that it looks up.                             *)
KernelKeys(d) ==
  {d, [d EXCEPT !.proto = Any], [d EXCEPT !.proto = Any, !.port = Any],
   [d EXCEPT !.ip = Any, !.proto = Any], [d EXCEPT !.ip = Any]}

CheckBlocklist(d) == KernelKeys(d) \cap kernel # {}

(* The destination port that the classifiers read.  parse_tcp_hdr and      *)
(* parse_udp_hdr get ihl = 0, so the header they read is the IP header:    *)
(* where the destination port would be is the total length of the packet.  *)
DestPort(pkt) == IF pkt.proto \in {TCP, UDP} THEN pkt.length ELSE 0

(* tc_egress_filter, tc_ingress_filter.                                    *)
Dropped(pkt) ==
  CheckBlocklist([ip |-> pkt.ip, port |-> DestPort(pkt), proto |-> pkt.proto])

Destinations == [ip : (Remotes \ {0}) \cup {MetadataIP}, port : Ports \cup {80}, proto : {TCP, UDP}]
Packets == {[ip |-> d.ip, port |-> d.port, proto |-> d.proto, length |-> n] :
              d \in Destinations, n \in Lengths}

-----------------------------------------------------------------------------
(* Requests                                                                *)

(* A mutant: the mode is not looked at.                                    *)
HandleNetworkBlockAlways(w) ==
  /\ request[w] = None
  /\ \E r \in Rules, ip \in Remotes, port \in Ports :
       request' = [request EXCEPT ![w] = Request("block", RuleKey(r, ip, port), RuleTTL[r])]
  /\ UNCHANGED <<mode, late, now, lists, lifecycle, waiting, stats>>

(* routeDecision copies the mode; unless that is audit or simulate,        *)
(* handleNetworkBlock goes on to block.                                    *)
HandleNetworkBlock(w) ==
  /\ request[w] = None
  /\ mode \notin Quiet
  /\ \E r \in Rules, ip \in Remotes, port \in Ports :
       request' = [request EXCEPT ![w] = Request("block", RuleKey(r, ip, port), RuleTTL[r])]
  /\ UNCHANGED <<mode, late, now, lists, lifecycle, waiting, stats>>

(* A policy blocks what it lists (ApplyPolicy), or a caller unblocks.      *)
(* Unblock turns an IPv6 destination into IP 0, the wildcard (IPToUint32). *)
CallAPI ==
  /\ request["api"] = None
  /\ \E k \in Keys :
       \/ /\ k \in PolicyKeys
          /\ \E ttl \in PolicyTTLs : request' = [request EXCEPT !["api"] = Request("block", k, ttl)]
       \/ request' = [request EXCEPT !["api"] = Request("unblock", k, 0)]
  /\ waiting' = waiting \cup {"api"}
  /\ UNCHANGED <<mode, late, now, lists, lifecycle, stats>>

(* expireBlocks: the ticker fires.  (select may prefer it to a closed      *)
(* stopCh.)                                                                *)
TickerFires ==
  /\ loops > 0 /\ request["expirer"] = None
  /\ request' = [request EXCEPT !["expirer"] = Request("purge", NoKey, 0)]
  /\ waiting' = waiting \cup {"expirer"}
  /\ UNCHANGED <<mode, late, now, lists, lifecycle, stats>>

(* The agent calls Start or Stop, one at a time.                           *)
CallLifecycle ==
  /\ request["agent"] = None
  /\ \E kind \in {"start", "stop"} :
       request' = [request EXCEPT !["agent"] = Request(kind, NoKey, 0)]
  /\ waiting' = waiting \cup {"agent"}
  /\ UNCHANGED <<mode, late, now, lists, lifecycle, stats>>

(* A worker calls Lock, some time after it looked at the mode.  While a    *)
(* writer waits no reader gets in.                                         *)
Lock(w) ==
  /\ request[w] # None /\ w \notin waiting
  /\ waiting' = waiting \cup {w}
  /\ UNCHANGED <<mode, late, now, lists, lifecycle, request, stats>>

-----------------------------------------------------------------------------
(* Under the write lock                                                    *)

(* The write lock is granted, the work is done, the lock is given back.    *)
Locked(a, kind) ==
  /\ a \in waiting /\ request[a].kind = kind
  /\ \A c \in Callers : stats[c] = "idle"
  /\ waiting' = waiting \ {a}
  /\ late' = [w \in Workers |-> late[w] + (IF w = a /\ mode \in Quiet THEN 1 ELSE 0)]
  /\ UNCHANGED <<mode, now, stats>>

Done(a) == request' = [request EXCEPT ![a] = None]

(* A mutant: the map's size is not a limit.                                *)
TakesAlways(k) == KernelMap

(* UpdateBlocklistEntry can succeed: the key is there or there is room.    *)
Takes(k) == KernelMap /\ (k \in kernel \/ Cardinality(kernel) < Capacity)

(* BlockWithTTL.  The list is changed first; an update of the kernel map   *)
(* that fails is logged, and the map is as it was.                         *)
BlockWithTTL(a) ==
  LET k == request[a].key IN
  /\ Locked(a, "block") /\ Done(a)
  /\ expires' = [expires EXCEPT ![k] = now + request[a].ttl]
  /\ stuck' = stuck \ {k}
  /\ \/ /\ Takes(k)
        /\ kernel' = kernel \cup {k} /\ missed' = missed \ {k}
     \/ /\ kernel' = kernel
        /\ missed' = IF k \in kernel THEN missed ELSE missed \cup {k}
  /\ UNCHANGED lifecycle

(* What becomes of the keys of which the list lets go; the kernel may fail *)
(* to delete some (deleteFromBPFMap), which is logged.                     *)
Delete(gone) ==
  \E failed \in SUBSET (gone \cap kernel) :
    /\ expires' = [k \in Keys |-> IF k \in gone THEN 0 ELSE expires[k]]
    /\ kernel' = kernel \ (gone \ failed)
    /\ missed' = missed \ gone
    /\ stuck' = stuck \cup failed

(* Unblock.                                                                *)
Unblock(a) ==
  /\ Locked(a, "unblock") /\ Done(a)
  /\ Delete({k \in {request[a].key} : Listed(k)})
  /\ UNCHANGED lifecycle

Expired == {k \in Keys : Listed(k) /\ expires[k] < now}

(* A mutant: the kernel map is not told.                                   *)
RemoveExpiredBlocksListOnly(a) ==
  /\ Locked(a, "purge") /\ Done(a)
  /\ expires' = [k \in Keys |-> IF k \in Expired THEN 0 ELSE expires[k]]
  /\ missed' = missed \ Expired
  /\ UNCHANGED <<kernel, stuck, lifecycle>>

(* A mutant: the goroutine returns after its first purge.                  *)
RemoveExpiredBlocksOnce(a) ==
  /\ Locked(a, "purge") /\ Done(a)
  /\ Delete(Expired)
  /\ loops' = 0
  /\ UNCHANGED <<running, stopped>>

(* removeExpiredBlocks.                                                    *)
RemoveExpiredBlocks(a) ==
  /\ Locked(a, "purge") /\ Done(a)
  /\ Delete(Expired)
  /\ UNCHANGED lifecycle

(* Start makes a new stopCh and starts the expiry goroutine, unless one    *)
(* is running.                                                             *)
Start(a) ==
  /\ Locked(a, "start") /\ Done(a)
  /\ running' = TRUE
  /\ loops' = IF running THEN loops ELSE loops + 1
  /\ stopped' = (stopped /\ running)
  /\ UNCHANGED lists

(* Stop closes stopCh, after giving back the lock, and waits for the       *)
(* goroutine, unless nothing is running.                                   *)
Stop(a) ==
  /\ Locked(a, "stop")
  /\ IF running THEN UNCHANGED request ELSE Done(a)
  /\ running' = FALSE
  /\ stopped' = (stopped \/ running)
  /\ UNCHANGED <<lists, loops>>

Write(a) ==
  \/ BlockWithTTL(a) \/ Unblock(a) \/ RemoveExpiredBlocks(a) \/ Start(a) \/ Stop(a)

-----------------------------------------------------------------------------
(* Without the lock                                                        *)

(* expireBlocks returns.                                                   *)
LoopExits ==
  /\ loops > 0 /\ stopped /\ request["expirer"] = None
  /\ loops' = loops - 1
  /\ UNCHANGED <<mode, late, now, lists, running, stopped, request, waiting, stats>>

(* wg.Wait returns, and Stop.                                              *)
StopReturns ==
  /\ request["agent"].kind = "stop" /\ "agent" \notin waiting
  /\ loops = 0
  /\ Done("agent")
  /\ UNCHANGED <<mode, late, now, lists, lifecycle, waiting, stats>>

(* Stats takes the read lock and then, in BlockCount, takes it again.      *)
(* Either call waits if a writer is waiting.                               *)
StatsLocks(c) ==
  /\ stats[c] = "idle" /\ waiting = {}
  /\ stats' = [stats EXCEPT ![c] = "locked"]
  /\ UNCHANGED <<mode, late, now, lists, lifecycle, request, waiting>>

StatsCounts(c) ==
  /\ stats[c] = "locked" /\ waiting = {}
  /\ stats' = [stats EXCEPT ![c] = "counted"]
  /\ UNCHANGED <<mode, late, now, lists, lifecycle, request, waiting>>

(* A mutant: the outer lock is not given back.                             *)
StatsReturnsLocked(c) == stats[c] = "counted" /\ UNCHANGED networkVars

StatsReturns(c) ==
  /\ stats[c] = "counted"
  /\ stats' = [stats EXCEPT ![c] = "idle"]
  /\ UNCHANGED <<mode, late, now, lists, lifecycle, request, waiting>>

(* Pipeline.SetMode.                                                       *)
SetMode(m) ==
  /\ mode' = m
  /\ late' = IF {mode, m} \subseteq Quiet THEN late ELSE [w \in Workers |-> 0]
  /\ UNCHANGED <<now, lists, lifecycle, request, waiting, stats>>

Tick ==
  /\ now < MaxTime /\ now' = now + 1
  /\ UNCHANGED <<mode, late, lists, lifecycle, request, waiting, stats>>

NetworkInit ==
  /\ mode \in Modes /\ late = [w \in Workers |-> 0] /\ now = 0
  /\ expires = [k \in Keys |-> 0]
  /\ kernel = {} /\ missed = {} /\ stuck = {}
  /\ running = TRUE /\ stopped = FALSE /\ loops = 1
  /\ request = [a \in Actors |-> None] /\ waiting = {}
  /\ stats = [c \in Callers |-> "idle"]

NetworkNext ==
  \/ \E w \in Workers : HandleNetworkBlock(w) \/ Lock(w)
  \/ CallAPI \/ TickerFires \/ CallLifecycle
  \/ \E a \in Actors : Write(a)
  \/ LoopExits \/ StopReturns
  \/ \E c \in Callers : StatsLocks(c) \/ StatsCounts(c) \/ StatsReturns(c)
  \/ \E m \in Modes : SetMode(m)
  \/ Tick

NetworkSpec == NetworkInit /\ [][NetworkNext]_networkVars

(* Goroutines that can run do run, and the ticker ticks.                   *)
NetworkLiveSpec ==
  /\ NetworkSpec
  /\ \A w \in Workers : WF_networkVars(Lock(w))
  /\ \A a \in Actors : WF_networkVars(Write(a))
  /\ WF_networkVars(TickerFires) /\ SF_networkVars(LoopExits) /\ WF_networkVars(StopReturns)
  /\ \A c \in Callers : WF_networkVars(StatsCounts(c)) /\ WF_networkVars(StatsReturns(c))

-----------------------------------------------------------------------------

(* Types, and the kernel map within its size.                              *)
NetworkTypeOK ==
  /\ mode \in Modes /\ late \in [Workers -> Nat] /\ now \in Nat
  /\ expires \in [Keys -> Nat]
  /\ kernel \in SUBSET Keys /\ missed \in SUBSET Keys /\ stuck \in SUBSET Keys
  /\ Cardinality(kernel) <= Capacity
  /\ running \in BOOLEAN /\ stopped \in BOOLEAN
  /\ loops \in 0 .. 1
  /\ request \in [Actors -> Requests] /\ waiting \in SUBSET Actors
  /\ stats \in [Callers -> {"idle", "locked", "counted"}]

(* The kernel map holds what the list holds, however blocks, unblocks and  *)
(* expiry interleave, but for the calls that it refused: a key the kernel  *)
(* has and the list has not is one whose delete failed, and nothing will   *)
(* delete it again.                                                        *)
KernelFollowsList ==
  \A k \in Keys : /\ Listed(k) <=> k \in (kernel \ stuck) \cup missed
                  /\ k \in stuck => k \in kernel
                  /\ k \in missed => k \notin kernel

(* IsBlocked and check_blocklist, in two languages and with their checks   *)
(* in two orders, agree on a destination: what the one reports as blocked  *)
(* the other finds, and what the other finds is on the list, perhaps       *)
(* expired and not purged.                                                 *)
VerdictsAgree ==
  missed = {} /\ stuck = {} =>
    \A d \in Destinations :
      /\ IsBlocked(d) => CheckBlocklist(d)
      /\ CheckBlocklist(d) => \E k \in ListKeys(d) : Listed(k)

(* network.go:99: "The TC programs then drop matching packets." A packet   *)
(* to a destination that IsBlocked reports is dropped, if the kernel took  *)
(* every update.                                                           *)
BlockedIsDropped ==
  missed = {} =>
    \A pkt \in Packets :
      IsBlocked([ip |-> pkt.ip, port |-> pkt.port, proto |-> pkt.proto]) => Dropped(pkt)

(* A worker that copied the mode before a switch to audit or simulate      *)
(* still enters its block after it, whenever it gets the lock: pipeline.go *)
(* :1159, "no blocks in audit mode", does not hold.  What does hold is     *)
(* that each worker enters at most this one, also when the mode goes back  *)
(* and forth between the two, for as long as it does not leave them.       *)
OneLateBlock ==
  mode \in Quiet =>
    \A w \in Workers : late[w] + (IF request[w] = None THEN 0 ELSE 1) <= 1

(* The deadlock: Stats holds the read lock and wants it again, behind a    *)
(* writer that waits for Stats.                                            *)
StatsStuck == waiting # {} /\ \E c \in Callers : stats[c] = "locked"

(* Whoever wants the write lock gets it and is done, Stop included, unless *)
(* Stats is stuck: its second read lock is the only thing that can hold up *)
(* a worker, the expiry or a shutdown.                                     *)
WritersReturn ==
  \A a \in Actors : request[a] # None ~> request[a] = None \/ StatsStuck

(* A block that has expired leaves the list and the kernel, also after a   *)
(* Stop and a Start, as long as the enforcer runs: unless it is entered    *)
(* again, the kernel refuses the delete, or Stats is stuck.                *)
ExpiredIsLifted ==
  \A k \in Keys :
    (k \in Expired /\ running) ~>
      \/ expires[k] = 0 /\ k \notin kernel \ stuck
      \/ now <= expires[k] \/ ~running \/ StatsStuck
=============================================================================
