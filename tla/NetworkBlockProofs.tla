------------------------- MODULE NetworkBlockProofs -------------------------
(* Theorems about NetworkBlock, for every value of its constants.          *)
EXTENDS NetworkBlock, FiniteSetTheorems, TLAPS

(* Types without the size of the map and the number of goroutines.         *)
PlainTypeOK ==
  /\ mode \in Modes /\ late \in [Workers -> Nat] /\ now \in Nat
  /\ expires \in [Keys -> Nat]
  /\ kernel \in SUBSET Keys /\ missed \in SUBSET Keys /\ stuck \in SUBSET Keys
  /\ running \in BOOLEAN /\ stopped \in BOOLEAN
  /\ loops \in 0 .. 1
  /\ request \in [Actors -> Requests] /\ waiting \in SUBSET Actors
  /\ stats \in [Callers -> {"idle", "locked", "counted"}]

(* Only the agent starts and stops.                                        *)
RequestInv ==
  \A a \in Actors : request[a].kind \in {"start", "stop"} => a = "agent"

(* There is an expiry goroutine while the enforcer runs, and afterwards    *)
(* only until the Stop that waits for it returns.                          *)
LifecycleInv ==
  /\ running => loops = 1 /\ ~stopped
  /\ ~running => stopped
  /\ loops = 1 /\ ~running => request["agent"].kind = "stop" /\ "agent" \notin waiting

(* The kernel map is within its size.                                      *)
SizeInv == Cardinality(kernel) <= Capacity

NetworkInv == PlainTypeOK /\ RequestInv /\ LifecycleInv /\ SizeInv /\ KernelFollowsList

-----------------------------------------------------------------------------

(* Requests that the actions make are requests.                            *)
LEMMA RequestTypes ==
  /\ None \in Requests
  /\ \A kind \in {"purge", "start", "stop"} : Request(kind, NoKey, 0) \in Requests
  /\ \A k \in Keys : Request("unblock", k, 0) \in Requests
  /\ \A k \in Keys, r \in Rules : Request("block", k, RuleTTL[r]) \in Requests
  /\ \A k \in Keys, ttl \in PolicyTTLs : Request("block", k, ttl) \in Requests
BY DEF Requests, Request, None

(* What a request carries.                                                 *)
LEMMA RequestFields ==
  ASSUME NEW q \in Requests
  PROVE  /\ q.kind \in {"none", "purge", "start", "stop", "block", "unblock"}
         /\ q.kind \in {"block", "unblock"} => q.key \in Keys
         /\ q.kind = "block" => q.ttl \in Nat \ {0}
<1>1. CASE q \in [kind : {"block"}, key : Keys, ttl : {RuleTTL[r] : r \in Rules} \cup PolicyTTLs]
  <2>1. \A t \in {RuleTTL[r] : r \in Rules} \cup PolicyTTLs : t \in Nat \ {0}
    BY NetworkAssumption
  <2> QED  BY <1>1, <2>1
<1>2. CASE q \in [kind : {"unblock"}, key : Keys, ttl : {0}]
  BY <1>2
<1>3. CASE q \in {None, Request("purge", NoKey, 0), Request("start", NoKey, 0), Request("stop", NoKey, 0)}
  BY <1>3 DEF Request, None
<1> QED  BY <1>1, <1>2, <1>3 DEF Requests

(* What a rule blocks is a key.                                            *)
LEMMA RuleKeys ==
  ASSUME NEW r \in Rules, NEW ip \in Remotes, NEW port \in Ports
  PROVE  RuleKey(r, ip, port) \in Keys
BY DEF Keys
-----------------------------------------------------------------------------

(* The invariant holds initially.                                          *)
LEMMA NetworkInitially == NetworkInit => NetworkInv
<1> SUFFICES ASSUME NetworkInit PROVE NetworkInv
  OBVIOUS
<1>1. PlainTypeOK
  <2>1. request \in [Actors -> Requests] /\ stats \in [Callers -> {"idle", "locked", "counted"}]
    BY RequestTypes DEF NetworkInit
  <2>2. expires \in [Keys -> Nat] /\ now \in Nat /\ loops \in 0 .. 1
    BY DEF NetworkInit
  <2>3. mode \in Modes /\ late \in [Workers -> Nat] /\ running \in BOOLEAN /\ stopped \in BOOLEAN
    BY DEF NetworkInit
  <2>4. kernel = {} /\ missed = {} /\ stuck = {} /\ waiting = {}
    BY DEF NetworkInit
  <2> QED  BY <2>1, <2>2, <2>3, <2>4 DEF PlainTypeOK
<1>2. RequestInv /\ LifecycleInv
  BY DEF NetworkInit, RequestInv, LifecycleInv, None, Request
<1>3. SizeInv
  BY FS_EmptySet, NetworkAssumption DEF NetworkInit, SizeInv
<1>4. KernelFollowsList
  BY DEF NetworkInit, KernelFollowsList, Listed
<1> QED  BY <1>1, <1>2, <1>3, <1>4 DEF NetworkInv

(* An actor that asks for something changes its request alone, and perhaps *)
(* starts to wait.                                                         *)
LEMMA AskingPreserves ==
  ASSUME NetworkInv, NEW a \in Actors, NEW q \in Requests,
         q.kind \in {"start", "stop"} => a = "agent",
         request[a] = None, request' = [request EXCEPT ![a] = q],
         waiting' \in {waiting, waiting \cup {a}},
         UNCHANGED <<mode, late, now, lists, lifecycle, stats>>
  PROVE  NetworkInv'
<1> USE DEF NetworkInv, lists, lifecycle
<1>1. PlainTypeOK'
  BY DEF PlainTypeOK
<1>2. RequestInv'
  BY DEF RequestInv, PlainTypeOK
<1>3. LifecycleInv'
  <2>1. "agent" \in Actors /\ None.kind = "none"
    BY DEF Actors, None, Request
  <2>2. loops = 1 /\ ~running => a # "agent"
    BY <2>1 DEF LifecycleInv
  <2> QED  BY <2>1, <2>2 DEF LifecycleInv, PlainTypeOK
<1>4. SizeInv' /\ KernelFollowsList'
  BY DEF SizeInv, KernelFollowsList, Listed
<1> QED  BY <1>1, <1>2, <1>3, <1>4

(* Whoever takes the lock, the count of late blocks is a count.            *)
LEMMA LateTypes ==
  ASSUME late \in [Workers -> Nat], NEW a, NEW kind, Locked(a, kind)
  PROVE  late' \in [Workers -> Nat]
<1>1. ASSUME NEW w \in Workers PROVE late[w] + (IF w = a /\ mode \in Quiet THEN 1 ELSE 0) \in Nat
  <2>1. late[w] \in Nat
    OBVIOUS
  <2> QED  BY <2>1
<1>2. late' = [w \in Workers |-> late[w] + (IF w = a /\ mode \in Quiet THEN 1 ELSE 0)]
  BY DEF Locked
<1> QED  BY <1>1, <1>2

(* A writer that takes the lock and is done leaves the lifecycle as it     *)
(* was; its types and the other requests are not disturbed.                *)
LEMMA LockedPreserves ==
  ASSUME NetworkInv, NEW a \in Actors, NEW kind, Locked(a, kind), Done(a), UNCHANGED lifecycle
  PROVE  /\ late' \in [Workers -> Nat]
         /\ request' \in [Actors -> Requests] /\ waiting' \in SUBSET Actors
         /\ RequestInv' /\ LifecycleInv'
<1> USE DEF NetworkInv, Locked, Done, lifecycle
<1>0. late' \in [Workers -> Nat]
  BY LateTypes DEF PlainTypeOK
<1>1. request' \in [Actors -> Requests] /\ waiting' \in SUBSET Actors
  BY RequestTypes DEF PlainTypeOK
<1>2. RequestInv'
  BY DEF RequestInv, PlainTypeOK, None, Request
<1>3. LifecycleInv'
  BY DEF LifecycleInv, PlainTypeOK, Actors
<1> QED  BY <1>0, <1>1, <1>2, <1>3

(* What leaves the list leaves the kernel or is stuck there.               *)
LEMMA DeletePreserves ==
  ASSUME PlainTypeOK, SizeInv, KernelFollowsList,
         NEW gone \in SUBSET {k \in Keys : Listed(k)}, Delete(gone)
  PROVE  /\ expires' \in [Keys -> Nat]
         /\ kernel' \in SUBSET Keys /\ missed' \in SUBSET Keys /\ stuck' \in SUBSET Keys
         /\ SizeInv' /\ KernelFollowsList'
<1>1. PICK failed \in SUBSET (gone \cap kernel) :
        /\ expires' = [k \in Keys |-> IF k \in gone THEN 0 ELSE expires[k]]
        /\ kernel' = kernel \ (gone \ failed)
        /\ missed' = missed \ gone
        /\ stuck' = stuck \cup failed
  BY DEF Delete
<1>2. /\ expires' \in [Keys -> Nat]
      /\ kernel' \in SUBSET Keys /\ missed' \in SUBSET Keys /\ stuck' \in SUBSET Keys
  BY <1>1 DEF PlainTypeOK
<1>3. SizeInv'
  <2>1. IsFiniteSet(kernel)
    BY FS_Subset, NetworkAssumption DEF PlainTypeOK
  <2>2. kernel' \subseteq kernel
    BY <1>1
  <2>3. Cardinality(kernel') <= Cardinality(kernel) /\ Cardinality(kernel) \in Nat /\ Cardinality(kernel') \in Nat
    BY <2>1, <2>2, FS_Subset, FS_CardinalityType
  <2> QED  BY <2>3, NetworkAssumption DEF SizeInv
<1>4. KernelFollowsList'
  <2> SUFFICES ASSUME NEW k \in Keys
               PROVE  /\ expires'[k] > 0 <=> k \in (kernel' \ stuck') \cup missed'
                      /\ k \in stuck' => k \in kernel'
                      /\ k \in missed' => k \notin kernel'
    BY DEF KernelFollowsList, Listed
  <2>1. /\ expires[k] > 0 <=> k \in (kernel \ stuck) \cup missed
        /\ k \in stuck => k \in kernel
        /\ k \in missed => k \notin kernel
    BY DEF KernelFollowsList, Listed
  <2>2. expires'[k] = IF k \in gone THEN 0 ELSE expires[k]
    BY <1>1
  <2>3. k \in gone => expires[k] > 0
    BY DEF Listed
  <2>4. CASE k \in gone
    BY <1>1, <2>1, <2>2, <2>3, <2>4
  <2>5. CASE k \notin gone
    BY <1>1, <2>1, <2>2, <2>5
  <2> QED  BY <2>4, <2>5
<1> QED  BY <1>2, <1>3, <1>4

(* A block that is entered is in the kernel or was refused there.          *)
LEMMA BlockPreserves ==
  ASSUME NetworkInv, NEW a \in Actors, BlockWithTTL(a)
  PROVE  NetworkInv'
<1> USE DEF NetworkInv
<1> DEFINE k == request[a].key
<1>1. Locked(a, "block") /\ Done(a) /\ UNCHANGED lifecycle
  BY DEF BlockWithTTL
<1>2. k \in Keys /\ request[a].ttl \in Nat \ {0} /\ now \in Nat
  BY <1>1, RequestFields DEF Locked, PlainTypeOK
<1>3. /\ expires' = [expires EXCEPT ![k] = now + request[a].ttl]
      /\ stuck' = stuck \ {k}
      /\ \/ Takes(k) /\ kernel' = kernel \cup {k} /\ missed' = missed \ {k}
         \/ kernel' = kernel /\ missed' = IF k \in kernel THEN missed ELSE missed \cup {k}
  BY DEF BlockWithTTL
<1> HIDE DEF k
<1>4. PlainTypeOK'
  <2>1. UNCHANGED <<mode, now, stats, running, stopped, loops>>
    BY <1>1 DEF Locked, lifecycle
  <2>2. late' \in [Workers -> Nat] /\ request' \in [Actors -> Requests] /\ waiting' \in SUBSET Actors
    BY <1>1, LockedPreserves
  <2>3. expires' \in [Keys -> Nat]
    BY <1>2, <1>3 DEF PlainTypeOK
  <2> QED  BY <1>2, <1>3, <2>1, <2>2, <2>3 DEF PlainTypeOK
<1>5. RequestInv' /\ LifecycleInv'
  BY <1>1, LockedPreserves
<1>6. SizeInv'
  <2>1. IsFiniteSet(kernel) /\ Cardinality(kernel) \in Nat
    BY FS_Subset, FS_CardinalityType, NetworkAssumption DEF PlainTypeOK
  <2>2. CASE k \in kernel \/ kernel' = kernel
    <3>1. kernel' = kernel
      BY <1>3, <2>2
    <3> QED  BY <3>1 DEF SizeInv
  <2>3. CASE k \notin kernel /\ Cardinality(kernel) < Capacity /\ kernel' = kernel \cup {k}
    <3>1. Cardinality(kernel') = Cardinality(kernel) + 1
      BY <2>1, <2>3, FS_AddElement
    <3> QED  BY <2>1, <2>3, <3>1, NetworkAssumption DEF SizeInv
  <2> QED  BY <1>3, <2>2, <2>3 DEF Takes
<1>7. KernelFollowsList'
  <2> SUFFICES ASSUME NEW l \in Keys
               PROVE  /\ expires'[l] > 0 <=> l \in (kernel' \ stuck') \cup missed'
                      /\ l \in stuck' => l \in kernel'
                      /\ l \in missed' => l \notin kernel'
    BY DEF KernelFollowsList, Listed
  <2>1. /\ expires[l] > 0 <=> l \in (kernel \ stuck) \cup missed
        /\ l \in stuck => l \in kernel
        /\ l \in missed => l \notin kernel
    BY DEF KernelFollowsList, Listed
  <2>2. CASE l = k
    <3>1. expires'[l] > 0
      BY <1>2, <1>3, <2>2 DEF PlainTypeOK
    <3> QED  BY <1>3, <2>1, <2>2, <3>1
  <2>3. CASE l # k
    <3>1. expires'[l] = expires[l]
      BY <1>2, <1>3, <2>3 DEF PlainTypeOK
    <3> QED  BY <1>3, <2>1, <2>3, <3>1
  <2> QED  BY <2>2, <2>3
<1> QED  BY <1>4, <1>5, <1>6, <1>7

(* Unblock and the purge let go of listed keys.                            *)
LEMMA RemovalPreserves ==
  ASSUME NetworkInv, NEW a \in Actors, Unblock(a) \/ RemoveExpiredBlocks(a)
  PROVE  NetworkInv'
<1> USE DEF NetworkInv
<1>1. PICK kind : Locked(a, kind) /\ Done(a) /\ UNCHANGED lifecycle
  BY DEF Unblock, RemoveExpiredBlocks
<1>2. PICK gone \in SUBSET {k \in Keys : Listed(k)} : Delete(gone)
  <2>1. {k \in {request[a].key} : Listed(k)} \in SUBSET {k \in Keys : Listed(k)}
    BY DEF Listed
  <2>2. Expired \in SUBSET {k \in Keys : Listed(k)}
    BY DEF Expired
  <2> QED  BY <2>1, <2>2 DEF Unblock, RemoveExpiredBlocks
<1>3. /\ late' \in [Workers -> Nat]
      /\ request' \in [Actors -> Requests] /\ waiting' \in SUBSET Actors
      /\ RequestInv' /\ LifecycleInv'
  BY <1>1, LockedPreserves
<1>4. /\ expires' \in [Keys -> Nat]
      /\ kernel' \in SUBSET Keys /\ missed' \in SUBSET Keys /\ stuck' \in SUBSET Keys
      /\ SizeInv' /\ KernelFollowsList'
  BY <1>2, DeletePreserves
<1>5. PlainTypeOK'
  BY <1>1, <1>3, <1>4 DEF PlainTypeOK, Locked, lifecycle
<1> QED  BY <1>3, <1>4, <1>5

(* The lifecycle: Start finds no goroutine of an earlier one, because Stop *)
(* has waited for it.                                                      *)
LEMMA LifecyclePreserves ==
  ASSUME NetworkInv, Start("agent") \/ Stop("agent") \/ LoopExits \/ StopReturns
  PROVE  NetworkInv'
<1> USE DEF NetworkInv
<1>1. UNCHANGED <<mode, now, lists, stats>>
  BY DEF Start, Stop, LoopExits, StopReturns, Locked, lifecycle
<1>2. "agent" \in Actors
  BY DEF Actors
<1>3. request' \in [Actors -> Requests] /\ waiting' \in SUBSET Actors
  BY RequestTypes DEF Start, Stop, LoopExits, StopReturns, Locked, Done, PlainTypeOK
<1>4. RequestInv'
  <2>1. request' = request \/ request' = [request EXCEPT !["agent"] = None]
    BY DEF Start, Stop, LoopExits, StopReturns, Done
  <2> QED  BY <2>1, <1>2 DEF RequestInv, PlainTypeOK, None, Request
<1>5. /\ running' \in BOOLEAN /\ stopped' \in BOOLEAN /\ loops' \in 0 .. 1
      /\ LifecycleInv'
  <2>1. CASE Start("agent")
    BY <1>2, <2>1 DEF Start, Locked, Done, PlainTypeOK, LifecycleInv
  <2>2. CASE Stop("agent")
    BY <1>2, <2>2 DEF Stop, Locked, Done, PlainTypeOK, LifecycleInv
  <2>3. CASE LoopExits
    BY <1>2, <2>3 DEF LoopExits, PlainTypeOK, LifecycleInv
  <2>4. CASE StopReturns
    BY <1>2, <2>4 DEF StopReturns, Done, lifecycle, PlainTypeOK, LifecycleInv
  <2> QED  BY <2>1, <2>2, <2>3, <2>4
<1>6. PlainTypeOK'
  <2>1. late' \in [Workers -> Nat]
    BY LateTypes DEF Start, Stop, LoopExits, StopReturns, PlainTypeOK
  <2> QED  BY <1>1, <1>3, <1>5, <2>1 DEF PlainTypeOK, lists
<1>7. SizeInv' /\ KernelFollowsList'
  BY <1>1 DEF SizeInv, KernelFollowsList, Listed, lists
<1> QED  BY <1>4, <1>5, <1>6, <1>7

(* Every step preserves the invariant.                                     *)
LEMMA NetworkPreserves == NetworkInv /\ [NetworkNext]_networkVars => NetworkInv'
<1> SUFFICES ASSUME NetworkInv, [NetworkNext]_networkVars PROVE NetworkInv'
  OBVIOUS
<1> USE DEF NetworkInv
<1>1. ASSUME NEW w \in Workers, HandleNetworkBlock(w) PROVE NetworkInv'
  <2>1. PICK r \in Rules, ip \in Remotes, port \in Ports :
          request' = [request EXCEPT ![w] = Request("block", RuleKey(r, ip, port), RuleTTL[r])]
    BY <1>1 DEF HandleNetworkBlock
  <2>2. Request("block", RuleKey(r, ip, port), RuleTTL[r]) \in Requests
    BY RuleKeys, RequestTypes
  <2>3. Request("block", RuleKey(r, ip, port), RuleTTL[r]).kind \notin {"start", "stop"}
    BY DEF Request
  <2> QED  BY <1>1, <2>1, <2>2, <2>3, AskingPreserves DEF HandleNetworkBlock, Actors
<1>2. CASE CallAPI
  <2>1. PICK q \in Requests : q.kind \notin {"start", "stop"} /\ request' = [request EXCEPT !["api"] = q]
    <3>1. PICK k \in Keys :
            \/ /\ k \in PolicyKeys
               /\ \E ttl \in PolicyTTLs : request' = [request EXCEPT !["api"] = Request("block", k, ttl)]
            \/ request' = [request EXCEPT !["api"] = Request("unblock", k, 0)]
      BY <1>2 DEF CallAPI
    <3>2. \A kind, key, ttl : Request(kind, key, ttl).kind = kind
      BY DEF Request
    <3> QED  BY <3>1, <3>2, RequestTypes
  <2> QED  BY <1>2, <2>1, AskingPreserves DEF CallAPI, Actors
<1>3. CASE TickerFires
  <2>1. Request("purge", NoKey, 0) \in Requests /\ Request("purge", NoKey, 0).kind = "purge"
    BY RequestTypes DEF Request
  <2> QED  BY <1>3, <2>1, AskingPreserves DEF TickerFires, Actors
<1>4. CASE CallLifecycle
  <2>1. \A kind \in {"start", "stop"} : Request(kind, NoKey, 0) \in Requests
    BY RequestTypes
  <2> QED  BY <1>4, <2>1, AskingPreserves DEF CallLifecycle, Actors
<1>5. ASSUME NEW w \in Workers, Lock(w) PROVE NetworkInv'
  <2>1. w # "agent"
    BY NetworkAssumption
  <2> QED
    BY <1>5, <2>1 DEF Lock, lists, lifecycle, PlainTypeOK, RequestInv, LifecycleInv,
       SizeInv, KernelFollowsList, Listed, Actors
<1>6. ASSUME NEW a \in Actors, Write(a) PROVE NetworkInv'
  <2>1. Start(a) \/ Stop(a) => a = "agent"
    BY DEF Start, Stop, Locked, RequestInv
  <2> QED  BY <1>6, <2>1, BlockPreserves, RemovalPreserves, LifecyclePreserves DEF Write
<1>7. CASE LoopExits \/ StopReturns
  BY <1>7, LifecyclePreserves
<1>8. ASSUME NEW c \in Callers, StatsLocks(c) \/ StatsCounts(c) \/ StatsReturns(c) PROVE NetworkInv'
  BY <1>8 DEF StatsLocks, StatsCounts, StatsReturns, lists, lifecycle, PlainTypeOK, RequestInv,
     LifecycleInv, SizeInv, KernelFollowsList, Listed
<1>9. ASSUME NEW m \in Modes, SetMode(m) PROVE NetworkInv'
  BY <1>9 DEF SetMode, lists, lifecycle, PlainTypeOK, RequestInv, LifecycleInv, SizeInv,
     KernelFollowsList, Listed
<1>10. CASE Tick
  BY <1>10 DEF Tick, lists, lifecycle, PlainTypeOK, RequestInv, LifecycleInv, SizeInv,
     KernelFollowsList, Listed
<1>11. CASE UNCHANGED networkVars
  BY <1>11 DEF networkVars, lists, lifecycle, PlainTypeOK, RequestInv, LifecycleInv, SizeInv,
     KernelFollowsList, Listed
<1> QED
  BY <1>1, <1>2, <1>3, <1>4, <1>5, <1>6, <1>7, <1>8, <1>9, <1>10, <1>11 DEF NetworkNext

(* The invariant holds always.                                             *)
THEOREM NetworkInvariant == NetworkSpec => []NetworkInv
BY NetworkInitially, NetworkPreserves, PTL DEF NetworkSpec

-----------------------------------------------------------------------------

(* Types are kept and the kernel map never exceeds its size, whoever       *)
(* writes to the list and however often the enforcer is stopped and        *)
(* started (BlockWithTTL, Unblock, removeExpiredBlocks, Start, Stop).      *)
THEOREM NetworkTypes == NetworkSpec => []NetworkTypeOK
<1>1. NetworkInv => NetworkTypeOK
  BY DEF NetworkInv, PlainTypeOK, SizeInv, NetworkTypeOK
<1> QED  BY <1>1, NetworkInvariant, PTL

(* The kernel map follows the list but for the calls that the kernel       *)
(* refused.                                                                *)
THEOREM KernelFollows == NetworkSpec => []KernelFollowsList
<1>1. NetworkInv => KernelFollowsList
  BY DEF NetworkInv
<1> QED  BY <1>1, NetworkInvariant, PTL

(* IsBlocked and check_blocklist look at the same keys, in whatever order. *)
LEMMA SameKeys ==
  ASSUME NEW d \in Destinations
  PROVE  KernelKeys(d) = ListKeys(d)
<1>1. d = [ip |-> d.ip, port |-> d.port, proto |-> d.proto]
  BY DEF Destinations
<1>2. [d EXCEPT !.port = Any, !.proto = Any] = [d EXCEPT !.proto = Any, !.port = Any]
  BY <1>1
<1> QED  BY <1>2 DEF KernelKeys, ListKeys

(* When the kernel has refused nothing, the verdicts of the two agree.     *)
THEOREM VerdictsDoAgree == NetworkSpec => []VerdictsAgree
<1>1. NetworkInv => VerdictsAgree
  <2> SUFFICES ASSUME NetworkInv, missed = {}, stuck = {}, NEW d \in Destinations
               PROVE  /\ IsBlocked(d) => CheckBlocklist(d)
                      /\ CheckBlocklist(d) => \E k \in ListKeys(d) : Listed(k)
    BY DEF VerdictsAgree
  <2>1. kernel \subseteq Keys
    BY DEF NetworkInv, PlainTypeOK
  <2>2. \A k : Listed(k) <=> k \in kernel
    BY <2>1 DEF NetworkInv, KernelFollowsList, Listed
  <2> QED  BY <2>2, SameKeys DEF IsBlocked, CheckBlocklist
<1> QED  BY <1>1, NetworkInvariant, PTL

(* Each worker enters at most one block after a switch to audit or         *)
(* simulate, the one that it had decided on before, however many policies  *)
(* and callers block and unblock beside it (routeDecision,                 *)
(* handleNetworkBlock).                                                    *)
THEOREM LateBlocksAreFew == NetworkSpec => []OneLateBlock
<1>1. NetworkInit => OneLateBlock
  BY DEF NetworkInit, OneLateBlock, Actors
<1>2. ASSUME NetworkInv, OneLateBlock, [NetworkNext]_networkVars PROVE OneLateBlock'
  <2>1. /\ late \in [Workers -> Nat] /\ request \in [Actors -> Requests]
        /\ Workers \subseteq Actors /\ \A w \in Workers : w \notin {"api", "expirer", "agent"}
    BY <1>2, NetworkAssumption DEF NetworkInv, PlainTypeOK, Actors
  <2>2. ASSUME NEW v \in Workers, HandleNetworkBlock(v) PROVE OneLateBlock'
    BY <2>2 DEF HandleNetworkBlock, OneLateBlock
  <2>3. CASE CallAPI \/ TickerFires \/ CallLifecycle
    BY <1>2, <2>1, <2>3 DEF CallAPI, TickerFires, CallLifecycle, OneLateBlock
  <2>4. ASSUME NEW a \in Actors, Write(a) PROVE OneLateBlock'
    <3>1. PICK kind \in {"block", "unblock", "purge", "start", "stop"} : Locked(a, kind)
      BY <2>4 DEF Write, BlockWithTTL, Unblock, RemoveExpiredBlocks, Start, Stop
    <3>2. request[a] # None
      BY <3>1 DEF Locked, None, Request
    <3>3. a \in Workers => Done(a)
      BY <1>2, <2>1, <2>4 DEF Write, BlockWithTTL, Unblock, RemoveExpiredBlocks, Start, Stop, Locked,
         NetworkInv, RequestInv
    <3>4. request' = request \/ Done(a)
      BY <2>4 DEF Write, BlockWithTTL, Unblock, RemoveExpiredBlocks, Start, Stop
    <3>5. mode' = mode
      BY <3>1 DEF Locked
    <3> SUFFICES ASSUME mode \in Quiet, NEW w \in Workers
                 PROVE  late'[w] + (IF request'[w] = None THEN 0 ELSE 1) <= 1
      BY <3>5 DEF OneLateBlock
    <3>6. late[w] \in Nat /\ late[w] + (IF request[w] = None THEN 0 ELSE 1) <= 1
      BY <1>2, <2>1 DEF OneLateBlock
    <3>7. CASE w = a
      <4>1. late'[w] = late[w] + 1
        BY <3>1, <3>7 DEF Locked
      <4>2. request'[w] = None
        BY <2>1, <3>3, <3>7 DEF Done
      <4> QED  BY <3>2, <3>6, <3>7, <4>1, <4>2
    <3>8. CASE w # a
      <4>1. late'[w] = late[w]
        BY <2>1, <3>1, <3>8 DEF Locked
      <4>2. request'[w] = request[w]
        BY <2>1, <3>4, <3>8 DEF Done
      <4> QED  BY <3>6, <4>1, <4>2
    <3> QED  BY <3>7, <3>8
  <2>5. CASE StopReturns
    <3>1. UNCHANGED <<mode, late>> /\ Done("agent")
      BY <2>5 DEF StopReturns
    <3> QED  BY <1>2, <2>1, <3>1 DEF Done, OneLateBlock
  <2>6. ASSUME NEW m \in Modes, SetMode(m) PROVE OneLateBlock'
    <3>1. CASE {mode, m} \subseteq Quiet
      BY <1>2, <2>6, <3>1 DEF SetMode, OneLateBlock
    <3>2. CASE ~({mode, m} \subseteq Quiet)
      BY <2>6, <3>2 DEF SetMode, OneLateBlock
    <3> QED  BY <3>1, <3>2
  <2>7. CASE UNCHANGED <<mode, late, request>>
    BY <1>2, <2>7 DEF OneLateBlock
  <2> QED
    BY <1>2, <2>2, <2>3, <2>4, <2>5, <2>6, <2>7 DEF NetworkNext, networkVars, Lock, LoopExits,
       StatsLocks, StatsCounts, StatsReturns, Tick
<1> QED  BY <1>1, <1>2, NetworkInvariant, PTL DEF NetworkSpec

-----------------------------------------------------------------------------
(* What the TC programs drop, and the deadlock of Stats.                   *)

(* The TC programs drop a packet only for an entry, on the list or stuck   *)
(* in the kernel, whose port is the packet's total length or the wildcard. *)
(* So a rule's block, whose port is never the wildcard unless an event     *)
(* carries it, stops what has that length, and nothing else; a block of a  *)
(* whole host does stop every packet to it, if the kernel took it          *)
(* (parse_tcp_hdr, parse_udp_hdr, check_blocklist).                        *)
DropsByLength ==
  \A pkt \in Packets :
    /\ Dropped(pkt) =>
         \E k \in kernel : /\ k.port \in {pkt.length, Any}
                           /\ Listed(k) \/ k \in stuck
                           /\ k \in PolicyKeys \/ k.port \in Ports \cup {80}
    /\ missed = {} /\ Listed([ip |-> pkt.ip, port |-> Any, proto |-> Any]) => Dropped(pkt)

(* The keys that are looked up for a destination, spelled out.             *)
LEMMA KeysLookedUp ==
  ASSUME NEW ip, NEW port, NEW proto, NEW d, d = [ip |-> ip, port |-> port, proto |-> proto]
  PROVE  KernelKeys(d) = {[ip |-> ip, port |-> port, proto |-> proto],
                          [ip |-> ip, port |-> port, proto |-> Any],
                          [ip |-> ip, port |-> Any, proto |-> Any],
                          [ip |-> Any, port |-> port, proto |-> Any],
                          [ip |-> Any, port |-> port, proto |-> proto]}
<1>1. [d EXCEPT !.proto = Any] = [ip |-> ip, port |-> port, proto |-> Any]
  OBVIOUS
<1>2. [d EXCEPT !.proto = Any, !.port = Any] = [ip |-> ip, port |-> Any, proto |-> Any]
  <2>1. PICK e : e = [d EXCEPT !.proto = Any]
    OBVIOUS
  <2>2. [d EXCEPT !.proto = Any, !.port = Any] = [e EXCEPT !.port = Any]
    BY <2>1
  <2>3. e = [ip |-> ip, port |-> port, proto |-> Any]
    BY <2>1
  <2>4. [e EXCEPT !.port = Any] = [ip |-> ip, port |-> Any, proto |-> Any]
    BY <2>3
  <2> QED  BY <2>2, <2>4
<1>3. [d EXCEPT !.ip = Any, !.proto = Any] = [ip |-> Any, port |-> port, proto |-> Any]
  <2>1. PICK e : e = [d EXCEPT !.ip = Any]
    OBVIOUS
  <2>2. [d EXCEPT !.ip = Any, !.proto = Any] = [e EXCEPT !.proto = Any]
    BY <2>1
  <2>3. e = [ip |-> Any, port |-> port, proto |-> proto]
    BY <2>1
  <2>4. [e EXCEPT !.proto = Any] = [ip |-> Any, port |-> port, proto |-> Any]
    BY <2>3
  <2> QED  BY <2>2, <2>4
<1>4. [d EXCEPT !.ip = Any] = [ip |-> Any, port |-> port, proto |-> proto]
  OBVIOUS
<1> QED  BY <1>1, <1>2, <1>3, <1>4 DEF KernelKeys

(* What a packet is looked up by: its length for its port.                 *)
LEMMA LookedUp ==
  ASSUME NEW pkt \in Packets, NEW d, d = [ip |-> pkt.ip, port |-> DestPort(pkt), proto |-> pkt.proto]
  PROVE  /\ \A k \in KernelKeys(d) : k.port \in {pkt.length, Any}
         /\ [ip |-> pkt.ip, port |-> Any, proto |-> Any] \in KernelKeys(d)
<1>1. PICK t \in Destinations, n \in Lengths :
        pkt = [ip |-> t.ip, port |-> t.port, proto |-> t.proto, length |-> n]
  BY DEF Packets
<1>2. t.proto \in {TCP, UDP}
  BY DEF Destinations
<1>3. pkt.proto \in {TCP, UDP}
  BY <1>1, <1>2
<1>4. DestPort(pkt) = pkt.length
  BY <1>3 DEF DestPort
<1>5. d = [ip |-> pkt.ip, port |-> pkt.length, proto |-> pkt.proto]
  BY <1>4
<1>6. KernelKeys(d) = {[ip |-> pkt.ip, port |-> pkt.length, proto |-> pkt.proto],
                       [ip |-> pkt.ip, port |-> pkt.length, proto |-> Any],
                       [ip |-> pkt.ip, port |-> Any, proto |-> Any],
                       [ip |-> Any, port |-> pkt.length, proto |-> Any],
                       [ip |-> Any, port |-> pkt.length, proto |-> pkt.proto]}
  BY <1>5, KeysLookedUp
<1> QED  BY <1>6

(* The port of a key that no policy blocks.                                *)
LEMMA RulePorts ==
  ASSUME NEW k \in Keys
  PROVE  k \in PolicyKeys \/ k.port \in Ports \cup {80}
BY DEF Keys, RuleKey

(* A block with a port drops what has its length and nothing else, for     *)
(* every list, map and packet; a block of a whole host drops it all.       *)
THEOREM PortsMeetLengths == NetworkSpec => []DropsByLength
<1>1. NetworkInv => DropsByLength
  <2> SUFFICES ASSUME NetworkInv, NEW pkt \in Packets
               PROVE  /\ Dropped(pkt) =>
                           \E k \in kernel : /\ k.port \in {pkt.length, Any}
                                             /\ Listed(k) \/ k \in stuck
                                             /\ k \in PolicyKeys \/ k.port \in Ports \cup {80}
                      /\ missed = {} /\ Listed([ip |-> pkt.ip, port |-> Any, proto |-> Any])
                           => Dropped(pkt)
    BY DEF DropsByLength
  <2>1. PICK d : d = [ip |-> pkt.ip, port |-> DestPort(pkt), proto |-> pkt.proto]
    OBVIOUS
  <2>2. Dropped(pkt) <=> KernelKeys(d) \cap kernel # {}
    BY <2>1 DEF Dropped, CheckBlocklist
  <2>3. /\ kernel \subseteq Keys
        /\ \A k \in kernel : Listed(k) \/ k \in stuck
        /\ missed = {} => \A k : Listed(k) => k \in kernel
    BY DEF NetworkInv, PlainTypeOK, KernelFollowsList, Listed
  <2>4. ASSUME Dropped(pkt)
        PROVE  \E k \in kernel : /\ k.port \in {pkt.length, Any}
                                 /\ Listed(k) \/ k \in stuck
                                 /\ k \in PolicyKeys \/ k.port \in Ports \cup {80}
    <3>1. PICK k \in kernel : k \in KernelKeys(d)
      BY <2>2, <2>4
    <3>2. k.port \in {pkt.length, Any}
      BY <2>1, <3>1, LookedUp
    <3>3. k \in PolicyKeys \/ k.port \in Ports \cup {80}
      BY <2>3, RulePorts
    <3> QED  BY <2>3, <3>2, <3>3
  <2>5. missed = {} /\ Listed([ip |-> pkt.ip, port |-> Any, proto |-> Any]) => Dropped(pkt)
    BY <2>1, <2>2, <2>3, LookedUp
  <2> QED  BY <2>4, <2>5
<1> QED  BY <1>1, NetworkInvariant, PTL

(* Once a Stats that holds the read lock meets a writer that waits, that   *)
(* is the end: the Stats never returns, no writer that waits is served,    *)
(* and the list and the kernel stay as they are, so nothing expires and    *)
(* nothing is blocked any more (Stats, BlockCount).                        *)
StatsTraps ==
  [][StatsStuck =>
       /\ StatsStuck' /\ waiting \subseteq waiting'
       /\ \A c \in Callers : stats[c] = "locked" => stats'[c] = "locked"
       /\ UNCHANGED <<lists, running, stopped>>]_networkVars

(* The deadlock of Stats, the exception of WritersReturn and               *)
(* ExpiredIsLifted, is final, whoever else is at work.                     *)
THEOREM StatsStaysStuck == NetworkSpec => StatsTraps
<1>1. ASSUME NetworkInv, [NetworkNext]_networkVars, StatsStuck
      PROVE  /\ StatsStuck' /\ waiting \subseteq waiting'
             /\ \A c \in Callers : stats[c] = "locked" => stats'[c] = "locked"
             /\ UNCHANGED <<lists, running, stopped>>
  <2>1. stats \in [Callers -> {"idle", "locked", "counted"}]
    BY <1>1 DEF NetworkInv, PlainTypeOK
  <2>2. ASSUME NEW a \in Actors, Write(a) PROVE FALSE
    BY <1>1, <2>2 DEF Write, BlockWithTTL, Unblock, RemoveExpiredBlocks, Start, Stop, Locked, StatsStuck
  <2>3. /\ waiting \subseteq waiting' /\ UNCHANGED <<lists, running, stopped>>
        /\ \A c \in Callers : stats[c] = "locked" => stats'[c] = "locked"
    <3>1. ASSUME NEW c \in Callers, StatsLocks(c) \/ StatsCounts(c) PROVE FALSE
      BY <1>1, <3>1 DEF StatsLocks, StatsCounts, StatsStuck
    <3>2. ASSUME NEW c \in Callers, StatsReturns(c)
          PROVE  /\ UNCHANGED <<waiting, lists, running, stopped>>
                 /\ \A b \in Callers : stats[b] = "locked" => stats'[b] = "locked"
      BY <2>1, <3>2 DEF StatsReturns, lifecycle
    <3>3. CASE UNCHANGED <<stats, lists, running, stopped>> /\ waiting \subseteq waiting'
      BY <3>3
    <3>4. CASE UNCHANGED networkVars
      BY <3>4 DEF networkVars, lifecycle
    <3>5. CASE CallAPI \/ TickerFires \/ CallLifecycle \/ LoopExits \/ StopReturns \/ Tick
      BY <3>3, <3>5 DEF CallAPI, TickerFires, CallLifecycle, LoopExits, StopReturns, Tick, lifecycle
    <3>6. ASSUME NEW w \in Workers, HandleNetworkBlock(w) \/ Lock(w)
          PROVE  UNCHANGED <<stats, lists, running, stopped>> /\ waiting \subseteq waiting'
      BY <3>6 DEF HandleNetworkBlock, Lock, lifecycle
    <3>7. ASSUME NEW m \in Modes, SetMode(m)
          PROVE  UNCHANGED <<stats, lists, running, stopped, waiting>>
      BY <3>7 DEF SetMode, lifecycle
    <3> QED  BY <1>1, <2>2, <3>1, <3>2, <3>3, <3>4, <3>5, <3>6, <3>7 DEF NetworkNext
  <2> QED  BY <1>1, <2>3 DEF StatsStuck
<1>2. NetworkInv /\ [NetworkNext]_networkVars =>
        [StatsStuck =>
           /\ StatsStuck' /\ waiting \subseteq waiting'
           /\ \A c \in Callers : stats[c] = "locked" => stats'[c] = "locked"
           /\ UNCHANGED <<lists, running, stopped>>]_networkVars
  BY <1>1
<1> QED  BY <1>2, NetworkInvariant, PTL DEF NetworkSpec, StatsTraps
=============================================================================
