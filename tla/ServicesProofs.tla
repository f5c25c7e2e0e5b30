--------------------------- MODULE ServicesProofs ---------------------------
(***************************************************************************)
(* Proofs about the eBPF loader, and that the parts of the agent put       *)
(* together in MCServices keep what is proved of each by itself.           *)
(***************************************************************************)
EXTENDS MCServices, EnforcementProofs, AlertOutputProofs, EnrichmentProofs

-----------------------------------------------------------------------------
(* The loader.                                                             *)

(* Who is inside Load or Stop, past its first lines, holds the lock.       *)
LockOK == locker = "owner" <=> life.at \in {"loading", "populating", "waiting"}

LoaderInv == LoaderTypeOK /\ LockOK

LEMMA LoaderInitInv == LoaderInit => LoaderInv
<1> SUFFICES ASSUME LoaderInit PROVE LoaderInv
  OBVIOUS
<1>1. Len(Categories) \in Nat /\ 1 \in 1..(Len(Categories) + 1)
  BY LenProperties, LoaderAssumption
<1>2. 0 \in 0..ChannelSize /\ 0 \in 0..MaxLifeCalls /\ 0 \in 0..MaxRecords
  BY LoaderAssumption
<1> QED BY <1>1, <1>2 DEF LoaderInit, LoaderInv, LoaderTypeOK, LockOK, Resting

LEMMA LoaderStepInv == LoaderInv /\ [LoaderNext]_loaderVars => LoaderInv'
<1> SUFFICES ASSUME LoaderInv, [LoaderNext]_loaderVars PROVE LoaderInv'
  OBVIOUS
<1>1. PICK n : n = Len(Categories) /\ n \in Nat
  BY LenProperties, LoaderAssumption
<1>2. \A k \in 1..n : Categories[k] \in CategorySet
  BY <1>1, LenProperties, LoaderAssumption DEF CategorySet
<1>3. /\ loader \in [collections : SUBSET CategorySet, linked : SUBSET CategorySet,
                     running : BOOLEAN, stopped : BOOLEAN, panicked : BOOLEAN]
      /\ locker \in {"nobody", "owner"}
      /\ life \in [op : LifeOps \cup {"none"}, next : 1..(n + 1),
                   at : {"idle", "called", "loading", "populating", "spawning", "waiting"}]
      /\ update \in [Updaters -> BOOLEAN]
      /\ reader \in [CategorySet -> {"none", "reading", "holding", "closed"}]
      /\ eventCh \in 0..ChannelSize /\ mockMode \in BOOLEAN
      /\ written \in [calls : 0..MaxLifeCalls, records : 0..MaxRecords]
      /\ LockOK
  BY <1>1 DEF LoaderInv, LoaderTypeOK
<1>4. Resting \in [op : LifeOps \cup {"none"}, next : 1..(n + 1),
                   at : {"idle", "called", "loading", "populating", "spawning", "waiting"}]
      /\ Resting.at = "idle"
  BY <1>1 DEF Resting
<1>5. ASSUME NEW op \in LifeOps, CallLifecycle(op) PROVE LoaderInv'
  <2>1. written' \in [calls : 0..MaxLifeCalls, records : 0..MaxRecords]
    BY <1>3, <1>5, LoaderAssumption DEF CallLifecycle
  <2>2. 1 \in 1..(n + 1)
    BY <1>1
  <2> QED BY <1>1, <1>3, <1>4, <1>5, <2>1, <2>2 DEF CallLifecycle, LoaderInv, LoaderTypeOK, LockOK
<1>6. CASE BeginLoad \/ BeginPopulate \/ Attach \/ BeginStart \/ EndStop
  <2>1. CASE BeginLoad
    BY <1>1, <1>3, <1>4, <2>1 DEF BeginLoad, At, Goto, Unlock, ReturnUnlocked, LoaderInv, LoaderTypeOK, LockOK
  <2>2. CASE BeginPopulate
    BY <1>1, <1>3, <1>4, <2>2 DEF BeginPopulate, At, Goto, LoaderInv, LoaderTypeOK, LockOK
  <2>3. CASE Attach
    BY <1>1, <1>3, <1>4, <2>3 DEF Attach, At, Unlock, ReturnUnlocked, LoaderInv, LoaderTypeOK, LockOK
  <2>4. CASE BeginStart
    <3>1. life.at = "called" /\ UNCHANGED <<locker, update, reader, eventCh, mockMode, written>>
      BY <2>4 DEF BeginStart, At
    <3>2. CASE loader.running
      BY <1>1, <1>3, <1>4, <2>4, <3>1, <3>2 DEF BeginStart, LoaderInv, LoaderTypeOK, LockOK
    <3>3. CASE ~loader.running
      <4>1. loader' = [loader EXCEPT !.running = TRUE] /\ life' = [life EXCEPT !.at = "spawning"]
        BY <2>4, <3>3 DEF BeginStart, Goto
      <4>2. loader' \in [collections : SUBSET CategorySet, linked : SUBSET CategorySet,
                         running : BOOLEAN, stopped : BOOLEAN, panicked : BOOLEAN]
        BY <1>3, <4>1
      <4>3. LockOK'
        BY <1>3, <3>1, <4>1 DEF LockOK
      <4> QED BY <1>1, <1>3, <3>1, <4>1, <4>2, <4>3 DEF LoaderInv, LoaderTypeOK
    <3> QED BY <3>2, <3>3
  <2>5. CASE EndStop
    BY <1>1, <1>3, <1>4, <2>5 DEF EndStop, At, Unlock, ReturnUnlocked, LoaderInv, LoaderTypeOK, LockOK
  <2> QED BY <1>6, <2>1, <2>2, <2>3, <2>4, <2>5
<1>7. CASE LoadCategory
  <2>1. life.next \in 1..n /\ life.next + 1 \in 1..(n + 1) /\ Categories[life.next] \in CategorySet
    BY <1>1, <1>2, <1>3, <1>7 DEF LoadCategory
  <2>2. PICK m, c : m = life.next + 1 /\ c = Categories[life.next]
    OBVIOUS
  <2>3. m \in 1..(n + 1) /\ c \in CategorySet
    BY <2>1, <2>2
  <2>4. /\ UNCHANGED <<update, reader, eventCh, mockMode, written>>
        /\ loader' = loader \/ loader' = [loader EXCEPT !.collections = loader.collections \cup {c}]
        /\ \/ life' = Resting /\ locker' = "nobody"
           \/ life' = [life EXCEPT !.next = m] /\ locker' = locker
    BY <1>7, <2>2 DEF LoadCategory, ReturnUnlocked, Unlock
  <2> QED BY <1>1, <1>3, <1>4, <2>3, <2>4 DEF LoaderInv, LoaderTypeOK, LockOK
<1>8. CASE OpenReader
  <2>1. life.at = "spawning" /\ UNCHANGED <<loader, locker, update, eventCh, mockMode, written>>
    BY <1>8 DEF OpenReader, At
  <2>2. CASE life.next > n
    BY <1>1, <1>3, <1>4, <1>8, <2>1, <2>2 DEF OpenReader, LoaderInv, LoaderTypeOK, LockOK
  <2>3. CASE ~(life.next > n)
    <3>1. PICK m, c : m = life.next + 1 /\ c = Categories[life.next]
      OBVIOUS
    <3>2. m \in 1..(n + 1) /\ c \in CategorySet
      BY <1>1, <1>2, <1>3, <2>3, <3>1
    <3>3. /\ life' = [life EXCEPT !.next = m]
          /\ \E opened \in {"reading", "none"} :
               reader' = IF c \in loader.collections THEN [reader EXCEPT ![c] = opened] ELSE reader
      BY <1>1, <1>8, <2>3, <3>1 DEF OpenReader
    <3> QED BY <1>1, <1>3, <2>1, <3>2, <3>3 DEF LoaderInv, LoaderTypeOK, LockOK
  <2> QED BY <2>2, <2>3
<1>9. CASE BeginStop
  <2>1. life.at = "called" /\ UNCHANGED <<update, eventCh, mockMode, written>>
    BY <1>9 DEF BeginStop, At
  <2>2. CASE ~loader.running
    BY <1>1, <1>3, <1>4, <1>9, <2>1, <2>2
       DEF BeginStop, Unlock, ReturnUnlocked, LoaderInv, LoaderTypeOK, LockOK
  <2>3. CASE loader.running
    <3>1. /\ locker' = "owner" /\ life' = [life EXCEPT !.at = "waiting"]
          /\ loader' = [loader EXCEPT !.stopped = TRUE, !.panicked = loader.stopped]
          /\ reader' = [c \in CategorySet |-> IF reader[c] = "reading" THEN "closed" ELSE reader[c]]
      BY <1>9, <2>3 DEF BeginStop, Goto
    <3>2. reader' \in [CategorySet -> {"none", "reading", "holding", "closed"}]
      BY <1>3, <3>1
    <3> QED BY <1>1, <1>3, <2>1, <3>1, <3>2 DEF LoaderInv, LoaderTypeOK, LockOK
  <2> QED BY <2>2, <2>3
<1>10. ASSUME NEW u \in Updaters, CallUpdate(u) PROVE LoaderInv'
  BY <1>1, <1>3, <1>10 DEF CallUpdate, LoaderInv, LoaderTypeOK, LockOK
<1>11. ASSUME NEW u \in Updaters \cup {"owner"}, MapUpdate(u) PROVE LoaderInv'
  <2>1. locker = "nobody" /\ UNCHANGED <<loader, reader, eventCh, mockMode, written>>
    BY <1>11 DEF MapUpdate
  <2>2. CASE u = "owner"
    BY <1>1, <1>3, <1>4, <1>11, <2>1, <2>2
       DEF MapUpdate, Unlock, ReturnUnlocked, LoaderInv, LoaderTypeOK, LockOK
  <2>3. CASE u # "owner"
    <3>1. update' = [update EXCEPT ![u] = FALSE] /\ UNCHANGED <<life, locker>>
      BY <1>11, <2>3 DEF MapUpdate
    <3>2. update' \in [Updaters -> BOOLEAN]
      BY <1>3, <3>1
    <3> QED BY <1>1, <1>3, <2>1, <3>1, <3>2 DEF LoaderInv, LoaderTypeOK, LockOK
  <2> QED BY <2>2, <2>3
<1>12. ASSUME NEW c \in CategorySet, ReadRecord(c) PROVE LoaderInv'
  <2>1. written' \in [calls : 0..MaxLifeCalls, records : 0..MaxRecords]
    <3>1. PICK m : m = written.records + 1
      OBVIOUS
    <3>2. m \in 0..MaxRecords /\ written' = [written EXCEPT !.records = m]
      BY <1>3, <1>12, <3>1, LoaderAssumption DEF ReadRecord
    <3> QED BY <1>3, <3>2
  <2> QED BY <1>1, <1>3, <1>12, <2>1 DEF ReadRecord, LoaderInv, LoaderTypeOK, LockOK
<1>13. ASSUME NEW c \in CategorySet, DeliverEvent(c) \/ EndRead(c) PROVE LoaderInv'
  <2>1. eventCh' \in 0..ChannelSize
    BY <1>3, <1>13, LoaderAssumption DEF DeliverEvent, EndRead
  <2>2. reader' \in [CategorySet -> {"none", "reading", "holding", "closed"}]
    BY <1>3, <1>13 DEF DeliverEvent, EndRead, AfterDelivery
  <2>3. UNCHANGED <<loader, locker, life, update, mockMode, written>>
    BY <1>13 DEF DeliverEvent, EndRead
  <2> QED BY <1>1, <1>3, <2>1, <2>2, <2>3 DEF LoaderInv, LoaderTypeOK, LockOK
<1>14. CASE TakeEvent
  <2>1. eventCh' \in 0..ChannelSize
    BY <1>3, <1>14, LoaderAssumption DEF TakeEvent
  <2> QED BY <1>1, <1>3, <1>14, <2>1 DEF TakeEvent, LoaderInv, LoaderTypeOK, LockOK
<1>15. CASE UNCHANGED loaderVars
  BY <1>1, <1>3, <1>15 DEF loaderVars, LoaderInv, LoaderTypeOK, LockOK
<1> QED BY <1>5, <1>6, <1>7, <1>8, <1>9, <1>10, <1>11, <1>12, <1>13, <1>14, <1>15
        DEF LoaderNext, LifeStep, ReaderStep

(* A Load that has reached its map updates waits for the lock it holds     *)
(* itself: it stays there, and so does the lock (Load, AddMonitoredSyscall *)
(* of populateKernelMaps).                                                 *)
StuckInLoad == [][life.at = "populating" => UNCHANGED <<life, locker>>]_loaderVars

LEMMA PopulatingStays ==
  LoaderInv /\ [LoaderNext]_loaderVars => [life.at = "populating" => UNCHANGED <<life, locker>>]_loaderVars
<1> SUFFICES ASSUME LoaderInv, LoaderNext, life.at = "populating" PROVE UNCHANGED <<life, locker>>
  OBVIOUS
<1>1. locker = "owner" /\ life # Resting
  BY DEF LoaderInv, LockOK, Resting
<1>2. ASSUME NEW op \in LifeOps PROVE ~CallLifecycle(op)
  BY <1>1 DEF CallLifecycle
<1>3. ~LifeStep
  BY DEF LifeStep, BeginLoad, LoadCategory, BeginPopulate, Attach, BeginStart, OpenReader, BeginStop,
         EndStop, At
<1>4. ASSUME NEW u \in Updaters \cup {"owner"} PROVE ~MapUpdate(u)
  BY <1>1 DEF MapUpdate
<1>5. CASE \E u \in Updaters : CallUpdate(u)
  BY <1>5 DEF CallUpdate
<1>6. CASE \E c \in CategorySet : ReadRecord(c) \/ DeliverEvent(c) \/ EndRead(c)
  BY <1>6 DEF ReadRecord, DeliverEvent, EndRead
<1>7. CASE TakeEvent
  BY <1>7 DEF TakeEvent
<1> QED BY <1>2, <1>3, <1>4, <1>5, <1>6, <1>7 DEF LoaderNext, ReaderStep

LEMMA LoaderInvHolds == LoaderSpec => []LoaderInv
BY LoaderInitInv, LoaderStepInv, PTL DEF LoaderSpec

(* A Load that has reached its map updates never returns, and every other  *)
(* call of the loader waits for it, on every host with BTF (Load,          *)
(* populateKernelMaps, AddMonitoredSyscall).                               *)
THEOREM LoadStaysStuck == LoaderSpec => StuckInLoad
BY LoaderInvHolds, PopulatingStays, PTL DEF LoaderSpec, StuckInLoad

(* The fields of the loader, its readers and its channel have their types; *)
(* and its lock is held exactly while the agent is past the first lines of *)
(* Load or Stop: no early return keeps it (Load, Stop).                    *)
THEOREM LoaderTyped == LoaderSpec => [](LoaderTypeOK /\ LockOK)
BY LoaderInvHolds DEF LoaderInv

-----------------------------------------------------------------------------
(* The parts together: each step is a step of one part, and the others     *)
(* stutter.                                                                *)

LEMMA EachPartSteps ==
  [ServicesNext]_servicesVars =>
    /\ [Next]_vars /\ [OutputNext]_outputVars /\ [EnrichNext]_enrichVars
    /\ [LinkedCacheNext]_cacheListVars /\ [LoaderNext]_loaderVars
    /\ UNCHANGED part
<1> SUFFICES ASSUME [ServicesNext]_servicesVars
             PROVE  /\ [Next]_vars /\ [OutputNext]_outputVars /\ [EnrichNext]_enrichVars
                    /\ [LinkedCacheNext]_cacheListVars /\ [LoaderNext]_loaderVars
                    /\ UNCHANGED part
  OBVIOUS
<1>1. CASE UNCHANGED servicesVars
  BY <1>1 DEF servicesVars
<1>2. CASE ServicesNext
  BY <1>2 DEF ServicesNext, Only
<1> QED BY <1>1, <1>2

PartOK == part \in {"enforcement", "output", "enrichment", "cgroups", "cache", "loader"}

LEMMA EachPartStarts ==
  ServicesInit => /\ Init /\ OutputInit /\ EnrichInit /\ LinkedCacheInit /\ LoaderInit
                  /\ PartOK
BY DEF ServicesInit, PartOK

(* The parts keep their types when they run together (Start of the agent). *)
THEOREM ServicesTyped == ServicesSpec => []ServicesTypeOK
<1>1. PartOK /\ UNCHANGED part => PartOK'
  BY DEF PartOK
<1>2. ServicesSpec => [](PartOK /\ IInv /\ OutputInvariant /\ EnrichInv /\ CacheInv /\ LoaderInv)
  BY <1>1, EachPartStarts, EachPartSteps, InitInv, InvStep, OutputInitInvariant, OutputNextInvariant,
     EnrichInitInv, EnrichStepInv, CacheInitInv, CacheStepInv, LoaderInitInv, LoaderStepInv, PTL
     DEF ServicesSpec
<1>3. PartOK /\ IInv /\ OutputInvariant /\ EnrichInv /\ CacheInv /\ LoaderInv => ServicesTypeOK
  BY TypeParts, InvariantTyped, EnrichInvTyped, CacheInvTyped
     DEF PartOK, IInv, LoaderInv, ServicesTypeOK
<1> QED BY <1>2, <1>3, PTL
=============================================================================
