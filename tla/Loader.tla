------------------------------- MODULE Loader -------------------------------
(***************************************************************************)
(* The life cycle of the eBPF loader (pkg/ebpf/loader.go): the agent's     *)
(* goroutine loads, attaches, starts and stops it, in any order; other     *)
(* goroutines update its kernel maps meanwhile; its readers take records   *)
(* from the ring buffers and deliver them to the event channel.            *)
(*                                                                         *)
(* l.mu is a Go RWMutex, which is not reentrant.  The calls that take it   *)
(* for reading hold it for the map update alone, which is one step here.   *)
(* What an event says is left out: the filter passes any or drops it.      *)
(***************************************************************************)
EXTENDS Naturals, Sequences, FiniteSets

CONSTANTS
  Categories,    \* AllProbeCategories, a sequence (four in the code)
  Updaters,      \* goroutines that call AddContainerCgroup and its kind
  ChannelSize,   \* the capacity of eventCh (2048 in the agent)
  MaxLifeCalls,  \* bound: calls of Load, Attach, Start and Stop
  MaxRecords     \* bound: records the kernel writes

ASSUME LoaderAssumption ==
  /\ Categories \in Seq(STRING) /\ ChannelSize \in Nat
  /\ MaxLifeCalls \in Nat /\ MaxRecords \in Nat

VARIABLES
  loader,    \* the fields of Loader: collections, linked, running, stopped (stopCh)
  locker,    \* the holder of l.mu for writing: "nobody" or "owner"
  life,      \* the agent's goroutine: its call, and how far it is
  update,    \* update[u]: has u a map update under way
  reader,    \* reader[c]: the goroutine that reads the ring buffer of c
  eventCh,   \* the number of events in the channel
  mockMode,  \* no BTF on this host, or no Linux
  written    \* bound: the calls and the records so far

loaderVars == <<loader, locker, life, update, reader, eventCh, mockMode, written>>

CategorySet == {Categories[k] : k \in DOMAIN Categories}
LifeOps == {"Load", "Attach", "Start", "Stop"}
Resting == [op |-> "none", at |-> "idle", next |-> 1]

LoaderTypeOK ==
  /\ loader \in [collections : SUBSET CategorySet, linked : SUBSET CategorySet,
                 running : BOOLEAN, stopped : BOOLEAN, panicked : BOOLEAN]
  /\ locker \in {"nobody", "owner"}
  /\ life \in [op : LifeOps \cup {"none"}, next : 1..(Len(Categories) + 1),
               at : {"idle", "called", "loading", "populating", "spawning", "waiting"}]
  /\ update \in [Updaters -> BOOLEAN]
  /\ reader \in [CategorySet -> {"none", "reading", "holding", "closed"}]
  /\ eventCh \in 0..ChannelSize
  /\ mockMode \in BOOLEAN
  /\ written \in [calls : 0..MaxLifeCalls, records : 0..MaxRecords]

-----------------------------------------------------------------------------

Alive == ~loader.panicked
At(op, place) == Alive /\ life.op = op /\ life.at = place
Goto(place) == life' = [life EXCEPT !.at = place]
Unlock == locker' = "nobody"

(* The call returns, and releases the lock it holds.                       *)
ReturnUnlocked == life' = Resting /\ Unlock

CallLifecycle(op) ==
  /\ Alive /\ life = Resting /\ written.calls < MaxLifeCalls
  /\ life' = [op |-> op, at |-> "called", next |-> 1]
  /\ written' = [written EXCEPT !.calls = @ + 1]
  /\ UNCHANGED <<loader, locker, update, reader, eventCh, mockMode>>

(* Load takes the lock; it fails when the loader runs, or without BTF,     *)
(* which is every time in mock mode: both look for the same file.          *)
BeginLoad ==
  /\ At("Load", "called") /\ locker = "nobody"
  /\ IF loader.running \/ mockMode
       THEN ReturnUnlocked
       ELSE Goto("loading") /\ locker' = "owner"
  /\ UNCHANGED <<loader, update, reader, eventCh, mockMode, written>>

(* The object file of a category is missing, or loaded, or cannot be; what *)
(* was loaded before stays then.                                           *)
LoadCategory ==
  /\ At("Load", "loading") /\ life.next <= Len(Categories)
  /\ \E outcome \in {"missing", "loaded", "failed"} :
       /\ loader' = IF outcome # "loaded" THEN loader
                    ELSE [loader EXCEPT !.collections = @ \cup {Categories[life.next]}]
       /\ IF outcome = "failed" THEN ReturnUnlocked
          ELSE life' = [life EXCEPT !.next = @ + 1] /\ UNCHANGED locker
  /\ UNCHANGED <<update, reader, eventCh, mockMode, written>>

(* All categories are done: populateKernelMaps comes next.                 *)
BeginPopulate ==
  /\ At("Load", "loading") /\ life.next > Len(Categories)
  /\ Goto("populating")
  /\ UNCHANGED <<loader, locker, update, reader, eventCh, mockMode, written>>

(* Who waits for the read lock: a map update of another goroutine, or the  *)
(* AddMonitoredSyscall that populateKernelMaps calls.                      *)
WantsToUpdate(u) == IF u = "owner" THEN life.at = "populating" ELSE update[u]

(* A map update takes the read lock, so nobody may hold the lock for       *)
(* writing: that Load holds it itself makes no difference.                 *)
MapUpdate(u) ==
  /\ Alive /\ WantsToUpdate(u) /\ locker = "nobody"
  /\ IF u = "owner" THEN ReturnUnlocked /\ UNCHANGED update
     ELSE update' = [update EXCEPT ![u] = FALSE] /\ UNCHANGED <<life, locker>>
  /\ UNCHANGED <<loader, reader, eventCh, mockMode, written>>

CallUpdate(u) ==
  /\ Alive /\ ~update[u]
  /\ update' = [update EXCEPT ![u] = TRUE]
  /\ UNCHANGED <<loader, locker, life, reader, eventCh, mockMode, written>>

(* Attach: a program that cannot be attached is left out with a warning.   *)
Attach ==
  /\ At("Attach", "called") /\ locker = "nobody"
  /\ ReturnUnlocked
  /\ \E linked \in SUBSET loader.collections :
       loader' = IF loader.running \/ mockMode THEN loader
                 ELSE [loader EXCEPT !.linked = @ \cup linked]
  /\ UNCHANGED <<update, reader, eventCh, mockMode, written>>

(* Start marks the loader running under the lock, and opens the readers    *)
(* after it.                                                               *)
BeginStart ==
  /\ At("Start", "called") /\ locker = "nobody"
  /\ IF loader.running THEN life' = Resting /\ UNCHANGED loader
     ELSE loader' = [loader EXCEPT !.running = TRUE] /\ Goto("spawning")
  /\ UNCHANGED <<locker, update, reader, eventCh, mockMode, written>>

(* A collection's ring buffer is opened, or cannot be.                     *)
OpenReader ==
  /\ At("Start", "spawning")
  /\ LET c == Categories[life.next] IN
     IF life.next > Len(Categories) THEN life' = Resting /\ UNCHANGED reader
     ELSE /\ life' = [life EXCEPT !.next = @ + 1]
          /\ \E opened \in {"reading", "none"} :
               reader' = IF c \in loader.collections THEN [reader EXCEPT ![c] = opened] ELSE reader
  /\ UNCHANGED <<loader, locker, update, eventCh, mockMode, written>>

(* Stop does nothing to a loader that was never started.  It closes        *)
(* stopCh, which panics the second time, and the readers.                  *)
BeginStop ==
  /\ At("Stop", "called") /\ locker = "nobody"
  /\ IF ~loader.running THEN ReturnUnlocked /\ UNCHANGED <<loader, reader>>
     ELSE /\ locker' = "owner" /\ Goto("waiting")
          /\ loader' = [loader EXCEPT !.stopped = TRUE, !.panicked = loader.stopped]
          /\ reader' = [c \in CategorySet |-> IF reader[c] = "reading" THEN "closed" ELSE reader[c]]
  /\ UNCHANGED <<update, eventCh, mockMode, written>>

(* wg.Wait, then the links and the collections are closed.                 *)
EndStop ==
  /\ At("Stop", "waiting")
  /\ \A c \in CategorySet : reader[c] = "none"
  /\ loader' = [loader EXCEPT !.collections = {}, !.linked = {}, !.running = FALSE]
  /\ ReturnUnlocked
  /\ UNCHANGED <<update, reader, eventCh, mockMode, written>>

-----------------------------------------------------------------------------

(* A record arrives in the ring buffer of c; one that cannot be decoded is *)
(* skipped.                                                                *)
ReadRecord(c) ==
  /\ Alive /\ reader[c] = "reading" /\ c \in loader.linked
  /\ written.records < MaxRecords /\ written' = [written EXCEPT !.records = @ + 1]
  /\ \E decoded \in {"holding", "reading"} : reader' = [reader EXCEPT ![c] = decoded]
  /\ UNCHANGED <<loader, locker, life, update, eventCh, mockMode>>

(* Where a reader that has delivered goes on: Read fails once Stop closed  *)
(* the reader.                                                             *)
AfterDelivery == IF At("Stop", "waiting") THEN "closed" ELSE "reading"

(* A mutant: a reader waits for room in the channel.                       *)
DeliverBlocking(c) ==
  /\ Alive /\ reader[c] = "holding"
  /\ eventCh < ChannelSize /\ eventCh' = eventCh + 1
  /\ reader' = [reader EXCEPT ![c] = AfterDelivery]
  /\ UNCHANGED <<loader, locker, life, update, mockMode, written>>

(* deliver: the filter drops the event, or there is no room and the event  *)
(* is dropped, or it is sent.                                              *)
DeliverEvent(c) ==
  /\ Alive /\ reader[c] = "holding"
  /\ \E passed \in BOOLEAN :
       eventCh' = IF passed /\ eventCh < ChannelSize THEN eventCh + 1 ELSE eventCh
  /\ reader' = [reader EXCEPT ![c] = AfterDelivery]
  /\ UNCHANGED <<loader, locker, life, update, mockMode, written>>

(* Read of a closed reader fails, or of one that fails by itself.          *)
EndRead(c) ==
  /\ Alive /\ reader[c] \in {"closed", "reading"}
  /\ reader' = [reader EXCEPT ![c] = "none"]
  /\ UNCHANGED <<loader, locker, life, update, eventCh, mockMode, written>>

(* The pipeline takes an event; it may have stopped to.                    *)
TakeEvent ==
  /\ Alive /\ eventCh > 0
  /\ eventCh' = eventCh - 1
  /\ UNCHANGED <<loader, locker, life, update, reader, mockMode, written>>

LoaderInit ==
  /\ loader = [collections |-> {}, linked |-> {}, running |-> FALSE,
               stopped |-> FALSE, panicked |-> FALSE]
  /\ locker = "nobody" /\ life = Resting
  /\ update = [u \in Updaters |-> FALSE]
  /\ reader = [c \in CategorySet |-> "none"]
  /\ eventCh = 0
  /\ mockMode \in BOOLEAN
  /\ written = [calls |-> 0, records |-> 0]

LifeStep ==
  \/ BeginLoad \/ LoadCategory \/ BeginPopulate
  \/ Attach \/ BeginStart \/ OpenReader
  \/ BeginStop \/ EndStop

ReaderStep(c) == DeliverEvent(c) \/ (reader[c] = "closed" /\ EndRead(c))

LoaderNext ==
  \/ \E op \in LifeOps : CallLifecycle(op)
  \/ \E u \in Updaters : CallUpdate(u)
  \/ \E u \in Updaters \cup {"owner"} : MapUpdate(u)
  \/ \E c \in CategorySet : ReadRecord(c) \/ ReaderStep(c) \/ EndRead(c)
  \/ LifeStep \/ TakeEvent

(* The goroutines run; nothing is assumed of the pipeline and the kernel.  *)
LoaderFairness ==
  /\ WF_loaderVars(LifeStep)
  /\ \A u \in Updaters \cup {"owner"} : WF_loaderVars(MapUpdate(u))
  /\ \A c \in CategorySet : WF_loaderVars(ReaderStep(c))

LoaderSpec == LoaderInit /\ [][LoaderNext]_loaderVars /\ LoaderFairness

-----------------------------------------------------------------------------

(* Every call of the loader and of its map updates returns, whatever the   *)
(* readers hold and however full the event channel is, unless a Load has   *)
(* reached its map updates, or a second Stop has panicked.                 *)
LoaderCallsReturn ==
  /\ (life # Resting) ~> (life = Resting \/ life.at = "populating" \/ ~Alive)
  /\ \A u \in Updaters : update[u] ~> (~update[u] \/ life.at = "populating" \/ ~Alive)

(* loader_linux_test.go:52: Load returns on a host with BTF, and populates *)
(* the collections.                                                        *)
LoadReturns == (life.op = "Load") ~> (life.op # "Load")
=============================================================================
