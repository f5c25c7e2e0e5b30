---------------------------- MODULE LinkedCache ----------------------------
(***************************************************************************)
(* The PID cache and the CRI cache of pkg/enrichment/container.go: two     *)
(* caches with the same doubly linked list, written twice.  The PID cache  *)
(* always has a capacity, and its entries expire; the CRI cache may have   *)
(* none (0), and has Delete.                                               *)
(*                                                                         *)
(* The values of the entries are left out; an entry is fresh until its TTL *)
(* is over, and idle once its last access is long ago.  The mutex of a     *)
(* cache is free between the steps, but not while doomed is not empty.     *)
(***************************************************************************)
EXTENDS Naturals, FiniteSets, SequencesExt

CONSTANTS
  CacheKeys,   \* PIDs, or container IDs
  NoKey,       \* a nil pointer
  Capacities   \* the capacities to look at; 0: unlimited, of a CRI cache only

ASSUME CacheAssumption == NoKey \notin CacheKeys /\ Capacities \subseteq Nat

VARIABLES
  kind,     \* "pid" or "cri"
  size,     \* the capacity
  list,     \* the list: head, tail and the nodes of the entries
  doomed    \* what the loop of Reap or Prune has yet to remove

cacheListVars == <<kind, size, list, doomed>>

Node == [prev : CacheKeys \cup {NoKey}, next : CacheKeys \cup {NoKey},
         fresh : BOOLEAN, idle : BOOLEAN]

Entries == DOMAIN list.node

LinkedCacheTypeOK ==
  /\ kind \in {"pid", "cri"} /\ size \in Capacities
  /\ Entries \subseteq CacheKeys /\ list.node \in [Entries -> Node]
  /\ list.head \in CacheKeys \cup {NoKey} /\ list.tail \in CacheKeys \cup {NoKey}
  /\ doomed \subseteq Entries
  /\ size > 0 => Cardinality(Entries) <= size

-----------------------------------------------------------------------------
(* The list.                                                               *)

removeEntry(l, k) ==
  LET p == l.node[k].prev
      n == l.node[k].next
      unlinked == [j \in DOMAIN l.node |->
        [l.node[j] EXCEPT
           !.next = IF j = p THEN n ELSE IF j = k THEN NoKey ELSE l.node[j].next,
           !.prev = IF j = n THEN p ELSE IF j = k THEN NoKey ELSE l.node[j].prev]]
  IN [head |-> IF p = NoKey THEN n ELSE l.head, tail |-> IF n = NoKey THEN p ELSE l.tail,
      node |-> unlinked]

addToFront(l, k) ==
  [head |-> k, tail |-> IF l.tail = NoKey THEN k ELSE l.tail,
   node |-> [j \in DOMAIN l.node |->
     [l.node[j] EXCEPT
        !.prev = IF j = l.head THEN k ELSE IF j = k THEN NoKey ELSE l.node[j].prev,
        !.next = IF j = k THEN l.head ELSE l.node[j].next]]]

(* A mutant: the head is put in front of itself.                           *)
moveHeadToFront(l, k) == addToFront(IF k = l.tail THEN removeEntry(l, k) ELSE l, k)

moveToFront(l, k) == IF k = l.head THEN l ELSE addToFront(removeEntry(l, k), k)

(* An entry leaves the list, and the map.                                  *)
drop(l, k) ==
  LET r == removeEntry(l, k) IN
  [r EXCEPT !.node = [j \in DOMAIN r.node \ {k} |-> r.node[j]]]

(* A mutant: a full cache evicts nothing.                                  *)
evictNothing(l) == l

evictLRU(l) == IF l.tail = NoKey THEN l ELSE drop(l, l.tail)

-----------------------------------------------------------------------------

(* An access of an entry, and one that begins its TTL anew.                *)
Accessed(l, k) == [l EXCEPT !.node = [l.node EXCEPT ![k].idle = FALSE]]
Renewed(l, k) ==
  [l EXCEPT !.node = [l.node EXCEPT ![k] = [l.node[k] EXCEPT !.fresh = TRUE, !.idle = FALSE]]]

(* A new entry, in the map but not yet in the list.                        *)
inserted(l, k) ==
  [l EXCEPT !.node = [j \in DOMAIN l.node \cup {k} |->
     IF j = k THEN [prev |-> NoKey, next |-> NoKey, fresh |-> TRUE, idle |-> FALSE]
              ELSE l.node[j]]]

(* Set: an entry that exists is renewed and moves to the front; a new one  *)
(* pushes out the last one if the cache is full.                           *)
SetEntry(k) ==
  /\ doomed = {}
  /\ \/ /\ k \in Entries
        /\ list' = moveToFront(Renewed(list, k), k)
     \/ /\ k \notin Entries /\ (size > 0 => Cardinality(Entries) < size)
        /\ list' = addToFront(inserted(list, k), k)
     \/ /\ k \notin Entries /\ size > 0 /\ Cardinality(Entries) >= size
        /\ list' = addToFront(inserted(evictLRU(list), k), k)
  /\ UNCHANGED <<kind, size, doomed>>

(* Get notes the access of an entry, of a PID only while it is fresh.  It  *)
(* leaves the list alone; the comment in it says "Move to front".          *)
GetEntry(k) ==
  /\ doomed = {} /\ k \in Entries /\ (kind = "pid" => list.node[k].fresh)
  /\ list' = Accessed(list, k)
  /\ UNCHANGED <<kind, size, doomed>>

Drop(k) ==
  /\ list' = drop(list, k)
  /\ UNCHANGED <<kind, size>>

DeleteEntry(k) ==
  /\ kind = "cri" /\ doomed = {} /\ k \in Entries
  /\ Drop(k)
  /\ UNCHANGED doomed

(* Reap and Prune look at the clock once, and then walk over the map, in   *)
(* the order Go chooses.                                                   *)
ReapExpired ==
  /\ kind = "pid" /\ doomed = {}
  /\ doomed' = {k \in Entries : ~list.node[k].fresh}
  /\ UNCHANGED <<kind, size, list>>

PruneIdle ==
  /\ doomed = {}
  /\ doomed' = {k \in Entries : list.node[k].idle}
  /\ UNCHANGED <<kind, size, list>>

DropNext ==
  \E k \in doomed : Drop(k) /\ doomed' = doomed \ {k}

(* Time goes by for an entry.                                              *)
Age(k) ==
  /\ k \in Entries
  /\ \/ list' = [list EXCEPT !.node = [list.node EXCEPT ![k].fresh = FALSE]]
     \/ list' = [list EXCEPT !.node = [list.node EXCEPT ![k].idle = TRUE]]
  /\ UNCHANGED <<kind, size, doomed>>

LinkedCacheInit ==
  /\ kind \in {"pid", "cri"} /\ size \in Capacities /\ (kind = "pid" => size > 0)
  /\ list = [head |-> NoKey, tail |-> NoKey, node |-> [k \in {} |-> NoKey]]
  /\ doomed = {}

LinkedCacheNext ==
  \/ \E k \in CacheKeys : SetEntry(k) \/ GetEntry(k) \/ DeleteEntry(k) \/ Age(k)
  \/ ReapExpired \/ PruneIdle \/ DropNext

LinkedCacheSpec == LinkedCacheInit /\ [][LinkedCacheNext]_cacheListVars

-----------------------------------------------------------------------------

(* The list and the map hold the same entries, each once, whatever was     *)
(* moved, evicted, reaped, pruned or deleted in between: head, tail and    *)
(* the pointers spell out the keys of the map in some order, forwards and  *)
(* backwards (addToFront, moveToFront, removeEntry).  Which order that is, *)
(* and so which entry a full cache evicts, is another matter.              *)
ListHoldsEntries ==
  \E order \in SetToSeqs(Entries) :
    LET at(i) == IF i \in DOMAIN order THEN order[i] ELSE NoKey IN
    /\ list.head = at(1) /\ list.tail = at(Len(order))
    /\ \A i \in DOMAIN order : /\ list.node[order[i]].next = at(i + 1)
                               /\ list.node[order[i]].prev = at(i - 1)
=============================================================================
