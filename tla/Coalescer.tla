----------------------------- MODULE Coalescer -----------------------------
(***************************************************************************)
(* The alert coalescer (pkg/pipeline/coalescer.go).  Workers add alerts;   *)
(* alerts with the same key (rule, container, process name) form a group,  *)
(* whose first member the worker emits itself and whose other members are  *)
(* only counted.  A flush takes all groups at once, under the mutex, and   *)
(* then emits one record per group, outside it.                            *)
(*                                                                         *)
(* A group keeps the set of its members; CoalesceEntry.Count is its size.  *)
(* Two goroutines flush: the coalescer loop, and Stop for the last time.   *)
(***************************************************************************)
EXTENDS FiniteSets

CONSTANTS
  Alerts,        \* the alerts that may be added, each once
  CoalesceKeys,
  KeyOf          \* the key of each alert

ASSUME CoalescerAssumption == KeyOf \in [Alerts -> CoalesceKeys]

Flushers == {"loop", "stop"}

VARIABLES
  groups,   \* groups[k]: the open group of key k, as a set of at most one group
  batch,    \* batch[f]: the groups that flusher f has taken and not yet emitted
  owed,     \* the alerts that Add has left to its caller to emit
  emitted,  \* the records handed to the alert emitter
  added     \* history: the alerts that were added

coalescerVars == <<groups, batch, owed, emitted, added>>

Group == [first : Alerts, members : SUBSET Alerts]
Emission == [first : Alerts, members : SUBSET Alerts, by : {"worker", "flush"}]

CoalescerTypeOK ==
  /\ groups \in [CoalesceKeys -> SUBSET Group]
  /\ batch \in [Flushers -> SUBSET Group]
  /\ owed \subseteq Alerts
  /\ emitted \subseteq Emission
  /\ added \subseteq Alerts

-----------------------------------------------------------------------------

(* Add returns true: the alert joins a group that is open.                 *)
Join(a) ==
  /\ a \notin added
  /\ \E g \in groups[KeyOf[a]] :
       groups' = [groups EXCEPT ![KeyOf[a]] =
                    {[first |-> g.first, members |-> g.members \cup {a}]}]
  /\ added' = added \cup {a}
  /\ UNCHANGED <<batch, owed, emitted>>

(* Add returns false: the alert opens a group, and its caller emits it.    *)
Open(a) ==
  /\ a \notin added
  /\ groups[KeyOf[a]] = {}
  /\ groups' = [groups EXCEPT ![KeyOf[a]] = {[first |-> a, members |-> {a}]}]
  /\ added' = added \cup {a}
  /\ owed' = owed \cup {a}
  /\ UNCHANGED <<batch, emitted>>

(* emitAlert, after Add has returned false.                                *)
EmitFirst(a) ==
  /\ a \in owed
  /\ owed' = owed \ {a}
  /\ emitted' = emitted \cup {[first |-> a, members |-> {a}, by |-> "worker"]}
  /\ UNCHANGED <<groups, batch, added>>

(* A mutant: the groups are copied before the mutex is taken, and only     *)
(* emptied under it.                                                       *)
TakeStale(f) ==
  /\ batch[f] = {}
  /\ \E taken \in SUBSET CoalesceKeys :
       batch' = [batch EXCEPT ![f] = UNION {groups[k] : k \in taken}]
  /\ groups' = [k \in CoalesceKeys |-> {}]
  /\ UNCHANGED <<owed, emitted, added>>

(* Flush, under the mutex: the groups are taken, a new map is put in place.*)
Take(f) ==
  /\ batch[f] = {}
  /\ batch' = [batch EXCEPT ![f] = UNION {groups[k] : k \in CoalesceKeys}]
  /\ groups' = [k \in CoalesceKeys |-> {}]
  /\ UNCHANGED <<owed, emitted, added>>

(* Flush, after the mutex: one record for each group, also for a group of  *)
(* one alert, whose first member the worker emits as well.                 *)
EmitGroup(f, g) ==
  /\ g \in batch[f]
  /\ batch' = [batch EXCEPT ![f] = @ \ {g}]
  /\ emitted' = emitted \cup {[first |-> g.first, members |-> g.members, by |-> "flush"]}
  /\ UNCHANGED <<groups, owed, added>>

CoalescerInit ==
  /\ groups = [k \in CoalesceKeys |-> {}]
  /\ batch = [f \in Flushers |-> {}]
  /\ owed = {}
  /\ emitted = {}
  /\ added = {}

CoalescerNext ==
  \/ \E a \in Alerts : Join(a) \/ Open(a) \/ EmitFirst(a)
  \/ \E f \in Flushers : Take(f) \/ \E g \in batch[f] : EmitGroup(f, g)

CoalescerSpec == CoalescerInit /\ [][CoalescerNext]_coalescerVars

-----------------------------------------------------------------------------

(* All groups, wherever they are: open, taken by a flusher, or emitted.    *)
Places ==
  (UNION {{[at |-> "open", group |-> g] : g \in groups[k]} : k \in CoalesceKeys})
    \cup (UNION {{[at |-> f, group |-> g] : g \in batch[f]} : f \in Flushers})
    \cup {[at |-> "out", group |-> [first |-> r.first, members |-> r.members]] :
             r \in {r \in emitted : r.by = "flush"}}

(* No alert is lost and none is counted twice: each alert that was added   *)
(* belongs to one group at one place, with alerts of its own key, however  *)
(* additions and the two flushers interleave (Add, Flush).                 *)
CountedOnce ==
  \A a \in added : \E p \in Places :
    /\ a \in p.group.members
    /\ \A q \in Places : a \in q.group.members => q = p
    /\ \A b \in p.group.members : KeyOf[b] = KeyOf[a]

(* coalescer.go:3: "Same process in same container hitting same rule       *)
(* within 5s -> 1 record with event_count".                                *)
OneRecordPerGroup ==
  \A r, s \in emitted : r.members \cap s.members # {} => r = s
=============================================================================
