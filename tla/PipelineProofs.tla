--------------------------- MODULE PipelineProofs ---------------------------
(***************************************************************************)
(* Theorems about modules Coalescer and Pipeline, and their proofs.  The   *)
(* pipeline runs the coalescer (PipelineRunsCoalescer), so what holds of   *)
(* every interleaving of Add and Flush holds of the pipeline; that nothing *)
(* is left after Stop needs to know who may still add.                     *)
(***************************************************************************)
EXTENDS Pipeline, TLAPS

(* Where a group may lie: open, taken by a flusher, or emitted by a flush. *)
Spots == {"open", "out"} \cup Flushers

RecordOf(g) == [first |-> g.first, members |-> g.members, by |-> "flush"]

Lies(x, g) ==
  \/ x = "open" /\ \E k \in CoalesceKeys : g \in groups[k]
  \/ x \in Flushers /\ g \in batch[x]
  \/ x = "out" /\ RecordOf(g) \in emitted

(* The open groups: one for a key, of alerts of that key.                  *)
OpenInv ==
  \A k \in CoalesceKeys : \A g \in groups[k] :
    /\ \A h \in groups[k] : h = g
    /\ \A b \in g.members : KeyOf[b] = k

(* A group has only alerts that were added, of one key.                    *)
MembersInv ==
  \A x \in Spots : \A g \in Group : Lies(x, g) =>
    /\ g.members \subseteq added
    /\ \A a, b \in g.members : KeyOf[a] = KeyOf[b]

(* Two groups share no alert.                                              *)
ApartInv ==
  \A x, y \in Spots : \A g, h \in Group : \A a \in Alerts :
    Lies(x, g) /\ Lies(y, h) /\ a \in g.members /\ a \in h.members => x = y /\ g = h

(* Every alert that was added is in a group.                               *)
CoveredInv ==
  \A a \in added : \E x \in Spots : \E g \in Group : Lies(x, g) /\ a \in g.members

CoalescerInv == CoalescerTypeOK /\ OpenInv /\ MembersInv /\ ApartInv /\ CoveredInv

-----------------------------------------------------------------------------
(* The coalescer.                                                          *)

LEMMA CoalescerTypeStep ==
  ASSUME CoalescerTypeOK, [CoalescerNext]_coalescerVars
  PROVE  CoalescerTypeOK'
<1>1. ASSUME NEW a \in Alerts, Join(a) PROVE CoalescerTypeOK'
  <2>1. PICK g \in groups[KeyOf[a]] : groups' = [groups EXCEPT ![KeyOf[a]] =
                    {[first |-> g.first, members |-> g.members \cup {a}]}]
    BY <1>1 DEF Join
  <2>2. KeyOf[a] \in CoalesceKeys
    BY CoalescerAssumption
  <2>3. g \in Group
    BY <2>2 DEF CoalescerTypeOK
  <2>4. [first |-> g.first, members |-> g.members \cup {a}] \in Group
    BY <2>3 DEF Group
  <2>5. groups' \in [CoalesceKeys -> SUBSET Group]
    BY <2>1, <2>2, <2>4 DEF CoalescerTypeOK
  <2> QED
    BY <1>1, <2>5 DEF Join, CoalescerTypeOK
<1>2. ASSUME NEW a \in Alerts, Open(a) PROVE CoalescerTypeOK'
  BY <1>2, CoalescerAssumption DEF Open, CoalescerTypeOK, Group
<1>3. ASSUME NEW a \in Alerts, EmitFirst(a) PROVE CoalescerTypeOK'
  BY <1>3 DEF EmitFirst, CoalescerTypeOK, Emission
<1>4. ASSUME NEW f \in Flushers, Take(f) PROVE CoalescerTypeOK'
  <2>1. UNION {groups[k] : k \in CoalesceKeys} \in SUBSET Group
    BY DEF CoalescerTypeOK
  <2> QED
    BY <1>4, <2>1 DEF Take, CoalescerTypeOK
<1>5. ASSUME NEW f \in Flushers, NEW g \in batch[f], EmitGroup(f, g) PROVE CoalescerTypeOK'
  <2>1. g \in Group
    BY DEF CoalescerTypeOK
  <2>2. RecordOf(g) \in Emission
    BY <2>1 DEF RecordOf, Group, Emission
  <2> QED
    BY <1>5, <2>2 DEF EmitGroup, CoalescerTypeOK, RecordOf
<1>6. CASE UNCHANGED coalescerVars
  BY <1>6 DEF coalescerVars, CoalescerTypeOK
<1> QED
  BY <1>1, <1>2, <1>3, <1>4, <1>5, <1>6 DEF CoalescerNext

(* Where the groups lie after each step.                                   *)
LEMMA JoinMoves ==
  ASSUME CoalescerTypeOK, OpenInv, NEW a \in Alerts, Join(a)
  PROVE  \E g, h \in Group :
           /\ h.first = g.first /\ h.members = g.members \cup {a}
           /\ groups[KeyOf[a]] = {g} /\ groups' = [groups EXCEPT ![KeyOf[a]] = {h}]
           /\ Lies("open", g) /\ Lies("open", h)'
           /\ \A x \in Spots : \A q \in Group : Lies(x, q)' => Lies(x, q) \/ (x = "open" /\ q = h)
           /\ \A x \in Spots : \A q \in Group : Lies(x, q) => Lies(x, q)' \/ (x = "open" /\ q = g)
<1>1. KeyOf[a] \in CoalesceKeys
  BY CoalescerAssumption
<1>2. PICK g \in groups[KeyOf[a]] : groups' = [groups EXCEPT ![KeyOf[a]] =
                    {[first |-> g.first, members |-> g.members \cup {a}]}]
  BY DEF Join
<1>3. g \in Group /\ groups[KeyOf[a]] = {g}
  BY <1>1, <1>2 DEF CoalescerTypeOK, OpenInv
<1>4. PICK h : h = [first |-> g.first, members |-> g.members \cup {a}]
  OBVIOUS
<1>5. h \in Group /\ h.first = g.first /\ h.members = g.members \cup {a}
  BY <1>3, <1>4 DEF Group
<1>6. groups' = [groups EXCEPT ![KeyOf[a]] = {h}]
  BY <1>2, <1>4
<1>7. groups \in [CoalesceKeys -> SUBSET Group] /\ UNCHANGED <<batch, emitted>>
  BY DEF Join, CoalescerTypeOK
<1>8. Lies("open", g) /\ Lies("open", h)'
  BY <1>1, <1>3, <1>6, <1>7 DEF Lies
<1>9. \A x \in Spots : \A q \in Group : Lies(x, q)' => Lies(x, q) \/ (x = "open" /\ q = h)
  BY <1>1, <1>6, <1>7 DEF Lies, RecordOf
<1>10. \A x \in Spots : \A q \in Group : Lies(x, q) => Lies(x, q)' \/ (x = "open" /\ q = g)
  BY <1>1, <1>3, <1>6, <1>7 DEF Lies, RecordOf
<1> QED
  BY <1>3, <1>5, <1>6, <1>8, <1>9, <1>10

LEMMA JoinKeeps ==
  ASSUME CoalescerInv, NEW a \in Alerts, Join(a)
  PROVE  OpenInv' /\ MembersInv' /\ ApartInv' /\ CoveredInv'
<1>1. PICK g, h \in Group :
           /\ h.first = g.first /\ h.members = g.members \cup {a}
           /\ groups[KeyOf[a]] = {g} /\ groups' = [groups EXCEPT ![KeyOf[a]] = {h}]
           /\ Lies("open", g) /\ Lies("open", h)'
           /\ \A x \in Spots : \A q \in Group : Lies(x, q)' => Lies(x, q) \/ (x = "open" /\ q = h)
           /\ \A x \in Spots : \A q \in Group : Lies(x, q) => Lies(x, q)' \/ (x = "open" /\ q = g)
  BY JoinMoves DEF CoalescerInv
<1>2. a \notin added /\ added' = added \cup {a} /\ added \subseteq Alerts
  BY DEF Join, CoalescerInv, CoalescerTypeOK
<1>3. KeyOf[a] \in CoalesceKeys /\ groups \in [CoalesceKeys -> SUBSET Group]
  BY CoalescerAssumption DEF CoalescerInv, CoalescerTypeOK
<1>4. "open" \in Spots
  BY DEF Spots
<1>5. \A b \in g.members : KeyOf[b] = KeyOf[a]
  BY <1>1, <1>3 DEF CoalescerInv, OpenInv
<1>6. OpenInv'
  BY <1>1, <1>3, <1>5 DEF CoalescerInv, OpenInv
<1>7. \A x \in Spots : \A q \in Group : Lies(x, q) => q.members \subseteq added
  BY DEF CoalescerInv, MembersInv
<1>8. MembersInv'
  <2> SUFFICES ASSUME NEW x \in Spots, NEW q \in Group, Lies(x, q)'
               PROVE  q.members \subseteq added' /\ \A b, c \in q.members : KeyOf[b] = KeyOf[c]
    BY DEF MembersInv
  <2>1. CASE Lies(x, q)
    BY <2>1, <1>2 DEF CoalescerInv, MembersInv
  <2>2. CASE q = h
    BY <2>2, <1>1, <1>2, <1>4, <1>5, <1>7
  <2> QED
    BY <1>1, <2>1, <2>2
(* The group that grows leaves its old self behind in no place.            *)
<1>9. \A b \in g.members : ~Lies("open", g)'
  <2> SUFFICES ASSUME NEW b \in g.members, Lies("open", g)' PROVE FALSE
    OBVIOUS
  <2>1. PICK k \in CoalesceKeys : g \in groups'[k]
    BY DEF Lies, Flushers
  <2>2. CASE k = KeyOf[a]
    BY <2>1, <2>2, <1>1, <1>2, <1>3, <1>4, <1>7
  <2>3. CASE k # KeyOf[a]
    <3>1. g \in groups[k]
      BY <2>1, <2>3, <1>1, <1>3
    <3> QED
      BY <3>1, <2>3, <1>5 DEF CoalescerInv, OpenInv
  <2> QED
    BY <2>2, <2>3
<1>10. ASSUME NEW x \in Spots, NEW q \in Group, Lies(x, q)', NEW b \in Alerts,
              b \in q.members, b \in h.members
       PROVE  x = "open" /\ q = h
  <2>1. CASE x = "open" /\ q = h
    BY <2>1
  <2>2. CASE Lies(x, q)
    <3>1. b # a
      BY <2>2, <1>2, <1>7, <1>10
    <3>2. b \in g.members
      BY <3>1, <1>1, <1>10
    <3>3. x = "open" /\ q = g
      BY <2>2, <3>2, <1>1, <1>4, <1>10 DEF CoalescerInv, ApartInv
    <3> QED
      BY <3>2, <3>3, <1>9, <1>10
  <2> QED
    BY <1>1, <1>10, <2>1, <2>2
<1>11. ApartInv'
  <2> SUFFICES ASSUME NEW x \in Spots, NEW y \in Spots, NEW q \in Group, NEW r \in Group,
                      NEW b \in Alerts, Lies(x, q)', Lies(y, r)', b \in q.members, b \in r.members
               PROVE  x = y /\ q = r
    BY DEF ApartInv
  <2>1. CASE x = "open" /\ q = h
    BY <2>1, <1>10
  <2>2. CASE y = "open" /\ r = h
    BY <2>2, <1>10
  <2>3. CASE Lies(x, q) /\ Lies(y, r)
    BY <2>3 DEF CoalescerInv, ApartInv
  <2> QED
    BY <1>1, <2>1, <2>2, <2>3
<1>12. CoveredInv'
  <2> SUFFICES ASSUME NEW b \in added'
               PROVE  \E x \in Spots : \E q \in Group : Lies(x, q)' /\ b \in q.members
    BY DEF CoveredInv
  <2>1. CASE b = a
    BY <2>1, <1>1, <1>4
  <2>2. CASE b \in added
    <3>1. PICK x \in Spots, q \in Group : Lies(x, q) /\ b \in q.members
      BY <2>2 DEF CoalescerInv, CoveredInv
    <3>2. CASE Lies(x, q)'
      BY <3>1, <3>2
    <3>3. CASE x = "open" /\ q = g
      BY <3>1, <3>3, <1>1, <1>4
    <3> QED
      BY <3>1, <3>2, <3>3, <1>1
  <2> QED
    BY <2>1, <2>2, <1>2
<1> QED
  BY <1>6, <1>8, <1>11, <1>12

LEMMA OpenKeeps ==
  ASSUME CoalescerInv, NEW a \in Alerts, Open(a)
  PROVE  OpenInv' /\ MembersInv' /\ ApartInv' /\ CoveredInv'
<1>1. KeyOf[a] \in CoalesceKeys /\ groups \in [CoalesceKeys -> SUBSET Group]
  BY CoalescerAssumption DEF CoalescerInv, CoalescerTypeOK
<1>2. PICK h : h = [first |-> a, members |-> {a}]
  OBVIOUS
<1>3. h \in Group /\ h.members = {a}
  BY <1>2 DEF Group
<1>4. groups[KeyOf[a]] = {} /\ groups' = [groups EXCEPT ![KeyOf[a]] = {h}]
  BY <1>2 DEF Open
<1>5. a \notin added /\ added' = added \cup {a} /\ UNCHANGED <<batch, emitted>>
  BY DEF Open
<1>6. Lies("open", h)' /\ "open" \in Spots
  BY <1>1, <1>4 DEF Lies, Spots
<1>7. \A x \in Spots : \A q \in Group : Lies(x, q)' => Lies(x, q) \/ (x = "open" /\ q = h)
  BY <1>1, <1>4, <1>5 DEF Lies, RecordOf
<1>8. \A x \in Spots : \A q \in Group : Lies(x, q) => Lies(x, q)'
  BY <1>1, <1>4, <1>5 DEF Lies, RecordOf
<1>9. \A x \in Spots : \A q \in Group : Lies(x, q) => q.members \subseteq added
  BY DEF CoalescerInv, MembersInv
<1>10. OpenInv'
  BY <1>1, <1>3, <1>4 DEF CoalescerInv, OpenInv
<1>11. MembersInv'
  BY <1>3, <1>5, <1>7 DEF CoalescerInv, MembersInv
<1>12. ApartInv'
  <2> SUFFICES ASSUME NEW x \in Spots, NEW y \in Spots, NEW q \in Group, NEW r \in Group,
                      NEW b \in Alerts, Lies(x, q)', Lies(y, r)', b \in q.members, b \in r.members
               PROVE  x = y /\ q = r
    BY DEF ApartInv
  <2>1. CASE b = a
    BY <2>1, <1>5, <1>7, <1>9
  <2>2. CASE b # a
    BY <2>2, <1>3, <1>7 DEF CoalescerInv, ApartInv
  <2> QED
    BY <2>1, <2>2
<1>13. CoveredInv'
  <2>1. ASSUME NEW b \in added
        PROVE  \E x \in Spots : \E q \in Group : Lies(x, q)' /\ b \in q.members
    BY <1>8 DEF CoalescerInv, CoveredInv
  <2> QED
    BY <2>1, <1>3, <1>5, <1>6 DEF CoveredInv
<1> QED
  BY <1>10, <1>11, <1>12, <1>13

(* The groups stay where they are.                                         *)
LEMMA NoMoveKeeps ==
  ASSUME CoalescerInv, UNCHANGED <<groups, batch, added>>,
         \A g \in Group : RecordOf(g) \in emitted' <=> RecordOf(g) \in emitted
  PROVE  OpenInv' /\ MembersInv' /\ ApartInv' /\ CoveredInv'
<1>1. \A x \in Spots : \A q \in Group : Lies(x, q)' <=> Lies(x, q)
  BY DEF Lies
<1>2. OpenInv'
  BY DEF CoalescerInv, OpenInv
<1>3. MembersInv'
  BY <1>1 DEF CoalescerInv, MembersInv
<1>4. ApartInv'
  BY <1>1 DEF CoalescerInv, ApartInv
<1>5. CoveredInv'
  BY <1>1 DEF CoalescerInv, CoveredInv
<1> QED
  BY <1>2, <1>3, <1>4, <1>5

(* One group, or all of a spot, move from one spot to another.             *)
LEMMA MoveKeeps ==
  ASSUME CoalescerInv, UNCHANGED added, NEW from \in Spots, NEW to \in Spots,
         NEW moved \in SUBSET Group, from # to,
         \A g \in moved : Lies(from, g),
         \A g \in Group : Lies(from, g)' <=> Lies(from, g) /\ g \notin moved,
         \A g \in Group : Lies(to, g)' <=> Lies(to, g) \/ g \in moved,
         \A x \in Spots \ {from, to} : \A g \in Group : Lies(x, g)' <=> Lies(x, g)
  PROVE  MembersInv' /\ ApartInv' /\ CoveredInv'
<1>1. ASSUME NEW x \in Spots, NEW g \in Group, Lies(x, g)'
      PROVE  Lies(x, g) \/ (x = to /\ g \in moved)
  BY <1>1
<1>2. MembersInv'
  BY <1>1 DEF CoalescerInv, MembersInv
<1>3. ApartInv'
  <2> SUFFICES ASSUME NEW x \in Spots, NEW y \in Spots, NEW g \in Group, NEW h \in Group,
                      NEW a \in Alerts, Lies(x, g)', Lies(y, h)', a \in g.members, a \in h.members
               PROVE  x = y /\ g = h
    BY DEF ApartInv
  <2>1. CASE Lies(x, g) /\ Lies(y, h)
    BY <2>1 DEF CoalescerInv, ApartInv
  <2>2. CASE x = to /\ g \in moved /\ Lies(y, h)
    <3>1. y = from /\ g = h
      BY <2>2 DEF CoalescerInv, ApartInv
    <3> QED
      BY <2>2, <3>1
  <2>3. CASE y = to /\ h \in moved /\ Lies(x, g)
    <3>1. x = from /\ g = h
      BY <2>3 DEF CoalescerInv, ApartInv
    <3> QED
      BY <2>3, <3>1
  <2>4. CASE x = to /\ g \in moved /\ y = to /\ h \in moved
    BY <2>4 DEF CoalescerInv, ApartInv
  <2> QED
    BY <1>1, <2>1, <2>2, <2>3, <2>4
<1>4. CoveredInv'
  <2> SUFFICES ASSUME NEW a \in added
               PROVE  \E x \in Spots : \E g \in Group : Lies(x, g)' /\ a \in g.members
    BY DEF CoveredInv
  <2>1. PICK x \in Spots, g \in Group : Lies(x, g) /\ a \in g.members
    BY DEF CoalescerInv, CoveredInv
  <2>2. CASE x = from /\ g \in moved
    BY <2>1, <2>2
  <2>3. CASE ~(x = from /\ g \in moved)
    <3>1. Lies(x, g)'
      BY <2>1, <2>3
    <3> QED
      BY <2>1, <3>1
  <2> QED
    BY <2>2, <2>3
<1> QED
  BY <1>2, <1>3, <1>4

LEMMA TakeKeeps ==
  ASSUME CoalescerInv, NEW f \in Flushers, Take(f)
  PROVE  OpenInv' /\ MembersInv' /\ ApartInv' /\ CoveredInv'
<1>1. groups \in [CoalesceKeys -> SUBSET Group] /\ batch \in [Flushers -> SUBSET Group]
  BY DEF CoalescerInv, CoalescerTypeOK
<1>2. PICK moved \in SUBSET Group : moved = UNION {groups[k] : k \in CoalesceKeys}
  BY <1>1
<1>3. batch[f] = {} /\ batch' = [batch EXCEPT ![f] = moved]
      /\ groups' = [k \in CoalesceKeys |-> {}] /\ UNCHANGED <<emitted, added>>
  BY <1>2 DEF Take
<1>4. "open" \in Spots /\ f \in Spots /\ "open" # f /\ f # "out"
  BY DEF Spots, Flushers
<1>5. \A g \in Group : Lies("open", g) <=> g \in moved
  BY <1>2 DEF Lies, Flushers
<1>6. \A g \in Group : ~Lies("open", g)'
  BY <1>3 DEF Lies, Flushers
<1>7. \A g \in Group : Lies(f, g)' <=> Lies(f, g) \/ g \in moved
  BY <1>1, <1>3, <1>4 DEF Lies
<1>8. \A x \in Spots \ {"open", f} : \A g \in Group : Lies(x, g)' <=> Lies(x, g)
  BY <1>1, <1>3 DEF Lies, RecordOf
<1>9. OpenInv'
  BY <1>3 DEF OpenInv
<1>10. MembersInv' /\ ApartInv' /\ CoveredInv'
  <2> HIDE DEF Spots
  <2> QED
    BY <1>3, <1>4, <1>5, <1>6, <1>7, <1>8, MoveKeeps
<1> QED
  BY <1>9, <1>10

LEMMA EmitGroupKeeps ==
  ASSUME CoalescerInv, NEW f \in Flushers, NEW g \in batch[f], EmitGroup(f, g)
  PROVE  OpenInv' /\ MembersInv' /\ ApartInv' /\ CoveredInv'
<1>1. batch \in [Flushers -> SUBSET Group] /\ g \in Group
  BY DEF CoalescerInv, CoalescerTypeOK
<1>2. PICK moved \in SUBSET Group : moved = {g}
  BY <1>1
<1>3. /\ batch' = [batch EXCEPT ![f] = @ \ {g}]
      /\ emitted' = emitted \cup {RecordOf(g)}
      /\ UNCHANGED <<groups, added>>
  BY DEF EmitGroup, RecordOf
<1>4. "out" \in Spots /\ f \in Spots /\ "out" # f /\ "open" # f
  BY DEF Spots, Flushers
<1>5. \A h \in Group : RecordOf(h) = RecordOf(g) <=> h = g
  BY <1>1 DEF RecordOf, Group
<1>6. \A h \in moved : Lies(f, h)
  BY <1>2 DEF Lies
<1>7. \A h \in Group : Lies(f, h)' <=> Lies(f, h) /\ h \notin moved
  BY <1>1, <1>2, <1>3, <1>4 DEF Lies
<1>8. \A h \in Group : Lies("out", h)' <=> Lies("out", h) \/ h \in moved
  <2>1. "out" # "open" /\ "out" \notin Flushers
    BY DEF Flushers
  <2>2. \A h \in Group : Lies("out", h) <=> RecordOf(h) \in emitted
    BY <2>1 DEF Lies
  <2>3. \A h \in Group : Lies("out", h)' <=> RecordOf(h) \in emitted'
    BY <2>1 DEF Lies, RecordOf
  <2> QED
    BY <1>2, <1>3, <1>5, <2>2, <2>3
<1>9. \A x \in Spots \ {f, "out"} : \A h \in Group : Lies(x, h)' <=> Lies(x, h)
  BY <1>1, <1>3 DEF Lies
<1>10. OpenInv'
  BY <1>3 DEF CoalescerInv, OpenInv
<1>11. MembersInv' /\ ApartInv' /\ CoveredInv'
  BY <1>3, <1>4, <1>6, <1>7, <1>8, <1>9, MoveKeeps
<1> QED
  BY <1>10, <1>11

LEMMA CoalescerInvStep ==
  ASSUME CoalescerInv, [CoalescerNext]_coalescerVars
  PROVE  CoalescerInv'
<1>1. CoalescerTypeOK'
  BY CoalescerTypeStep DEF CoalescerInv
<1>2. ASSUME NEW a \in Alerts, Join(a) PROVE CoalescerInv'
  BY <1>1, <1>2, JoinKeeps DEF CoalescerInv
<1>3. ASSUME NEW a \in Alerts, Open(a) PROVE CoalescerInv'
  BY <1>1, <1>3, OpenKeeps DEF CoalescerInv
<1>4. ASSUME NEW a \in Alerts, EmitFirst(a) PROVE CoalescerInv'
  <2>1. UNCHANGED <<groups, batch, added>>
    BY <1>4 DEF EmitFirst
  <2>2. \A g \in Group : RecordOf(g) \in emitted' <=> RecordOf(g) \in emitted
    BY <1>4 DEF EmitFirst, RecordOf
  <2> QED
    BY <1>1, <2>1, <2>2, NoMoveKeeps DEF CoalescerInv
<1>5. ASSUME NEW f \in Flushers, Take(f) PROVE CoalescerInv'
  BY <1>1, <1>5, TakeKeeps DEF CoalescerInv
<1>6. ASSUME NEW f \in Flushers, NEW g \in batch[f], EmitGroup(f, g) PROVE CoalescerInv'
  BY <1>1, <1>6, EmitGroupKeeps DEF CoalescerInv
<1>7. CASE UNCHANGED coalescerVars
  BY <1>1, <1>7, NoMoveKeeps DEF CoalescerInv, coalescerVars
<1> QED
  BY <1>2, <1>3, <1>4, <1>5, <1>6, <1>7 DEF CoalescerNext

LEMMA CoalescerInvInit == CoalescerInit => CoalescerInv
<1> SUFFICES ASSUME CoalescerInit PROVE CoalescerInv
  OBVIOUS
<1>1. CoalescerTypeOK /\ OpenInv
  BY DEF CoalescerInit, CoalescerTypeOK, OpenInv
<1>2. \A x \in Spots : \A g \in Group : ~Lies(x, g)
  BY DEF CoalescerInit, Lies, Flushers
<1>3. MembersInv /\ ApartInv /\ CoveredInv
  BY <1>2 DEF CoalescerInit, MembersInv, ApartInv, CoveredInv
<1> QED
  BY <1>1, <1>3 DEF CoalescerInv

(* The places of CountedOnce are those of Lies.                            *)
LEMMA PlacesLie ==
  ASSUME CoalescerTypeOK
  PROVE  /\ \A p \in Places : p.at \in Spots /\ p.group \in Group /\ Lies(p.at, p.group)
         /\ \A p \in Places : p = [at |-> p.at, group |-> p.group]
         /\ \A x \in Spots : \A g \in Group : Lies(x, g) => [at |-> x, group |-> g] \in Places
<1>1. ASSUME NEW p \in Places
      PROVE  /\ p.at \in Spots /\ p.group \in Group /\ Lies(p.at, p.group)
             /\ p = [at |-> p.at, group |-> p.group]
  <2>1. CASE \E k \in CoalesceKeys : \E g \in groups[k] : p = [at |-> "open", group |-> g]
    BY <2>1 DEF CoalescerTypeOK, Lies, Spots
  <2>2. CASE \E f \in Flushers : \E g \in batch[f] : p = [at |-> f, group |-> g]
    BY <2>2 DEF CoalescerTypeOK, Lies, Spots
  <2>3. CASE \E r \in emitted : r.by = "flush" /\
               p = [at |-> "out", group |-> [first |-> r.first, members |-> r.members]]
    <3>1. PICK r \in emitted : r.by = "flush" /\
               p = [at |-> "out", group |-> [first |-> r.first, members |-> r.members]]
      BY <2>3
    <3>2. r \in Emission
      BY DEF CoalescerTypeOK
    <3>3. p.group \in Group /\ RecordOf(p.group) = r
      BY <3>1, <3>2 DEF Emission, Group, RecordOf
    <3> QED
      BY <3>1, <3>3 DEF Lies, Spots
  <2> QED
    BY <2>1, <2>2, <2>3 DEF Places
<1>2. ASSUME NEW x \in Spots, NEW g \in Group, Lies(x, g)
      PROVE  [at |-> x, group |-> g] \in Places
  <2>1. CASE x = "open" /\ \E k \in CoalesceKeys : g \in groups[k]
    BY <2>1 DEF Places
  <2>2. CASE x \in Flushers /\ g \in batch[x]
    BY <2>2 DEF Places
  <2>3. CASE x = "out" /\ RecordOf(g) \in emitted
    <3>1. RecordOf(g).by = "flush"
          /\ g = [first |-> RecordOf(g).first, members |-> RecordOf(g).members]
      BY DEF RecordOf, Group
    <3> QED
      BY <2>3, <3>1 DEF Places
  <2> QED
    BY <1>2, <2>1, <2>2, <2>3 DEF Lies
<1> QED
  BY <1>1, <1>2

LEMMA InvCountsOnce == CoalescerInv => CountedOnce
<1> SUFFICES ASSUME CoalescerInv, NEW a \in added
             PROVE  \E p \in Places :
                      /\ a \in p.group.members
                      /\ \A q \in Places : a \in q.group.members => q = p
                      /\ \A b \in p.group.members : KeyOf[b] = KeyOf[a]
  BY DEF CountedOnce
<1>1. PICK x \in Spots, g \in Group : Lies(x, g) /\ a \in g.members
  BY DEF CoalescerInv, CoveredInv
<1>2. PICK p : p = [at |-> x, group |-> g]
  OBVIOUS
<1>3. p \in Places
  BY <1>1, <1>2, PlacesLie DEF CoalescerInv
<1>4. \A b \in g.members : KeyOf[b] = KeyOf[a]
  BY <1>1 DEF CoalescerInv, MembersInv
<1>5. ASSUME NEW q \in Places, a \in q.group.members PROVE q = p
  <2>1. q.at \in Spots /\ q.group \in Group /\ Lies(q.at, q.group)
        /\ q = [at |-> q.at, group |-> q.group]
    BY PlacesLie DEF CoalescerInv
  <2>2. a \in Alerts
    BY DEF CoalescerInv, CoalescerTypeOK
  <2>3. q.at = x /\ q.group = g
    BY <1>1, <1>5, <2>1, <2>2 DEF CoalescerInv, ApartInv
  <2> QED
    BY <1>2, <2>1, <2>3
<1> QED
  BY <1>1, <1>2, <1>3, <1>4, <1>5

(* However additions and the two flushers interleave, every alert that was *)
(* added is counted in one group, with alerts of its own key (Add, Flush). *)
THEOREM CountsOnce == CoalescerSpec => []CountedOnce
<1>1. CoalescerInit => CoalescerInv
  BY CoalescerInvInit
<1>2. CoalescerInv /\ [CoalescerNext]_coalescerVars => CoalescerInv'
  BY CoalescerInvStep
<1>3. CoalescerInv => CountedOnce
  BY InvCountsOnce
<1> QED
  BY <1>1, <1>2, <1>3, PTL DEF CoalescerSpec

-----------------------------------------------------------------------------
(* The pipeline.                                                           *)

(* What a step of the pipeline does to the coalescer.                      *)
LEMMA StepOfCoalescer ==
  ASSUME PipelineTypeOK, [PipelineNext]_pipelineVars
  PROVE  [CoalescerNext]_coalescerVars
<1>1. ASSUME NEW w \in Workers, WorkerStep(w) PROVE [CoalescerNext]_coalescerVars
  <2>1. wev[w] \in Alerts
    BY DEF PipelineTypeOK, Events
  <2> QED
    BY <1>1, <2>1 DEF WorkerStep, TakeEvent, Leave, Read, AddAlert, EmitAlert, Enforce,
                      CoalescerNext
<1>2. CASE LoopStep
  BY <1>2 DEF LoopStep, LoopFlush, LoopEmit, LoopLeave, CoalescerNext, Flushers
<1>3. CASE StopStep
  BY <1>3 DEF StopStep, StopLocks, StopJoins, StopDrains, StopFlushes, CoalescerNext, Flushers
<1>4. ASSUME NEW e \in Events, Deliver(e) \/ Escalate(e) PROVE UNCHANGED coalescerVars
  BY <1>4 DEF Deliver, Escalate
<1>5. CASE Start \/ CancelContext \/ Shutdown \/ SetModeCalled \/ SetModeStep
  BY <1>5 DEF Start, CancelContext, Shutdown, SetModeCalled, SetModeStep, SetModeLocks,
              SetModeReturns
<1>6. CASE UNCHANGED pipelineVars
  BY <1>6 DEF pipelineVars
<1> QED
  BY <1>1, <1>2, <1>3, <1>4, <1>5, <1>6 DEF PipelineNext

LEMMA PipelineTypeStep ==
  ASSUME PipelineTypeOK, [PipelineNext]_pipelineVars
  PROVE  PipelineTypeOK'
<1>1. CoalescerTypeOK'
  BY StepOfCoalescer, CoalescerTypeStep DEF PipelineTypeOK
<1>2. ASSUME NEW e \in Events, Deliver(e) PROVE PipelineTypeOK'
  BY <1>1, <1>2, PipelineAssumption DEF Deliver, PipelineTypeOK, lockVars, agentVars
<1>3. ASSUME NEW e \in Events, Escalate(e) PROVE PipelineTypeOK'
  BY <1>1, <1>3 DEF Escalate, PipelineTypeOK, lockVars, agentVars
<1>4. ASSUME NEW w \in Workers, WorkerStep(w) PROVE PipelineTypeOK'
  <2>1. CASE TakeEvent(w)
    <3>1. queue # <<>> /\ queue \in Seq(Events) /\ queue' = Tail(queue)
      BY <2>1 DEF TakeEvent, PipelineTypeOK
    <3>2. Head(queue) \in Events /\ queue' \in Seq(Events) /\ Len(queue') <= Len(queue)
      BY <3>1
    <3>3. Len(queue') <= ChanCap
      BY <3>1, <3>2, PipelineAssumption DEF PipelineTypeOK
    <3>4. wpc' \in [Workers -> WorkerSteps] /\ wev' \in [Workers -> Events]
      BY <2>1, <3>2 DEF TakeEvent, Goto, PipelineTypeOK, WorkerSteps
    <3> QED
      BY <1>1, <2>1, <3>2, <3>3, <3>4 DEF TakeEvent, PipelineTypeOK, lockVars, agentVars
  <2>2. CASE Leave(w)
    BY <1>1, <2>2 DEF Leave, Goto, WorkerSteps, PipelineTypeOK, lockVars, agentVars
  <2>3. CASE Read(w)
    <3>1. wpc' \in [Workers -> WorkerSteps]
      BY <2>3 DEF Read, Reading, Goto, PipelineTypeOK, WorkerSteps
    <3> QED
      BY <1>1, <2>3, <3>1 DEF Read, PipelineTypeOK, lockVars, agentVars
  <2>4. CASE AddAlert(w)
    BY <1>1, <2>4 DEF AddAlert, Goto, WorkerSteps, PipelineTypeOK, lockVars, agentVars
  <2>5. CASE EmitAlert(w)
    BY <1>1, <2>5 DEF EmitAlert, Goto, WorkerSteps, PipelineTypeOK, lockVars, agentVars
  <2>6. CASE Enforce(w)
    <3>1. escalations' \subseteq Events
      BY <2>6 DEF Enforce, PipelineTypeOK
    <3> QED
      BY <1>1, <2>6, <3>1 DEF Enforce, Goto, WorkerSteps, PipelineTypeOK, lockVars, agentVars
  <2> QED
    BY <1>4, <2>1, <2>2, <2>3, <2>4, <2>5, <2>6 DEF WorkerStep
<1>5. CASE LoopStep
  BY <1>1, <1>5 DEF LoopStep, LoopFlush, LoopEmit, LoopLeave, PipelineTypeOK, lockVars, agentVars,
                    workVars
<1>6. CASE StopStep
  BY <1>1, <1>6 DEF StopStep, StopLocks, StopJoins, StopDrains, StopFlushes, PipelineTypeOK,
                    lockVars, workVars, AgentSteps, Writers
<1>7. CASE Start
  <2>1. wpc' \in [Workers -> WorkerSteps] /\ loop' \in {"new", "wait", "flush", "exited"}
    BY <1>7 DEF Start, Goto, WorkerSteps, PipelineTypeOK
  <2> QED
    BY <1>1, <1>7, <2>1 DEF Start, PipelineTypeOK, lockVars, AgentSteps
<1>8. CASE CancelContext
  BY <1>1, <1>8 DEF CancelContext, PipelineTypeOK, lockVars, workVars
<1>9. CASE Shutdown
  BY <1>1, <1>9 DEF Shutdown, PipelineTypeOK, workVars, AgentSteps, Writers
<1>10. CASE SetModeCalled
  BY <1>1, <1>10, PipelineAssumption DEF SetModeCalled, PipelineTypeOK, agentVars, workVars, Writers
<1>11. CASE SetModeStep
  BY <1>1, <1>11 DEF SetModeStep, SetModeLocks, SetModeReturns, PipelineTypeOK, agentVars, workVars,
                     Writers
<1>12. CASE UNCHANGED pipelineVars
  BY <1>1, <1>12 DEF pipelineVars, PipelineTypeOK, lockVars, agentVars, workVars
<1> QED
  BY <1>2, <1>3, <1>4, <1>5, <1>6, <1>7, <1>8, <1>9, <1>10, <1>11, <1>12 DEF PipelineNext

LEMMA PipelineTypeInit == PipelineInit => PipelineTypeOK
<1> SUFFICES ASSUME PipelineInit PROVE PipelineTypeOK
  OBVIOUS
<1>1. CoalescerTypeOK
  BY DEF PipelineInit, CoalescerInit, CoalescerTypeOK
<1>2. (CHOOSE e \in Events : TRUE) \in Events
  BY PipelineAssumption DEF Events
<1>3. wev \in [Workers -> Events]
  BY <1>2 DEF PipelineInit
<1>4. queue \in Seq(Events) /\ Len(queue) <= ChanCap
  BY PipelineAssumption DEF PipelineInit
<1>5. wpc \in [Workers -> WorkerSteps]
  BY DEF PipelineInit, WorkerSteps
<1>6. setModes \in 0 .. MaxSetModes
  BY PipelineAssumption DEF PipelineInit
<1> QED
  BY <1>1, <1>3, <1>4, <1>5, <1>6 DEF PipelineInit, PipelineTypeOK, AgentSteps, Events

(* The channel never exceeds its capacity, and every part of the pipeline  *)
(* is where its goroutine may be (Start, Stop, SetMode, processEvents).    *)
THEOREM PipelineTyped == PipelineSpec => []PipelineTypeOK
<1>1. PipelineInit => PipelineTypeOK
  BY PipelineTypeInit
<1>2. PipelineTypeOK /\ [PipelineNext]_pipelineVars => PipelineTypeOK'
  BY PipelineTypeStep
<1> QED
  BY <1>1, <1>2, PTL DEF PipelineSpec

(* What workers, the loop and Stop do to the coalescer is Add and Flush as *)
(* the coalescer promises them: the pipeline implements CoalescerSpec.     *)
THEOREM PipelineRunsCoalescer == PipelineSpec => CoalescerSpec
<1>1. PipelineInit => CoalescerInit
  BY DEF PipelineInit
<1>2. PipelineTypeOK /\ [PipelineNext]_pipelineVars => [CoalescerNext]_coalescerVars
  BY StepOfCoalescer
<1> QED
  BY <1>1, <1>2, PipelineTyped, PTL DEF PipelineSpec, CoalescerSpec

(* In the pipeline no alert is lost or counted twice between the workers,  *)
(* the coalescer loop and the last flush of Stop (emitAlert, Flush).       *)
THEOREM PipelineCountsOnce == PipelineSpec => []CountedOnce
  BY PipelineRunsCoalescer, CountsOnce, PTL

-----------------------------------------------------------------------------
(* After Stop.                                                             *)

(* Every alert owed is about to be emitted by a worker.                    *)
OwedInv == \A a \in owed : \E w \in Workers : wpc[w] = "emit" /\ wev[w] = a

(* A flusher has groups in hand only while it flushes.                     *)
BatchInv ==
  /\ loop # "flush" => batch["loop"] = {}
  /\ agent # "flush" => batch["stop"] = {}

(* Once Stop has waited nobody works; once it has drained nothing escalates *)
(* and no group is open.                                                   *)
StopInv ==
  /\ agent \in {"drain", "flush", "stopped"} =>
       loop = "exited" /\ \A w \in Workers : wpc[w] = "exited"
  /\ agent \in {"flush", "stopped"} =>
       escalations = {} /\ \A k \in CoalesceKeys : groups[k] = {}

QuietInv == OwedInv /\ BatchInv /\ StopInv

LEMMA WorkerKeepsQuiet ==
  ASSUME PipelineTypeOK, QuietInv, NEW w \in Workers, WorkerStep(w)
  PROVE  QuietInv'
<1>1. /\ wpc \in [Workers -> WorkerSteps] /\ wev \in [Workers -> Events]
      /\ wpc[w] # "exited"
  BY DEF PipelineTypeOK, WorkerStep, TakeEvent, Leave, Read, Reading, AddAlert, EmitAlert, Enforce
<1>2. UNCHANGED <<batch, loop, agent>>
  BY DEF WorkerStep, TakeEvent, Leave, Read, AddAlert, EmitAlert, Enforce, coalescerVars, agentVars,
         Join, Open, EmitFirst
<1>3. agent \notin {"drain", "flush", "stopped"}
  BY <1>1 DEF QuietInv, StopInv
<1>4. BatchInv' /\ StopInv'
  BY <1>2, <1>3 DEF QuietInv, BatchInv, StopInv
<1>5. CASE TakeEvent(w) \/ Leave(w) \/ Read(w) \/ Enforce(w)
  <2>1. /\ wpc[w] # "emit" /\ UNCHANGED owed
        /\ \A v \in Workers : v # w => wpc'[v] = wpc[v] /\ wev'[v] = wev[v]
    BY <1>1, <1>5 DEF TakeEvent, Leave, Read, Reading, Enforce, Goto, coalescerVars
  <2> QED
    BY <1>4, <2>1 DEF QuietInv, OwedInv
<1>6. CASE AddAlert(w)
  <2>1. CASE Join(wev[w]) /\ Goto(w, "correlate")
    <3>1. /\ wpc[w] # "emit" /\ UNCHANGED <<owed, wev>>
          /\ \A v \in Workers : v # w => wpc'[v] = wpc[v]
      BY <1>1, <1>6, <2>1 DEF AddAlert, Join, Goto
    <3> QED
      BY <1>4, <3>1 DEF QuietInv, OwedInv
  <2>2. CASE Open(wev[w]) /\ Goto(w, "emit")
    <3>1. /\ wpc[w] # "emit" /\ UNCHANGED wev /\ owed' = owed \cup {wev[w]}
          /\ \A v \in Workers : v # w => wpc'[v] = wpc[v]
          /\ wpc'[w] = "emit"
      BY <1>1, <1>6, <2>2 DEF AddAlert, Open, Goto
    <3> QED
      BY <1>4, <3>1 DEF QuietInv, OwedInv
  <2> QED
    BY <1>6, <2>1, <2>2 DEF AddAlert
<1>7. CASE EmitAlert(w)
  <2>1. /\ UNCHANGED wev /\ owed' = owed \ {wev[w]}
        /\ \A v \in Workers : v # w => wpc'[v] = wpc[v]
    BY <1>1, <1>7 DEF EmitAlert, EmitFirst, Goto
  <2> QED
    BY <1>4, <2>1 DEF QuietInv, OwedInv
<1> QED
  BY <1>5, <1>6, <1>7 DEF WorkerStep

LEMMA LoopKeepsQuiet ==
  ASSUME PipelineTypeOK, QuietInv, LoopStep
  PROVE  QuietInv'
<1>1. UNCHANGED <<wpc, wev, agent, escalations, owed>> /\ batch \in [Flushers -> SUBSET Group]
      /\ loop # "exited"
  BY DEF LoopStep, LoopFlush, LoopEmit, LoopLeave, workVars, agentVars, coalescerVars, Take,
         EmitGroup, PipelineTypeOK, CoalescerTypeOK
<1>2. OwedInv'
  BY <1>1 DEF QuietInv, OwedInv
<1>3. StopInv'
  BY <1>1 DEF QuietInv, StopInv
<1>4. BatchInv'
  BY <1>1 DEF LoopStep, LoopFlush, LoopEmit, LoopLeave, Take, EmitGroup, coalescerVars, agentVars,
              Flushers, QuietInv, BatchInv
<1> QED
  BY <1>2, <1>3, <1>4 DEF QuietInv

LEMMA StopKeepsQuiet ==
  ASSUME PipelineTypeOK, QuietInv, StopStep
  PROVE  QuietInv'
<1>1. UNCHANGED <<wpc, wev, loop, escalations, owed>> /\ batch \in [Flushers -> SUBSET Group]
  BY DEF StopStep, StopLocks, StopJoins, StopDrains, StopFlushes, workVars, coalescerVars, Take,
         EmitGroup, PipelineTypeOK, CoalescerTypeOK
<1>2. OwedInv'
  BY <1>1 DEF QuietInv, OwedInv
<1>3. BatchInv'
  BY <1>1 DEF StopStep, StopLocks, StopJoins, StopDrains, StopFlushes, Take, EmitGroup,
              coalescerVars, Flushers, QuietInv, BatchInv
<1>4. StopInv'
  BY <1>1 DEF StopStep, StopLocks, StopJoins, StopDrains, StopFlushes, Take, EmitGroup,
              coalescerVars, QuietInv, StopInv
<1> QED
  BY <1>2, <1>3, <1>4 DEF QuietInv

LEMMA QuietInvStep ==
  ASSUME PipelineTypeOK, QuietInv, [PipelineNext]_pipelineVars
  PROVE  QuietInv'
<1>1. CASE \E w \in Workers : WorkerStep(w)
  BY <1>1, WorkerKeepsQuiet
<1>2. CASE LoopStep
  BY <1>2, LoopKeepsQuiet
<1>3. CASE StopStep
  BY <1>3, StopKeepsQuiet
<1>4. CASE Start
  <2>1. /\ agent = "start" /\ agent' \in {"start", "run"} /\ UNCHANGED coalescerVars
        /\ loop # "flush" => loop' # "flush"
        /\ UNCHANGED wev /\ \A w \in Workers : wpc[w] = "emit" => wpc'[w] = "emit"
    BY <1>4 DEF Start, Goto, PipelineTypeOK
  <2>2. OwedInv' /\ StopInv'
    BY <2>1 DEF QuietInv, OwedInv, StopInv, coalescerVars
  <2>3. BatchInv'
    BY <2>1, <1>4 DEF QuietInv, BatchInv, coalescerVars, Start
  <2> QED
    BY <2>2, <2>3 DEF QuietInv
<1>5. ASSUME NEW e \in Events, Deliver(e) \/ Escalate(e) PROVE QuietInv'
  BY <1>5 DEF Deliver, Escalate, QuietInv, OwedInv, BatchInv, StopInv, coalescerVars, agentVars
<1>6. CASE Shutdown
  BY <1>6 DEF Shutdown, QuietInv, OwedInv, BatchInv, StopInv, coalescerVars, workVars
<1>7. CASE CancelContext \/ SetModeCalled \/ SetModeStep \/ UNCHANGED pipelineVars
  <2>1. UNCHANGED <<coalescerVars, agent, workVars, loop>>
    BY <1>7 DEF CancelContext, SetModeCalled, SetModeStep, SetModeLocks, SetModeReturns,
                pipelineVars, agentVars
  <2> QED
    BY <2>1 DEF QuietInv, OwedInv, BatchInv, StopInv, coalescerVars, workVars
<1> QED
  BY <1>1, <1>2, <1>3, <1>4, <1>5, <1>6, <1>7 DEF PipelineNext

LEMMA InvIsQuiet == CoalescerInv /\ QuietInv => QuietAfterStop
<1> SUFFICES ASSUME CoalescerInv, QuietInv, agent = "stopped" PROVE
       /\ \A w \in Workers : wpc[w] = "exited"
       /\ loop = "exited" /\ escalations = {}
       /\ owed = {}
       /\ \A a \in added : \E r \in emitted : r.by = "flush" /\ a \in r.members
  BY DEF QuietAfterStop
<1>1. /\ \A w \in Workers : wpc[w] = "exited"
      /\ loop = "exited" /\ escalations = {}
  BY DEF QuietInv, StopInv
<1>2. owed = {}
  BY <1>1 DEF QuietInv, OwedInv
<1>3. \A x \in Spots : \A g \in Group : Lies(x, g) => RecordOf(g) \in emitted
  BY <1>1 DEF Lies, Flushers, QuietInv, BatchInv, StopInv
<1>4. ASSUME NEW a \in added
      PROVE  \E r \in emitted : r.by = "flush" /\ a \in r.members
  <2>1. PICK g \in Group : RecordOf(g) \in emitted /\ a \in g.members
    BY <1>3 DEF CoalescerInv, CoveredInv
  <2> QED
    BY <2>1 DEF RecordOf
<1> QED
  BY <1>1, <1>2, <1>4

(* When Stop has returned no worker, flush or escalation is alive, and     *)
(* every alert that was coalesced has been handed to the emitter (Stop).   *)
THEOREM QuietOnceStopped == PipelineSpec => []QuietAfterStop
<1>1. PipelineInit => QuietInv
  BY DEF PipelineInit, CoalescerInit, QuietInv, OwedInv, BatchInv, StopInv, Flushers
<1>2. PipelineTypeOK /\ QuietInv /\ [PipelineNext]_pipelineVars => QuietInv'
  BY QuietInvStep
<1>3. PipelineInit => CoalescerInv
  BY CoalescerInvInit DEF PipelineInit
<1>4. PipelineTypeOK /\ CoalescerInv /\ [PipelineNext]_pipelineVars => CoalescerInv'
  BY StepOfCoalescer, CoalescerInvStep
<1>5. CoalescerInv /\ QuietInv => QuietAfterStop
  BY InvIsQuiet
<1> QED
  BY <1>1, <1>2, <1>3, <1>4, <1>5, PipelineTyped, PTL DEF PipelineSpec

-----------------------------------------------------------------------------
(* The duplicates of the coalescer.                                        *)

(* The record that a worker hands on for an alert that opened a group.     *)
OfWorker(a) == [first |-> a, members |-> {a}, by |-> "worker"]

(* Add told its caller to emit the alert, which has done so or is to.      *)
Promised(a) == a \in owed \/ OfWorker(a) \in emitted

(* Two records share an alert only if one is the group's and the other its *)
(* first alert's; and every group's record has such a twin (Add's caller   *)
(* has emitted it, or is about to), also that of a group of one alert.     *)
DuplicatesAreFirsts ==
  /\ \A r, s \in emitted :
       r.members \cap s.members # {} => r = s \/ (r.first = s.first /\ r.by # s.by)
  /\ \A r \in emitted : r.by = "flush" => r.first \in r.members /\ Promised(r.first)

WorkerInv ==
  /\ owed \subseteq added
  /\ \A r \in emitted : r.by = "worker" => r = OfWorker(r.first) /\ r.first \in added

(* Of the alerts of a group only the first is promised, and it always is.  *)
FirstInv ==
  \A x \in Spots : \A g \in Group : Lies(x, g) =>
    g.first \in g.members /\ \A a \in g.members : Promised(a) <=> a = g.first

LEMMA PromisedAdded ==
  ASSUME WorkerInv, NEW a, Promised(a)
  PROVE  a \in added
BY DEF WorkerInv, Promised, OfWorker

LEMMA WorkerInvStep ==
  ASSUME CoalescerTypeOK, WorkerInv, [CoalescerNext]_coalescerVars
  PROVE  WorkerInv'
<1>1. ASSUME NEW a \in Alerts, Join(a) \/ Open(a) PROVE WorkerInv'
  BY <1>1 DEF Join, Open, WorkerInv, OfWorker
<1>2. ASSUME NEW a \in Alerts, EmitFirst(a) PROVE WorkerInv'
  <2>1. emitted' = emitted \cup {OfWorker(a)} /\ OfWorker(a).first = a /\ a \in added
    BY <1>2 DEF EmitFirst, OfWorker, WorkerInv
  <2> QED
    BY <1>2, <2>1 DEF EmitFirst, WorkerInv
<1>3. ASSUME NEW f \in Flushers, Take(f) PROVE WorkerInv'
  BY <1>3 DEF Take, WorkerInv
<1>4. ASSUME NEW f \in Flushers, NEW g \in batch[f], EmitGroup(f, g) PROVE WorkerInv'
  <2>1. emitted' = emitted \cup {RecordOf(g)} /\ RecordOf(g).by # "worker"
    BY <1>4 DEF EmitGroup, RecordOf
  <2> QED
    BY <1>4, <2>1 DEF EmitGroup, WorkerInv
<1>5. CASE UNCHANGED coalescerVars
  BY <1>5 DEF coalescerVars, WorkerInv
<1> QED
  BY <1>1, <1>2, <1>3, <1>4, <1>5 DEF CoalescerNext

(* Groups that lie somewhere after a step lay somewhere before it, and the *)
(* promises are the same.                                                  *)
LEMMA MovedKeepsFirst ==
  ASSUME FirstInv,
         \A x \in Spots : \A g \in Group : Lies(x, g)' => \E y \in Spots : Lies(y, g),
         \A a \in Alerts : Promised(a)' <=> Promised(a)
  PROVE  FirstInv'
<1> SUFFICES ASSUME NEW x \in Spots, NEW g \in Group, Lies(x, g)'
             PROVE  g.first \in g.members /\ \A a \in g.members : Promised(a)' <=> a = g.first
  BY DEF FirstInv
<1>1. PICK y \in Spots : Lies(y, g)
  OBVIOUS
<1>2. g.first \in g.members /\ \A a \in g.members : Promised(a) <=> a = g.first
  BY <1>1 DEF FirstInv
<1>3. g.members \subseteq Alerts
  BY DEF Group
<1> QED
  BY <1>2, <1>3

LEMMA JoinKeepsFirst ==
  ASSUME CoalescerInv, WorkerInv, FirstInv, NEW a \in Alerts, Join(a)
  PROVE  FirstInv'
<1>1. PICK g, h \in Group :
           /\ h.first = g.first /\ h.members = g.members \cup {a}
           /\ Lies("open", g)
           /\ \A x \in Spots : \A q \in Group : Lies(x, q)' => Lies(x, q) \/ (x = "open" /\ q = h)
  BY JoinMoves DEF CoalescerInv
<1>2. ~Promised(a)
  BY PromisedAdded DEF Join
<1>3. \A b : Promised(b)' <=> Promised(b)
  BY DEF Join, Promised, OfWorker
<1>4. g.first \in g.members /\ \A b \in g.members : Promised(b) <=> b = g.first
  BY <1>1 DEF FirstInv, Spots
<1>5. a # g.first
  BY <1>2, <1>4
<1>6. h.first \in h.members /\ \A b \in h.members : Promised(b)' <=> b = h.first
  BY <1>1, <1>2, <1>3, <1>4, <1>5
<1>7. ASSUME NEW x \in Spots, NEW q \in Group, Lies(x, q)
      PROVE  q.first \in q.members /\ \A b \in q.members : Promised(b)' <=> b = q.first
  BY <1>3, <1>7 DEF FirstInv
<1> QED
  BY <1>1, <1>6, <1>7 DEF FirstInv

LEMMA OpenKeepsFirst ==
  ASSUME CoalescerInv, WorkerInv, FirstInv, NEW a \in Alerts, Open(a)
  PROVE  FirstInv'
<1>1. KeyOf[a] \in CoalesceKeys /\ groups \in [CoalesceKeys -> SUBSET Group]
  BY CoalescerAssumption DEF CoalescerInv, CoalescerTypeOK
<1>2. PICK h : h = [first |-> a, members |-> {a}]
  OBVIOUS
<1>3. h.first = a /\ h.members = {a}
  BY <1>2
<1>4. groups' = [groups EXCEPT ![KeyOf[a]] = {h}] /\ UNCHANGED <<batch, emitted>>
      /\ owed' = owed \cup {a} /\ a \notin added
  BY <1>2 DEF Open
<1>5. \A x \in Spots : \A q \in Group : Lies(x, q)' => Lies(x, q) \/ q = h
  BY <1>1, <1>4 DEF Lies, RecordOf
<1>6. \A b : Promised(b)' <=> Promised(b) \/ b = a
  BY <1>4 DEF Promised, OfWorker
<1>7. ASSUME NEW x \in Spots, NEW q \in Group, Lies(x, q)
      PROVE  q.first \in q.members /\ \A b \in q.members : Promised(b)' <=> b = q.first
  <2>1. a \notin q.members
    BY <1>4, <1>7 DEF CoalescerInv, MembersInv
  <2> QED
    BY <1>6, <1>7, <2>1 DEF FirstInv
<1> QED
  BY <1>3, <1>5, <1>6, <1>7 DEF FirstInv

LEMMA FirstInvStep ==
  ASSUME CoalescerInv, WorkerInv, FirstInv, [CoalescerNext]_coalescerVars
  PROVE  FirstInv'
<1>1. ASSUME NEW a \in Alerts, Join(a) PROVE FirstInv'
  BY <1>1, JoinKeepsFirst
<1>2. ASSUME NEW a \in Alerts, Open(a) PROVE FirstInv'
  BY <1>2, OpenKeepsFirst
<1>3. ASSUME NEW a \in Alerts, EmitFirst(a) PROVE FirstInv'
  <2>1. /\ owed' = owed \ {a} /\ a \in owed
        /\ emitted' = emitted \cup {OfWorker(a)} /\ UNCHANGED <<groups, batch>>
    BY <1>3 DEF EmitFirst, OfWorker
  <2>2. \A b \in Alerts : OfWorker(b) = OfWorker(a) => b = a
    BY DEF OfWorker
  <2>3. \A b \in Alerts : Promised(b)' <=> Promised(b)
    BY <2>1, <2>2 DEF Promised, OfWorker
  <2>4. \A g \in Group : RecordOf(g) # OfWorker(a)
    BY DEF RecordOf, OfWorker
  <2>5. \A x \in Spots : \A g \in Group : Lies(x, g)' => Lies(x, g)
    BY <2>1, <2>4 DEF Lies, RecordOf
  <2> QED
    BY <2>3, <2>5, MovedKeepsFirst
<1>4. ASSUME NEW f \in Flushers, Take(f) PROVE FirstInv'
  <2>1. batch \in [Flushers -> SUBSET Group] /\ f \in Spots /\ "open" \in Spots
    BY DEF CoalescerInv, CoalescerTypeOK, Spots
  <2>2. /\ groups' = [k \in CoalesceKeys |-> {}] /\ UNCHANGED <<owed, emitted>>
        /\ batch' = [batch EXCEPT ![f] = UNION {groups[k] : k \in CoalesceKeys}]
    BY <1>4 DEF Take
  <2>3. \A b \in Alerts : Promised(b)' <=> Promised(b)
    BY <2>2 DEF Promised, OfWorker
  <2>4. ASSUME NEW x \in Spots, NEW g \in Group, Lies(x, g)' PROVE \E y \in Spots : Lies(y, g)
    <3>1. CASE x = "open" /\ \E k \in CoalesceKeys : g \in groups'[k]
      BY <2>2, <3>1
    <3>2. CASE x \in Flushers /\ g \in batch'[x]
      BY <2>1, <2>2, <3>2 DEF Lies
    <3>3. CASE x = "out" /\ RecordOf(g) \in emitted'
      BY <2>2, <3>3 DEF Lies
    <3> QED
      BY <2>4, <3>1, <3>2, <3>3 DEF Lies, RecordOf
  <2> QED
    BY <2>3, <2>4, MovedKeepsFirst
<1>5. ASSUME NEW f \in Flushers, NEW g \in batch[f], EmitGroup(f, g) PROVE FirstInv'
  <2>1. batch \in [Flushers -> SUBSET Group] /\ f \in Spots /\ g \in Group
    BY DEF CoalescerInv, CoalescerTypeOK, Spots
  <2>2. /\ batch' = [batch EXCEPT ![f] = @ \ {g}] /\ UNCHANGED <<groups, owed>>
        /\ emitted' = emitted \cup {RecordOf(g)}
    BY <1>5 DEF EmitGroup, RecordOf
  <2>3. \A b \in Alerts : OfWorker(b) # RecordOf(g)
    BY DEF RecordOf, OfWorker
  <2>4. \A b \in Alerts : Promised(b)' <=> Promised(b)
    BY <2>2, <2>3 DEF Promised, OfWorker
  <2>5. \A h \in Group : RecordOf(h) = RecordOf(g) => h = g
    BY <2>1 DEF RecordOf, Group
  <2>6. ASSUME NEW x \in Spots, NEW h \in Group, Lies(x, h)' PROVE \E y \in Spots : Lies(y, h)
    <3>1. CASE x = "open" /\ \E k \in CoalesceKeys : h \in groups'[k]
      BY <2>2, <3>1 DEF Lies
    <3>2. CASE x \in Flushers /\ h \in batch'[x]
      BY <2>1, <2>2, <3>2 DEF Lies
    <3>3. CASE x = "out" /\ RecordOf(h) \in emitted'
      <4>1. CASE RecordOf(h) \in emitted
        BY <3>3, <4>1 DEF Lies
      <4>2. CASE RecordOf(h) = RecordOf(g)
        BY <2>1, <2>5, <4>2 DEF Lies
      <4> QED
        BY <2>2, <3>3, <4>1, <4>2
    <3> QED
      BY <2>6, <3>1, <3>2, <3>3 DEF Lies, RecordOf
  <2> QED
    BY <2>4, <2>6, MovedKeepsFirst
<1>6. CASE UNCHANGED coalescerVars
  <2>1. \A b \in Alerts : Promised(b)' <=> Promised(b)
    BY <1>6 DEF Promised, OfWorker, coalescerVars
  <2>2. \A x \in Spots : \A g \in Group : Lies(x, g)' => Lies(x, g)
    BY <1>6 DEF Lies, RecordOf, coalescerVars
  <2> QED
    BY <2>1, <2>2, MovedKeepsFirst
<1> QED
  BY <1>1, <1>2, <1>3, <1>4, <1>5, <1>6 DEF CoalescerNext

(* The group that a record of a flush stands for.                          *)
LEMMA FlushedGroup ==
  ASSUME CoalescerInv, NEW r \in emitted, r.by = "flush"
  PROVE  \E g \in Group : Lies("out", g) /\ g.first = r.first /\ g.members = r.members
                          /\ r = RecordOf(g)
<1>1. r \in Emission
  BY DEF CoalescerInv, CoalescerTypeOK
<1>2. PICK g : g = [first |-> r.first, members |-> r.members]
  OBVIOUS
<1>3. g \in Group /\ RecordOf(g) = r
  BY <1>1, <1>2 DEF Emission, Group, RecordOf
<1> QED
  BY <1>2, <1>3 DEF Lies

LEMMA InvDuplicates == CoalescerInv /\ WorkerInv /\ FirstInv => DuplicatesAreFirsts
<1> SUFFICES ASSUME CoalescerInv, WorkerInv, FirstInv PROVE DuplicatesAreFirsts
  OBVIOUS
<1> "out" \in Spots
  BY DEF Spots
<1>1. \A r \in emitted : r.by \in {"worker", "flush"} /\ r.members \subseteq Alerts
  BY DEF CoalescerInv, CoalescerTypeOK, Emission
<1>2. ASSUME NEW r \in emitted, r.by = "flush"
      PROVE  /\ r.first \in r.members
             /\ \A a \in r.members : Promised(a) <=> a = r.first
  BY <1>2, FlushedGroup DEF FirstInv
<1>3. ASSUME NEW r \in emitted, r.by = "worker"
      PROVE  r.members = {r.first} /\ r = OfWorker(r.first) /\ Promised(r.first)
  <2>1. r = OfWorker(r.first)
    BY <1>3 DEF WorkerInv
  <2>2. OfWorker(r.first).members = {r.first}
    BY DEF OfWorker
  <2> QED
    BY <2>1, <2>2 DEF Promised
<1>4. ASSUME NEW r \in emitted, NEW s \in emitted, NEW a \in r.members, a \in s.members
      PROVE  r = s \/ (r.first = s.first /\ r.by # s.by)
  <2>1. CASE r.by = "worker" /\ s.by = "worker"
    BY <1>3, <1>4, <2>1
  <2>2. CASE r.by = "flush" /\ s.by = "flush"
    <3>1. PICK g \in Group : Lies("out", g) /\ g.members = r.members /\ r = RecordOf(g)
      BY <2>2, FlushedGroup
    <3>2. PICK h \in Group : Lies("out", h) /\ h.members = s.members /\ s = RecordOf(h)
      BY <2>2, FlushedGroup
    <3>3. g = h
      BY <1>1, <1>4, <3>1, <3>2 DEF CoalescerInv, ApartInv
    <3> QED
      BY <3>1, <3>2, <3>3
  <2>3. CASE r.by = "worker" /\ s.by = "flush"
    BY <1>2, <1>3, <1>4, <2>3
  <2>4. CASE r.by = "flush" /\ s.by = "worker"
    BY <1>2, <1>3, <1>4, <2>4
  <2> QED
    BY <1>1, <2>1, <2>2, <2>3, <2>4
<1> QED
  BY <1>2, <1>4 DEF DuplicatesAreFirsts

(* What OneRecordPerGroup denies is bounded: the records of a group are at *)
(* most two, and there are always two in the end (Add, Flush, emitAlert).  *)
THEOREM OnlyFirstsTwice == CoalescerSpec => []DuplicatesAreFirsts
<1>1. CoalescerInit => CoalescerInv
  BY CoalescerInvInit
<1>2. CoalescerInit => WorkerInv /\ FirstInv
  BY DEF CoalescerInit, WorkerInv, FirstInv, Lies, RecordOf, Flushers
<1>3. CoalescerInv /\ [CoalescerNext]_coalescerVars => CoalescerInv'
  BY CoalescerInvStep
<1>4. CoalescerInv /\ WorkerInv /\ FirstInv /\ [CoalescerNext]_coalescerVars
        => WorkerInv' /\ FirstInv'
  BY WorkerInvStep, FirstInvStep DEF CoalescerInv
<1>5. CoalescerInv /\ WorkerInv /\ FirstInv => DuplicatesAreFirsts
  BY InvDuplicates
<1> QED
  BY <1>1, <1>2, <1>3, <1>4, <1>5, PTL DEF CoalescerSpec

(* In the pipeline too a group has at most two records, the first alert's  *)
(* and its own, whichever goroutines emit them (emitAlert, Flush, Stop).   *)
THEOREM PipelineFirstsTwice == PipelineSpec => []DuplicatesAreFirsts
  BY PipelineRunsCoalescer, OnlyFirstsTwice, PTL

-----------------------------------------------------------------------------
(* The deadlock of Stop.                                                   *)

(* Stop holds Pipeline.mu from StopLocks until it returns.                 *)
LockInv == agent \in {"wait", "drain", "flush"} <=> writer = "agent"

(* A worker that still carries an event when Stop has taken the lock never *)
(* puts it down, whatever anyone does: every way out of processOneEvent    *)
(* takes the read lock.  So Stop waits for that worker for ever, keeps the *)
(* lock, and whoever waits for it (SetMode) waits for ever too.            *)
StopTraps ==
  [][\A w \in Workers : agent = "wait" /\ Busy(w) =>
       agent' = "wait" /\ writer' = "agent" /\ pending \subseteq pending' /\ Busy(w)'
    ]_pipelineVars

LEMMA LockInvStep ==
  ASSUME LockInv, [PipelineNext]_pipelineVars
  PROVE  LockInv'
<1>1. ASSUME NEW w \in Workers, WorkerStep(w) PROVE LockInv'
  BY <1>1 DEF WorkerStep, TakeEvent, Leave, Read, AddAlert, EmitAlert, Enforce, lockVars, agentVars,
              LockInv
<1>2. CASE LoopStep
  BY <1>2 DEF LoopStep, LoopFlush, LoopEmit, LoopLeave, lockVars, agentVars, LockInv
<1>3. CASE StopStep
  BY <1>3 DEF StopStep, StopLocks, StopJoins, StopDrains, StopFlushes, CanWrite, lockVars, LockInv
<1>4. ASSUME NEW e \in Events, Deliver(e) \/ Escalate(e) PROVE LockInv'
  BY <1>4 DEF Deliver, Escalate, lockVars, agentVars, LockInv
<1>5. CASE Start \/ CancelContext \/ Shutdown \/ SetModeCalled \/ SetModeStep
           \/ UNCHANGED pipelineVars
  BY <1>5 DEF Start, CancelContext, Shutdown, SetModeCalled, SetModeStep, SetModeLocks,
              SetModeReturns, CanWrite, pipelineVars, lockVars, agentVars, LockInv
<1> QED
  BY <1>1, <1>2, <1>3, <1>4, <1>5 DEF PipelineNext

LEMMA TrapStep ==
  ASSUME PipelineTypeOK, LockInv, [PipelineNext]_pipelineVars,
         NEW w \in Workers, agent = "wait", Busy(w)
  PROVE  agent' = "wait" /\ writer' = "agent" /\ pending \subseteq pending' /\ Busy(w)'
<1>1. writer = "agent" /\ wpc \in [Workers -> WorkerSteps]
  BY DEF LockInv, PipelineTypeOK
<1>2. ASSUME NEW v \in Workers, WorkerStep(v) PROVE UNCHANGED <<agent, lockVars>> /\ Busy(w)'
  <2>1. UNCHANGED <<agent, lockVars>>
    BY <1>2 DEF WorkerStep, TakeEvent, Leave, Read, AddAlert, EmitAlert, Enforce, agentVars
  <2>2. CASE v # w
    <3>1. wpc'[w] = wpc[w]
      BY <1>1, <1>2, <2>2 DEF WorkerStep, TakeEvent, Leave, Read, AddAlert, EmitAlert, Enforce, Goto
    <3> QED
      BY <2>1, <3>1 DEF Busy
  <2>3. CASE v = w
    <3>1. wpc[w] # "select" /\ ~Read(w)
      BY <1>1 DEF Busy, Read, CanRead
    <3>2. wpc'[w] \in {"correlate", "emit"}
      BY <1>1, <1>2, <2>3, <3>1 DEF WorkerStep, TakeEvent, Leave, AddAlert, EmitAlert, Enforce, Goto
    <3> QED
      BY <2>1, <3>2 DEF Busy
  <2> QED
    BY <2>1, <2>2, <2>3
<1>3. CASE LoopStep
  BY <1>1, <1>3 DEF LoopStep, LoopFlush, LoopEmit, LoopLeave, lockVars, agentVars, workVars, Busy
<1>4. CASE StopStep
  BY <1>1, <1>4 DEF StopStep, StopLocks, StopJoins, StopDrains, StopFlushes, Busy
<1>5. ASSUME NEW e \in Events, Deliver(e) \/ Escalate(e)
      PROVE UNCHANGED <<agent, lockVars>> /\ Busy(w)'
  BY <1>5 DEF Deliver, Escalate, agentVars, Busy
<1>6. CASE Start \/ Shutdown
  BY <1>6 DEF Start, Shutdown
<1>7. CASE CancelContext \/ SetModeCalled \/ SetModeStep \/ UNCHANGED pipelineVars
  BY <1>1, <1>7 DEF CancelContext, SetModeCalled, SetModeStep, SetModeLocks, SetModeReturns, CanWrite,
              pipelineVars, lockVars, agentVars, workVars, Busy
<1> QED
  BY <1>1, <1>2, <1>3, <1>4, <1>5, <1>6, <1>7 DEF PipelineNext, lockVars

(* The deadlock that StopReturns meets in one instance is final in all: a  *)
(* Stop that took the lock while a worker carried an event never returns.  *)
THEOREM StopStaysTrapped == PipelineSpec => StopTraps
<1>1. PipelineInit => LockInv
  BY DEF PipelineInit, LockInv
<1>2. LockInv /\ [PipelineNext]_pipelineVars => LockInv'
  BY LockInvStep
<1>3. PipelineTypeOK /\ LockInv /\ [PipelineNext]_pipelineVars =>
        [\A w \in Workers : agent = "wait" /\ Busy(w) =>
           agent' = "wait" /\ writer' = "agent" /\ pending \subseteq pending' /\ Busy(w)'
        ]_pipelineVars
  BY TrapStep
<1> QED
  BY <1>1, <1>2, <1>3, PipelineTyped, PTL DEF PipelineSpec, StopTraps
=============================================================================
