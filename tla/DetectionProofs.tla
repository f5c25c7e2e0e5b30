-------------------------- MODULE DetectionProofs ---------------------------
(***************************************************************************)
(* The rule engine, proved for every baseline, every number of workers and *)
(* every sequence of loads: the evaluations that write into the arrays of  *)
(* the index at the same time disturb neither each other nor the index.    *)
(*                                                                         *)
(* The argument: what an evaluation gathers is determined by the index     *)
(* alone (SameCandidates), and two evaluations write into the same array   *)
(* only if their events are of one type.  So where both write, they write  *)
(* the same rule.                                                          *)
(***************************************************************************)
EXTENDS Detection, CorrelatorProofs, AlertOutputProofs, SequenceTheorems, WellFoundedInduction, TLAPS

-----------------------------------------------------------------------------
(* Keys, rules and slices.                                                 *)

LEMMA KeysAndIds ==
  /\ 0 \in Keys
  /\ \A e \in Events : e.type \in Keys /\ e.cat \in Keys
  /\ \A r \in Loadable : r.id \in Ids /\ \A j \in DOMAIN r.types : r.types[j] \in Keys
<1>1. \A e \in Events : {e.type, e.cat} \in {{f.type, f.cat} : f \in Events}
  OBVIOUS
<1>2. \A e \in Events : e.type \in Keys /\ e.cat \in Keys
  BY <1>1 DEF Keys
<1>3. \A r \in Loadable : ElementsOf(r.types) \in {ElementsOf(q.types) : q \in Loadable}
  OBVIOUS
<1>4. \A r \in Loadable : \A j \in DOMAIN r.types : r.types[j] \in Keys
  BY <1>3 DEF Keys, ElementsOf
<1>5. \A r \in Loadable : r.id \in Ids
  BY DEF Ids
<1> QED BY <1>2, <1>4, <1>5 DEF Keys

LEMMA RulesLoaded ==
  /\ Loadable \subseteq Rule /\ NoMatch \notin Loadable
  /\ \A k \in DOMAIN Baseline : Baseline[k] \in Loadable
  /\ \A k \in DOMAIN Added : Added[k] \in Loadable
<1>1. \A k \in DOMAIN Baseline : Baseline[k] \in Rule
  BY ElementOfSeq, EngineAssumption
<1>2. \A k \in DOMAIN Added : Added[k] \in Rule
  BY ElementOfSeq, EngineAssumption
<1> QED BY <1>1, <1>2, EngineAssumption DEF Loadable, ElementsOf

(* What Push does to a slice.                                              *)
LEMMA PushAppends ==
  ASSUME NEW s \in Slice, s.len <= Len(s.items), NEW r \in Loadable
  PROVE  /\ Push(s, r) \in Slice
         /\ Push(s, r).len = s.len + 1 /\ s.len + 1 <= Len(Push(s, r).items)
         /\ Push(s, r).items[s.len + 1] = r
         /\ \A j \in 1..s.len : Push(s, r).items[j] = s.items[j]
<1> DEFINE size == Len(s.items)
           grown == IF s.len < size THEN size ELSE IF size = 0 THEN 1 ELSE 2 * size
           items == [j \in 1..grown |->
             IF j = s.len + 1 THEN r ELSE IF j <= size THEN s.items[j] ELSE NoMatch]
<1>1. s.len \in Nat /\ s.items \in Seq(Loadable \cup {NoMatch}) /\ size \in Nat
  BY DEF Slice
<1>2. grown \in Nat /\ s.len + 1 <= grown /\ size <= grown
  BY <1>1
<1>3. \A j \in 1..size : s.items[j] \in Loadable \cup {NoMatch}
  BY <1>1
<1>4. \A j \in 1..grown : items[j] \in Loadable \cup {NoMatch}
  BY <1>1, <1>2, <1>3
<1>5. items \in [1..grown -> Loadable \cup {NoMatch}]
  BY <1>4
<1>6. items \in Seq(Loadable \cup {NoMatch}) /\ Len(items) = grown
  BY <1>2, <1>5, SeqDef, LenProperties
<1>7. Push(s, r) = [len |-> s.len + 1, items |-> items]
  BY DEF Push
<1>8. \A j \in 1..s.len : j <= size /\ j # s.len + 1 /\ j \in 1..grown
  BY <1>1, <1>2
<1> HIDE DEF items, grown
<1>9. Push(s, r) \in Slice /\ Push(s, r).len = s.len + 1 /\ Push(s, r).items = items
  BY <1>1, <1>6, <1>7 DEF Slice
<1>10. s.len + 1 \in 1..grown
  BY <1>1, <1>2
<1>11. items[s.len + 1] = r
  BY <1>10 DEF items
<1>12. \A j \in 1..s.len : items[j] = s.items[j]
  BY <1>8 DEF items
<1> QED BY <1>2, <1>6, <1>9, <1>11, <1>12
LEMMA LeastOf ==
  ASSUME NEW T, T \subseteq Nat, T # {}
  PROVE  \E m \in T : \A k \in T : m <= k
<1> DEFINE R == OpToRel(<, Nat)
<1>1. IsWellFoundedOn(R, Nat)
  BY NatLessThanWellFounded
<1>2. \A x, y \in Nat : x < y => <<x, y>> \in R
  BY DEF OpToRel
<1> HIDE DEF R
<1>3. PICK m \in T : \A k \in T : ~(<<k, m>> \in R)
  BY <1>1, WFMin
<1>4. \A k \in T : k \in Nat /\ m \in Nat /\ ~(k < m)
  BY <1>2, <1>3
<1> QED BY <1>4

-----------------------------------------------------------------------------
(* What an evaluation gathers, as a sequence of rules.                     *)

(* More(e), as the rules were filed.                                       *)
Source(e) == log[e.cat] \o log[0]

IdsTo(c, n) == {c[j].id : j \in 1..n}

FirstOf(r, e, seen) ==
  \E k \in DOMAIN Source(e) : /\ r = Source(e)[k] /\ r.id \notin seen
                              /\ \A j \in 1..(k - 1) : Source(e)[j].id \in seen

(* The rules filed under the event's type, and then always the first of    *)
(* the other rules whose ID is new.                                        *)
Built(c, e) ==
  /\ c \in Seq(Loadable) /\ Len(log[e.type]) <= Len(c)
  /\ \A k \in 1..Len(log[e.type]) : c[k] = log[e.type][k]
  /\ \A k \in (Len(log[e.type]) + 1)..Len(c) : FirstOf(c[k], e, IdsTo(c, k - 1))

Complete(c, e) == \A k \in DOMAIN Source(e) : Source(e)[k].id \in IdsTo(c, Len(c))

Logged == log \in [Keys -> Seq(Loadable)]

LEMMA SourceIs ==
  ASSUME Logged, NEW e \in Events
  PROVE  /\ log[e.type] \in Seq(Loadable) /\ log[e.cat] \in Seq(Loadable) /\ log[0] \in Seq(Loadable)
         /\ Source(e) \in Seq(Loadable) /\ DOMAIN Source(e) = 1..Len(Source(e))
         /\ Len(Source(e)) = Len(log[e.cat]) + Len(log[0])
         /\ Len(log[e.type]) \in Nat /\ Len(log[e.cat]) \in Nat /\ Len(log[0]) \in Nat
         /\ \A i \in 1..Len(log[e.cat]) : Source(e)[i] = log[e.cat][i]
         /\ \A i \in 1..Len(log[0]) : Source(e)[Len(log[e.cat]) + i] = log[0][i]
<1>1. log[e.type] \in Seq(Loadable) /\ log[e.cat] \in Seq(Loadable) /\ log[0] \in Seq(Loadable)
  BY KeysAndIds DEF Logged
<1>2. Len(log[e.type]) \in Nat /\ Len(log[e.cat]) \in Nat /\ Len(log[0]) \in Nat
  BY <1>1, LenProperties
<1>3. /\ Source(e) \in Seq(Loadable) /\ Len(Source(e)) = Len(log[e.cat]) + Len(log[0])
      /\ \A i \in 1 .. Len(log[e.cat]) + Len(log[0]) : Source(e)[i] =
            IF i <= Len(log[e.cat]) THEN log[e.cat][i] ELSE log[0][i - Len(log[e.cat])]
  BY <1>1, ConcatProperties DEF Source
<1>4. DOMAIN Source(e) = 1..Len(Source(e))
  BY <1>3, LenProperties
<1> DEFINE m == Len(log[e.cat])
           n == Len(log[0])
           more == Source(e)
<1>5. m \in Nat /\ n \in Nat /\ \A i \in 1..(m + n) : more[i] = IF i <= m THEN log[e.cat][i] ELSE log[0][i - m]
  BY <1>2, <1>3
<1> HIDE DEF m, n, more
<1>6. \A i \in 1..m : more[i] = log[e.cat][i]
  BY <1>5
<1>7. \A i \in 1..n : more[m + i] = log[0][i]
  <2> TAKE i \in 1..n
  <2>1. m + i \in 1..(m + n) /\ ~(m + i <= m) /\ (m + i) - m = i
    BY <1>5
  <2> QED BY <1>5, <2>1
<1> QED BY <1>1, <1>2, <1>3, <1>4, <1>6, <1>7 DEF m, n, more

(* Two evaluations of events of one type gather the same rules, in the     *)
(* same order.                                                             *)
LEMMA SameCandidates ==
  ASSUME Logged, NEW e \in Events, NEW f \in Events, e.type = f.type,
         NEW c, Built(c, e), NEW d, Built(d, f)
  PROVE  \A k \in 1..Len(c) : k <= Len(d) => c[k] = d[k]
<1> DEFINE T == {k \in Nat : 1 <= k /\ k <= Len(c) /\ k <= Len(d) /\ c[k] # d[k]}
<1>1. e.cat = f.cat
  BY EngineAssumption
<1>2. Source(e) = Source(f) /\ log[e.type] = log[f.type]
  BY <1>1 DEF Source
<1>3. Len(c) \in Nat /\ Len(d) \in Nat /\ Len(log[e.type]) \in Nat
  BY LenProperties, SourceIs DEF Built
<1>4. SUFFICES ASSUME T # {} PROVE FALSE
  BY <1>3
<1>5. PICK m \in T : \A k \in T : m <= k
  <2>1. T \subseteq Nat
    OBVIOUS
  <2> HIDE DEF T
  <2> QED BY <1>4, <2>1, LeastOf
<1>6. \A k \in 1..(m - 1) : c[k] = d[k]
  <2>1. \A k \in 1..(m - 1) : k \notin T /\ k \in Nat /\ 1 <= k /\ k <= Len(c) /\ k <= Len(d)
    BY <1>3, <1>5
  <2> QED BY <2>1
<1>7. m \in Nat /\ m > Len(log[e.type]) /\ m <= Len(c) /\ m <= Len(d) /\ c[m] # d[m]
  BY <1>2, <1>3 DEF Built
<1>8. IdsTo(c, m - 1) = IdsTo(d, m - 1)
  BY <1>6 DEF IdsTo
<1>9. FirstOf(c[m], e, IdsTo(c, m - 1)) /\ FirstOf(d[m], e, IdsTo(c, m - 1))
  <2>1. FirstOf(c[m], e, IdsTo(c, m - 1))
    BY <1>3, <1>7 DEF Built
  <2>2. FirstOf(d[m], f, IdsTo(d, m - 1))
    BY <1>2, <1>3, <1>7 DEF Built
  <2> QED BY <1>2, <1>8, <2>1, <2>2 DEF FirstOf
<1>10. PICK i \in DOMAIN Source(e) : /\ c[m] = Source(e)[i] /\ c[m].id \notin IdsTo(c, m - 1)
                                    /\ \A j \in 1..(i - 1) : Source(e)[j].id \in IdsTo(c, m - 1)
  BY <1>9 DEF FirstOf
<1>11. PICK k \in DOMAIN Source(e) : /\ d[m] = Source(e)[k] /\ d[m].id \notin IdsTo(c, m - 1)
                                    /\ \A j \in 1..(k - 1) : Source(e)[j].id \in IdsTo(c, m - 1)
  BY <1>9 DEF FirstOf
<1>12. i \in Nat /\ k \in Nat /\ i >= 1 /\ k >= 1
  <2>1. DOMAIN Source(e) = 1..Len(Source(e))
    BY SourceIs
  <2> QED BY <2>1
<1>13. i = k
  BY <1>10, <1>11, <1>12
<1> QED BY <1>7, <1>10, <1>11, <1>13

(* What is gathered when nothing is left to gather is what is due.         *)
LEMMA CompleteIsDue ==
  ASSUME Logged, NEW e \in Events, NEW c, Built(c, e), Complete(c, e)
  PROVE  {c[k] : k \in 1..Len(c)} = Due(e)
<1> DEFINE own == log[e.type]
           cat == log[e.cat]
           any == log[0]
<1>1. /\ Len(own) \in Nat /\ Len(cat) \in Nat /\ Len(any) \in Nat /\ Len(c) \in Nat
      /\ DOMAIN own = 1..Len(own) /\ DOMAIN cat = 1..Len(cat) /\ DOMAIN any = 1..Len(any)
  BY SourceIs, LenProperties DEF Built
<1>2. /\ DOMAIN Source(e) = 1..(Len(cat) + Len(any))
      /\ \A i \in 1..Len(cat) : Source(e)[i] = cat[i]
      /\ \A i \in 1..Len(any) : Source(e)[Len(cat) + i] = any[i]
  BY <1>1, SourceIs
<1> HIDE DEF own, cat, any
<1>3. \A id : FiledUnder(e.type, id) <=> id \in IdsTo(c, Len(own))
  BY <1>1 DEF FiledUnder, IdsTo, Built, own
<1>4. \A k \in 1..Len(c) : IdsTo(c, k) \subseteq IdsTo(c, Len(c))
  BY <1>1 DEF IdsTo
<1>5. ASSUME NEW k \in 1..Len(c) PROVE c[k] \in Due(e)
  <2>1. CASE k <= Len(own)
    <3>1. c[k] = own[k] /\ k \in DOMAIN own
      BY <1>1, <2>1 DEF Built, own
    <3> QED BY <3>1 DEF Due, ElementsOf, own
  <2>2. CASE k > Len(own)
    <3>1. PICK i \in DOMAIN Source(e) : /\ c[k] = Source(e)[i] /\ c[k].id \notin IdsTo(c, k - 1)
                                       /\ \A j \in 1..(i - 1) : Source(e)[j].id \in IdsTo(c, k - 1)
      BY <1>1, <2>2 DEF Built, FirstOf, own
    <3>2. IdsTo(c, Len(own)) \subseteq IdsTo(c, k - 1)
      BY <1>1, <2>2 DEF IdsTo
    <3>3. ~FiledUnder(e.type, c[k].id)
      BY <1>3, <3>1, <3>2
    <3>4. CASE i <= Len(cat)
      <4>1. c[k] = cat[i] /\ i \in DOMAIN cat /\ \A j \in 1..(i - 1) : cat[j].id # c[k].id
        BY <1>1, <1>2, <3>1, <3>4
      <4>2. c[k] \in Eldest(e.cat)
        BY <4>1 DEF Eldest, ElementsOf, cat
      <4> QED BY <3>3, <4>2 DEF Due
    <3>5. CASE i > Len(cat)
      <4> DEFINE p == i - Len(cat)
      <4>1. p \in 1..Len(any) /\ i = Len(cat) + p
        BY <1>1, <1>2, <3>5
      <4>2. c[k] = any[p]
        BY <1>2, <3>1, <4>1
      <4>3. \A j \in 1..(p - 1) : any[j].id # c[k].id
        <5>1. \A j \in 1..(p - 1) : j \in 1..Len(any) /\ Len(cat) + j \in 1..(i - 1)
          BY <1>1, <4>1
        <5> QED BY <1>2, <3>1, <5>1
      <4>4. ~FiledUnder(e.cat, c[k].id)
        <5>1. \A j \in 1..Len(cat) : j \in 1..(i - 1)
          BY <1>1, <1>2, <3>5
        <5> QED BY <1>1, <1>2, <3>1, <5>1 DEF FiledUnder, cat
      <4>5. c[k] \in Eldest(0)
        BY <1>1, <4>1, <4>2, <4>3 DEF Eldest, ElementsOf, any
      <4> QED BY <3>3, <4>4, <4>5 DEF Due
    <3> QED BY <1>1, <1>2, <3>4, <3>5
  <2> QED BY <1>1, <2>1, <2>2
(* The first rule of Source(e) with an ID that own does not have is among  *)
(* the candidates.                                                         *)
<1>6. ASSUME NEW i \in DOMAIN Source(e), ~FiledUnder(e.type, Source(e)[i].id),
             \A j \in 1..(i - 1) : Source(e)[j].id # Source(e)[i].id
      PROVE  \E k \in 1..Len(c) : c[k] = Source(e)[i]
  <2>1. PICK k \in 1..Len(c) : c[k].id = Source(e)[i].id
    BY DEF Complete, IdsTo
  <2>2. k > Len(own)
    BY <1>1, <1>3, <1>6, <2>1 DEF IdsTo
  <2>3. PICK p \in DOMAIN Source(e) : /\ c[k] = Source(e)[p] /\ c[k].id \notin IdsTo(c, k - 1)
                                     /\ \A j \in 1..(p - 1) : Source(e)[j].id \in IdsTo(c, k - 1)
    BY <1>1, <2>2 DEF Built, FirstOf, own
  <2>4. ~(i < p)
    BY <1>1, <1>2, <2>1, <2>3
  <2>5. ~(p < i)
    <3>1. SUFFICES ASSUME p < i PROVE FALSE
      OBVIOUS
    <3>2. p \in 1..(i - 1)
      BY <1>1, <1>2, <3>1
    <3>3. Source(e)[p].id # Source(e)[i].id
      BY <1>6, <3>2
    <3> QED BY <2>1, <2>3, <3>3
  <2>6. p = i
    BY <1>1, <1>2, <2>4, <2>5
  <2> QED BY <2>3, <2>6
<1>7. ASSUME NEW r \in Due(e) PROVE \E k \in 1..Len(c) : c[k] = r
  <2>1. CASE r \in ElementsOf(own)
    BY <1>1, <2>1 DEF Built, ElementsOf, own
  <2>2. CASE r \in Eldest(e.cat) /\ ~FiledUnder(e.type, r.id)
    <3>1. PICK j \in 1..Len(cat) : cat[j] = r /\ \A i \in 1..(j - 1) : cat[i].id # r.id
      BY <1>1, <2>2 DEF Eldest, cat
    <3>2. j \in DOMAIN Source(e) /\ Source(e)[j] = r
      BY <1>1, <1>2, <3>1
    <3>3. \A i \in 1..(j - 1) : Source(e)[i].id # r.id
      BY <1>1, <1>2, <3>1
    <3> QED BY <1>6, <2>2, <3>2, <3>3
  <2>3. CASE r \in Eldest(0) /\ ~FiledUnder(e.type, r.id) /\ ~FiledUnder(e.cat, r.id)
    <3>1. PICK j \in 1..Len(any) : any[j] = r /\ \A i \in 1..(j - 1) : any[i].id # r.id
      BY <1>1, <2>3 DEF Eldest, any
    <3> DEFINE p == Len(cat) + j
    <3>2. p \in DOMAIN Source(e) /\ Source(e)[p] = r
      BY <1>1, <1>2, <3>1
    <3>3. ASSUME NEW i \in 1..(p - 1) PROVE Source(e)[i].id # r.id
      <4>1. CASE i <= Len(cat)
        <5>1. i \in DOMAIN cat /\ Source(e)[i] = cat[i]
          BY <1>1, <1>2, <3>1, <4>1
        <5> QED BY <2>3, <5>1 DEF FiledUnder, cat
      <4>2. CASE i > Len(cat)
        <5>1. i - Len(cat) \in 1..(j - 1) /\ i - Len(cat) \in 1..Len(any) /\ i = Len(cat) + (i - Len(cat))
          BY <1>1, <3>1, <4>2
        <5> QED BY <1>2, <3>1, <5>1
      <4> QED BY <1>1, <4>1, <4>2
    <3> QED BY <1>6, <2>3, <3>2, <3>3
  <2> QED BY <2>1, <2>2, <2>3 DEF Due, own
<1> QED BY <1>5, <1>7
-----------------------------------------------------------------------------
(* The inductive invariant.                                                *)

(* The candidates of an evaluation, as they can be read now.               *)
Cands(w) == [k \in 1..eval[w].len |-> Candidate(w, k)]

(* best is a most severe match among the first n of c.                     *)
BestOf(c, n, best, e) ==
  IF best = NoMatch THEN \A k \in 1..n : ~MatchesRule(c[k], e)
  ELSE /\ \E k \in 1..n : best = c[k] /\ MatchesRule(c[k], e)
       /\ \A k \in 1..n : MatchesRule(c[k], e) => ~MoreSevere(c[k], best)

(* The candidates lie within the array that they are read from.            *)
Stored(w) ==
  IF eval[w].own = <<>> THEN eval[w].len <= Len(buckets[eval[w].event.type].items)
  ELSE Len(eval[w].own) = eval[w].len

EvalOK(w) ==
  eval[w] # Idle =>
    /\ Stored(w) /\ Built(Cands(w), eval[w].event)
    /\ eval[w].seen = IdsTo(Cands(w), eval[w].len)
    /\ eval[w].at = "gather" => eval[w].next = 1 /\ eval[w].best = NoMatch
    /\ eval[w].at = "judge" => Complete(Cands(w), eval[w].event)
    /\ eval[w].next \in 1..(eval[w].len + 1)
    /\ BestOf(Cands(w), eval[w].next - 1, eval[w].best, eval[w].event)

(* The lock keeps evaluations and the filing of a rule apart.              *)
Locked == filing # <<>> => NoReaders

Indexed ==
  \A k \in Keys : /\ buckets[k].len = Len(log[k])
                  /\ \A j \in 1..Len(log[k]) : buckets[k].items[j] = log[k][j]

(* A rule in force is filed, or being filed; and a rule of the baseline    *)
(* that the load is done with, or another of its ID, is in force.          *)
InForce ==
  \A id \in Ids : rules[id] # NoMatch =>
    /\ rules[id].id = id
    /\ \A j \in DOMAIN rules[id].types :
         \/ rules[id] \in ElementsOf(log[rules[id].types[j]])
         \/ \E i \in DOMAIN filing : filing[i] = [key |-> rules[id].types[j], rule |-> rules[id]]
Loaded ==
  InForce /\ \A b \in 1..(Len(Baseline) - loading) : rules[Baseline[b].id] # NoMatch

EngineInv ==
  EngineTypeOK /\ Locked /\ Indexed /\ Loaded /\ \A w \in Workers : EvalOK(w)
-----------------------------------------------------------------------------
(* What the invariant says of a bucket, and of a candidate.                *)

LEMMA BucketIs ==
  ASSUME EngineTypeOK, Indexed, NEW k \in Keys
  PROVE  Bucket(k) = log[k]
<1>1. /\ buckets[k].items \in Seq(Loadable \cup {NoMatch}) /\ buckets[k].len \in Nat
      /\ buckets[k].len <= Len(buckets[k].items) /\ log[k] \in Seq(Loadable)
  BY DEF EngineTypeOK, Slice
<1>2. /\ Bucket(k) \in Seq(Loadable \cup {NoMatch}) /\ Len(Bucket(k)) = buckets[k].len
      /\ \A j \in 1..buckets[k].len : Bucket(k)[j] = buckets[k].items[j]
  BY <1>1, SubSeqProperties DEF Bucket
<1>3. log[k] \in Seq(Loadable \cup {NoMatch})
  <2>1. \A j \in 1..Len(log[k]) : log[k][j] \in Loadable \cup {NoMatch}
    BY <1>1
  <2> QED BY <1>1, <2>1
<1>4. Len(Bucket(k)) = Len(log[k]) /\ \A j \in 1..Len(Bucket(k)) : Bucket(k)[j] = log[k][j]
  BY <1>2 DEF Indexed
<1> QED BY <1>2, <1>3, <1>4, SeqEqual

LEMMA MoreIs ==
  ASSUME EngineTypeOK, Indexed, NEW e \in Events
  PROVE  More(e) = Source(e)
BY BucketIs, KeysAndIds DEF More, Source

LEMMA LoggedType == EngineTypeOK => Logged
BY DEF EngineTypeOK, Logged

(* The evaluations, one by one.                                            *)
LEMMA Evaluations ==
  ASSUME EngineTypeOK, NEW w \in Workers, eval[w] # Idle
  PROVE  /\ eval[w] \in Evaluation
         /\ eval[w].event \in Events /\ eval[w].event.type \in Keys /\ eval[w].len \in Nat
         /\ eval[w].at \in {"gather", "judge"} /\ eval[w].next \in Nat
         /\ eval[w].own \in Seq(Loadable)
         /\ eval[w].best \in Loadable \cup {NoMatch}
BY KeysAndIds DEF EngineTypeOK, Evaluation

LEMMA IdleIsNot == Idle.at = "idle" /\ Idle \notin Evaluation
BY DEF Idle, Evaluation

(* What there is to show of an evaluation after a step, when the log stays.*)
LEMMA EvalMade ==
  ASSUME NEW w, NEW v, eval'[w] = v, NEW c, Cands(w)' = c, log' = log,
         Stored(w)', Built(c, v.event), v.seen = IdsTo(c, v.len),
         v.at = "gather" => v.next = 1 /\ v.best = NoMatch,
         v.at = "judge" => Complete(c, v.event),
         v.next \in 1..(v.len + 1), BestOf(c, v.next - 1, v.best, v.event)
  PROVE  EvalOK(w)'
<1>1. Built(Cands(w), eval[w].event)'
  <2> DEFINE d == Cands(w)
             own == log[eval[w].event.type]
  <2>1. d' = c /\ own' = log[v.event.type]
    OBVIOUS
  <2> HIDE DEF d, own
  <2>2. (d \in Seq(Loadable) /\ Len(own) <= Len(d) /\ \A k \in 1..Len(own) : d[k] = own[k])'
    BY <2>1 DEF Built
  <2>3. ASSUME NEW k \in ((Len(own) + 1)..Len(d))'
        PROVE  FirstOf(d[k], eval[w].event, IdsTo(d, k - 1))'
    <3>1. FirstOf(c[k], v.event, IdsTo(c, k - 1))
      BY <2>1, <2>3 DEF Built
    <3>2. IdsTo(d, k - 1)' = IdsTo(c, k - 1)
      BY <2>1 DEF IdsTo
    <3>3. Source(eval[w].event)' = Source(v.event)
      BY DEF Source
    <3>4. d[k]' = c[k]
      BY <2>1
    <3> QED BY <3>1, <3>2, <3>3, <3>4 DEF FirstOf
  <2> QED BY <2>2, <2>3 DEF Built, d, own
<1>2. (eval[w].seen = IdsTo(Cands(w), eval[w].len))'
  BY DEF IdsTo
<1>3. (eval[w].at = "judge" => Complete(Cands(w), eval[w].event))'
  <2>1. /\ Source(eval[w].event)' = Source(v.event)
        /\ IdsTo(Cands(w), Len(Cands(w)))' = IdsTo(c, Len(c))
    BY DEF Source, IdsTo
  <2>2. Complete(Cands(w), eval[w].event)' <=> Complete(c, v.event)
    BY <2>1 DEF Complete
  <2> QED BY <2>2
<1>4. BestOf(Cands(w), eval[w].next - 1, eval[w].best, eval[w].event)'
  BY DEF BestOf
<1> QED BY <1>1, <1>2, <1>3, <1>4 DEF EvalOK

(* The evaluations that a step leaves alone with their candidates are as   *)
(* good as before.                                                         *)
LEMMA OthersCarried ==
  ASSUME \A u \in Workers : EvalOK(u), log' = log, NEW w,
         \A u \in Workers : u # w => eval'[u] = eval[u],
         \A u \in Workers : u # w /\ eval[u] # Idle => Cands(u)' = Cands(u) /\ Stored(u)'
  PROVE  \A u \in Workers : u # w => EvalOK(u)'
<1> TAKE u \in Workers
<1> SUFFICES ASSUME u # w PROVE EvalOK(u)'
  OBVIOUS
<1>1. CASE eval[u] = Idle
  BY <1>1 DEF EvalOK
<1>2. CASE eval[u] # Idle
  <2>1. PICK v : v = eval[u]
    OBVIOUS
  <2>2. PICK c : c = Cands(u)
    OBVIOUS
  <2>3. /\ eval'[u] = v /\ Cands(u)' = c /\ Stored(u)'
    BY <1>2, <2>1, <2>2
  <2>4. /\ Built(c, v.event) /\ v.seen = IdsTo(c, v.len)
        /\ v.at = "gather" => v.next = 1 /\ v.best = NoMatch
        /\ v.at = "judge" => Complete(c, v.event)
        /\ v.next \in 1..(v.len + 1) /\ BestOf(c, v.next - 1, v.best, v.event)
    BY <1>2, <2>1, <2>2 DEF EvalOK
  <2> QED BY <2>3, <2>4, EvalMade
<1> QED BY <1>1, <1>2

-----------------------------------------------------------------------------
(* The initial state.                                                      *)

LEMMA EngineInitInv == EngineInit => EngineInv
<1> SUFFICES ASSUME EngineInit PROVE EngineInv
  OBVIOUS
<1>1. EngineTypeOK
  <2>1. EmptyBuckets \in [Keys -> Slice] /\ \A k \in Keys : EmptyBuckets[k].len <= Len(EmptyBuckets[k].items)
    BY DEF EmptyBuckets, Slice
  <2>2. NothingFiled \in [Keys -> Seq(Loadable)] /\ NoRules \in [Ids -> Loadable \cup {NoMatch}]
    BY DEF NothingFiled, NoRules
  <2>3. Len(Baseline) \in Nat /\ Len(Added) \in Nat /\ MaxReloads \in Nat
    BY EngineAssumption, LenProperties
  <2>4. <<>> \in Seq(Filing)
    OBVIOUS
  <2>5. [w \in Workers |-> Idle] \in [Workers -> {Idle} \cup Evaluation]
    OBVIOUS
  <2> QED BY <2>1, <2>2, <2>3, <2>4, <2>5 DEF EngineInit, EngineTypeOK
<1>2. Locked
  BY DEF Locked, EngineInit
<1>3. Indexed
  BY DEF Indexed, EngineInit, EmptyBuckets, NothingFiled
<1>4. Loaded
  <2>1. Len(Baseline) \in Nat
    BY EngineAssumption, LenProperties
  <2>2. 1..(Len(Baseline) - loading) = {}
    BY <2>1 DEF EngineInit
  <2>3. \A id \in Ids : rules[id] = NoMatch
    BY DEF EngineInit, NoRules
  <2> QED BY <2>2, <2>3 DEF Loaded, InForce
<1>5. \A w \in Workers : EvalOK(w)
  BY DEF EvalOK, EngineInit
<1> QED BY <1>1, <1>2, <1>3, <1>4, <1>5 DEF EngineInv
-----------------------------------------------------------------------------
(* The steps of loading: they hold the lock, so no evaluation is under way.*)

LEMMA QuietStep ==
  ASSUME NoReaders, eval' = eval
  PROVE  \A w \in Workers : EvalOK(w)'
BY DEF NoReaders, EvalOK

LEMMA FileNextInv ==
  ASSUME EngineInv, FileNext
  PROVE  EngineInv'
<1> DEFINE f == Head(filing)
           k == f.key
           r == f.rule
<1>1. /\ EngineTypeOK /\ Locked /\ Indexed /\ Loaded /\ filing # <<>>
      /\ buckets' = [buckets EXCEPT ![k] = Push(buckets[k], r)]
      /\ log' = [log EXCEPT ![k] = Append(log[k], r)]
      /\ filing' = Tail(filing)
      /\ UNCHANGED <<rules, loading, added, reloads, eval>>
  BY DEF EngineInv, FileNext
<1>2. filing \in Seq(Filing)
  BY <1>1 DEF EngineTypeOK
<1>3. /\ f \in Filing /\ Tail(filing) \in Seq(Filing)
      /\ f = filing[1] /\ \A i \in DOMAIN filing : i # 1 => i - 1 \in DOMAIN Tail(filing)
                                                   /\ Tail(filing)[i - 1] = filing[i]
  <2>1. /\ f \in Filing /\ Tail(filing) \in Seq(Filing) /\ Len(Tail(filing)) = Len(filing) - 1
        /\ \A i \in 1..Len(Tail(filing)) : Tail(filing)[i] = filing[i + 1]
    BY <1>1, <1>2, HeadTailProperties
  <2>2. /\ DOMAIN filing = 1..Len(filing) /\ DOMAIN Tail(filing) = 1..Len(Tail(filing))
        /\ Len(filing) \in Nat
    BY <1>2, <2>1, LenProperties
  <2>3. f = filing[1]
    BY <1>1
  <2> DEFINE n == Len(filing)
             rest == Tail(filing)
  <2>4. n \in Nat /\ \A i \in 1..(n - 1) : rest[i] = filing[i + 1]
    BY <2>1, <2>2
  <2> HIDE DEF n, rest
  <2>5. \A i \in 1..n : i # 1 => i - 1 \in 1..(n - 1) /\ rest[i - 1] = filing[i]
    <3> TAKE i \in 1..n
    <3>1. i # 1 => i - 1 \in 1..(n - 1) /\ (i - 1) + 1 = i
      BY <2>4
    <3> QED BY <2>4, <3>1
  <2> QED BY <2>1, <2>2, <2>3, <2>5 DEF n, rest
<1>4. k \in Keys /\ r \in Loadable
  BY <1>3 DEF Filing
<1> HIDE DEF f, k, r
<1>5. /\ buckets[k] \in Slice /\ buckets[k].len <= Len(buckets[k].items)
      /\ log[k] \in Seq(Loadable) /\ buckets[k].len = Len(log[k])
  BY <1>1, <1>4 DEF EngineTypeOK, Indexed
<1>6. /\ Push(buckets[k], r) \in Slice
      /\ Push(buckets[k], r).len = Len(log[k]) + 1
      /\ Len(log[k]) + 1 <= Len(Push(buckets[k], r).items)
      /\ Push(buckets[k], r).items[Len(log[k]) + 1] = r
      /\ \A j \in 1..Len(log[k]) : Push(buckets[k], r).items[j] = buckets[k].items[j]
  <2>1. /\ Push(buckets[k], r) \in Slice /\ Push(buckets[k], r).len = buckets[k].len + 1
        /\ buckets[k].len + 1 <= Len(Push(buckets[k], r).items)
        /\ Push(buckets[k], r).items[buckets[k].len + 1] = r
        /\ \A j \in 1..buckets[k].len : Push(buckets[k], r).items[j] = buckets[k].items[j]
    BY <1>4, <1>5, PushAppends
  <2> QED BY <1>5, <2>1
<1>7. /\ Append(log[k], r) \in Seq(Loadable) /\ Len(Append(log[k], r)) = Len(log[k]) + 1
      /\ \A j \in 1..Len(log[k]) : Append(log[k], r)[j] = log[k][j]
      /\ Append(log[k], r)[Len(log[k]) + 1] = r /\ Len(log[k]) \in Nat
  BY <1>4, <1>5, AppendProperties, LenProperties
<1>8. /\ buckets'[k] = Push(buckets[k], r) /\ log'[k] = Append(log[k], r)
      /\ \A j \in Keys : j # k => buckets'[j] = buckets[j] /\ log'[j] = log[j]
  BY <1>1, <1>4 DEF EngineTypeOK
<1>9. EngineTypeOK'
  <2>1. buckets' \in [Keys -> Slice] /\ log' \in [Keys -> Seq(Loadable)]
    BY <1>1, <1>6, <1>7 DEF EngineTypeOK
  <2>2. \A j \in Keys : buckets'[j].len <= Len(buckets'[j].items)
    BY <1>1, <1>6, <1>8 DEF EngineTypeOK
  <2> QED BY <1>1, <1>3, <2>1, <2>2 DEF EngineTypeOK
<1>10. NoReaders
  BY <1>1 DEF Locked
<1>11. Locked'
  BY <1>1, <1>10 DEF Locked, NoReaders
<1>12. Indexed'
  <2> SUFFICES ASSUME NEW j \in Keys
               PROVE  /\ buckets'[j].len = Len(log'[j])
                      /\ \A i \in 1..Len(log'[j]) : buckets'[j].items[i] = log'[j][i]
    BY DEF Indexed
  <2>1. CASE j # k
    BY <1>1, <1>8, <2>1 DEF Indexed
  <2>2. CASE j = k
    <3>1. \A i \in 1..Len(log[k]) : buckets[k].items[i] = log[k][i]
      BY <1>1, <1>4 DEF Indexed
    <3>2. \A i \in 1..(Len(log[k]) + 1) : i \in 1..Len(log[k]) \/ i = Len(log[k]) + 1
      BY <1>7
    <3> QED BY <1>6, <1>7, <1>8, <2>2, <3>1, <3>2
  <2> QED BY <2>1, <2>2
<1>13. Loaded'
  <2> SUFFICES InForce'
    BY <1>1 DEF Loaded
  <2> SUFFICES ASSUME NEW id \in Ids, rules[id] # NoMatch,
                      NEW j \in DOMAIN rules[id].types
               PROVE  \/ rules[id] \in ElementsOf(log'[rules[id].types[j]])
                      \/ \E i \in DOMAIN filing' :
                            filing'[i] = [key |-> rules[id].types[j], rule |-> rules[id]]
    BY <1>1 DEF Loaded, InForce
  <2> SUFFICES ASSUME NEW q, q = rules[id], NEW t, t = q.types[j]
               PROVE  \/ q \in ElementsOf(log'[t])
                      \/ \E i \in DOMAIN filing' : filing'[i] = [key |-> t, rule |-> q]
    OBVIOUS
  <2>1. t \in Keys
    <3>1. q \in Loadable
      BY <1>1 DEF EngineTypeOK
    <3> QED BY <3>1, KeysAndIds
  <2>2. CASE q \in ElementsOf(log[t])
    <3>1. CASE t # k
      BY <1>8, <2>1, <2>2, <3>1
    <3>2. CASE t = k
      <4>1. PICK i \in DOMAIN log[k] : log[k][i] = q
        BY <2>2, <3>2 DEF ElementsOf
      <4>2. i \in DOMAIN Append(log[k], r) /\ Append(log[k], r)[i] = q
        BY <1>5, <1>7, <4>1
      <4> QED BY <1>8, <3>2, <4>2 DEF ElementsOf
    <3> QED BY <3>1, <3>2
  <2>3. CASE \E i \in DOMAIN filing : filing[i] = [key |-> t, rule |-> q]
    <3>1. PICK i \in DOMAIN filing : filing[i] = [key |-> t, rule |-> q]
      BY <2>3
    <3>2. CASE i = 1
      <4>1. t = k /\ q = r
        BY <1>3, <3>1, <3>2 DEF k, r
      <4>2. Len(log[k]) + 1 \in DOMAIN Append(log[k], r)
        BY <1>7, LenProperties
      <4> QED BY <1>7, <1>8, <4>1, <4>2 DEF ElementsOf
    <3>3. CASE i # 1
      BY <1>1, <1>3, <3>1, <3>3
    <3> QED BY <3>2, <3>3
  <2> QED BY <1>1, <2>2, <2>3 DEF Loaded, InForce
<1> QED BY <1>1, <1>9, <1>10, <1>11, <1>12, <1>13, QuietStep DEF EngineInv

(* What File does, for a rule that can be loaded.                          *)
LEMMA FileSteps ==
  ASSUME EngineTypeOK, NEW r \in Loadable, File(r), InForce, filing = <<>>, UNCHANGED log
  PROVE  /\ rules' \in [Ids -> Loadable \cup {NoMatch}] /\ filing' \in Seq(Filing)
         /\ InForce' /\ rules'[r.id] # NoMatch
         /\ \A id \in Ids : rules[id] # NoMatch => rules'[id] # NoMatch
<1>1. r.types \in Seq(Nat) /\ Len(r.types) \in Nat /\ DOMAIN r.types = 1..Len(r.types)
  BY RulesLoaded DEF Rule
<1>2. \A j \in 1..Len(r.types) : [key |-> r.types[j], rule |-> r] \in Filing
  BY <1>1, KeysAndIds DEF Filing
<1>3. filing' = [j \in 1..Len(r.types) |-> [key |-> r.types[j], rule |-> r]]
  BY <1>1 DEF File
<1>4. filing' \in Seq(Filing)
  BY <1>1, <1>2, <1>3
<1>5. rules' \in [Ids -> Loadable \cup {NoMatch}]
  BY KeysAndIds DEF EngineTypeOK, File
<1>6. r # NoMatch /\ \A id \in Ids : rules'[id] = IF id = r.id THEN r ELSE rules[id]
  BY RulesLoaded DEF EngineTypeOK, File
<1>7. /\ DOMAIN filing' = DOMAIN r.types
      /\ \A j \in DOMAIN r.types : filing'[j] = [key |-> r.types[j], rule |-> r]
  BY <1>1, <1>3
<1>8. InForce'
  <2> SUFFICES ASSUME NEW id \in Ids, rules'[id] # NoMatch, NEW q, q = rules'[id]
               PROVE  /\ q.id = id
                      /\ \A j \in DOMAIN q.types :
                           \/ q \in ElementsOf(log'[q.types[j]])
                           \/ \E i \in DOMAIN filing' : filing'[i] = [key |-> q.types[j], rule |-> q]
    BY DEF InForce
  <2>1. CASE id = r.id
    BY <1>6, <1>7, <2>1
  <2>2. CASE id # r.id
    <3>1. q = rules[id] /\ log' = log
      BY <1>6, <2>2
    <3> QED BY <3>1 DEF InForce
  <2> QED BY <2>1, <2>2
<1>9. r.id \in Ids
  BY KeysAndIds
<1> QED BY <1>4, <1>5, <1>6, <1>8, <1>9

LEMMA LoadNextInv ==
  ASSUME EngineInv, LoadNext
  PROVE  EngineInv'
<1> DEFINE b0 == Len(Baseline) - loading + 1
           r == Baseline[b0]
<1>1. /\ EngineTypeOK /\ Locked /\ Indexed /\ Loaded
      /\ loading > 0 /\ filing = <<>> /\ NoReaders /\ File(r) /\ loading' = loading - 1
      /\ UNCHANGED <<buckets, added, reloads, eval, log>>
  BY DEF EngineInv, LoadNext, Unlocked
<1>2. Len(Baseline) \in Nat /\ DOMAIN Baseline = 1..Len(Baseline) /\ loading \in 0..Len(Baseline)
  BY <1>1, EngineAssumption, LenProperties DEF EngineTypeOK
<1>3. b0 \in DOMAIN Baseline
  BY <1>1, <1>2
<1>4. r \in Loadable
  BY <1>3, RulesLoaded
<1>5. /\ rules' \in [Ids -> Loadable \cup {NoMatch}] /\ filing' \in Seq(Filing)
      /\ InForce' /\ rules'[r.id] # NoMatch
      /\ \A id \in Ids : rules[id] # NoMatch => rules'[id] # NoMatch
  BY <1>1, <1>4, FileSteps DEF Loaded
<1>6. EngineTypeOK'
  <2>1. loading' \in 0..Len(Baseline)
    BY <1>1, <1>2
  <2> QED BY <1>1, <1>5, <2>1 DEF EngineTypeOK
<1>7. Locked' /\ Indexed'
  BY <1>1 DEF Locked, NoReaders, Indexed
<1>8. Loaded'
  <2> SUFFICES ASSUME NEW b \in 1..(Len(Baseline) - loading')
               PROVE  rules'[Baseline[b].id] # NoMatch
    BY <1>5 DEF Loaded
  <2>1. CASE b = b0
    BY <1>5, <2>1
  <2>2. CASE b # b0
    <3>1. b \in 1..(Len(Baseline) - loading) /\ b \in DOMAIN Baseline
      BY <1>1, <1>2, <2>2
    <3>2. Baseline[b].id \in Ids
      BY <3>1, RulesLoaded, KeysAndIds
    <3> QED BY <1>1, <1>5, <3>1, <3>2 DEF Loaded
  <2> QED BY <2>1, <2>2
<1> QED BY <1>1, <1>6, <1>7, <1>8, QuietStep DEF EngineInv

LEMMA AddCompiledRuleInv ==
  ASSUME EngineInv, AddCompiledRule
  PROVE  EngineInv'
<1> DEFINE r == Added[added + 1]
<1>1. /\ EngineTypeOK /\ Locked /\ Indexed /\ Loaded
      /\ filing = <<>> /\ NoReaders /\ added < Len(Added) /\ File(r) /\ added' = added + 1
      /\ UNCHANGED <<buckets, loading, reloads, eval, log>>
  BY DEF EngineInv, AddCompiledRule, Unlocked
<1>2. Len(Added) \in Nat /\ DOMAIN Added = 1..Len(Added) /\ added \in 0..Len(Added)
  BY <1>1, EngineAssumption, LenProperties DEF EngineTypeOK
<1>3. added + 1 \in DOMAIN Added /\ added' \in 0..Len(Added)
  BY <1>1, <1>2
<1>4. r \in Loadable
  BY <1>3, RulesLoaded
<1>5. /\ rules' \in [Ids -> Loadable \cup {NoMatch}] /\ filing' \in Seq(Filing)
      /\ InForce' /\ \A id \in Ids : rules[id] # NoMatch => rules'[id] # NoMatch
  BY <1>1, <1>4, FileSteps DEF Loaded
<1>6. EngineTypeOK'
  BY <1>1, <1>3, <1>5 DEF EngineTypeOK
<1>7. Locked' /\ Indexed'
  BY <1>1 DEF Locked, NoReaders, Indexed
<1>8. Loaded'
  <2>1. ASSUME NEW b \in 1..(Len(Baseline) - loading) PROVE rules'[Baseline[b].id] # NoMatch
    <3>1. b \in DOMAIN Baseline
      BY <1>1, EngineAssumption, LenProperties DEF EngineTypeOK
    <3>2. Baseline[b].id \in Ids
      BY <3>1, RulesLoaded, KeysAndIds
    <3> QED BY <1>1, <1>5, <3>2 DEF Loaded
  <2> QED BY <1>1, <1>5, <2>1 DEF Loaded
<1> QED BY <1>1, <1>6, <1>7, <1>8, QuietStep DEF EngineInv

LEMMA ReloadInv ==
  ASSUME EngineInv, Reload
  PROVE  EngineInv'
<1>1. /\ EngineTypeOK /\ filing = <<>> /\ NoReaders /\ reloads < MaxReloads
      /\ buckets' = EmptyBuckets /\ rules' = NoRules /\ log' = NothingFiled
      /\ loading' = Len(Baseline) /\ reloads' = reloads + 1
      /\ UNCHANGED <<filing, added, eval>>
  BY DEF EngineInv, Reload, Unlocked
<1>2. Len(Baseline) \in Nat /\ reloads' \in 0..MaxReloads
  BY <1>1, EngineAssumption, LenProperties DEF EngineTypeOK
<1>3. EngineTypeOK'
  <2>1. EmptyBuckets \in [Keys -> Slice] /\ \A k \in Keys : EmptyBuckets[k].len <= Len(EmptyBuckets[k].items)
    BY DEF EmptyBuckets, Slice
  <2>2. NothingFiled \in [Keys -> Seq(Loadable)] /\ NoRules \in [Ids -> Loadable \cup {NoMatch}]
    BY DEF NothingFiled, NoRules
  <2> QED BY <1>1, <1>2, <2>1, <2>2 DEF EngineTypeOK
<1>4. Locked' /\ Indexed'
  BY <1>1 DEF Locked, Indexed, EmptyBuckets, NothingFiled
<1>5. Loaded'
  <2>1. 1..(Len(Baseline) - loading') = {}
    BY <1>1, <1>2
  <2>2. \A id \in Ids : rules'[id] = NoMatch
    BY <1>1 DEF NoRules
  <2> QED BY <2>1, <2>2 DEF Loaded, InForce
<1> QED BY <1>1, <1>3, <1>4, <1>5, QuietStep DEF EngineInv
-----------------------------------------------------------------------------
(* The steps of the evaluations.                                           *)

(* A step that writes no array leaves the candidates of others alone.      *)
LEMMA NothingWritten ==
  ASSUME \A u \in Workers : EvalOK(u), buckets' = buckets, log' = log, NEW w,
         \A u \in Workers : u # w => eval'[u] = eval[u]
  PROVE  \A u \in Workers : u # w => EvalOK(u)'
<1>1. ASSUME NEW u \in Workers, u # w, eval[u] # Idle
      PROVE  Cands(u)' = Cands(u) /\ Stored(u)'
  <2>1. eval'[u] = eval[u] /\ Stored(u)
    BY <1>1 DEF EvalOK
  <2> QED BY <2>1 DEF Cands, Candidate, Stored
<1> QED BY <1>1, OthersCarried

LEMMA LookupInv ==
  ASSUME EngineInv, NEW w \in Workers, NEW e \in Events, Lookup(w, e)
  PROVE  EngineInv'
<1> DEFINE own == log[e.type]
           v == [at |-> "gather", event |-> e, len |-> buckets[e.type].len, own |-> <<>>,
                 seen |-> {r.id : r \in ElementsOf(Bucket(e.type))}, next |-> 1, best |-> NoMatch]
<1>1. /\ EngineTypeOK /\ Indexed /\ Loaded /\ filing = <<>> /\ \A u \in Workers : EvalOK(u)
      /\ eval' = [eval EXCEPT ![w] = v]
      /\ UNCHANGED <<buckets, rules, filing, loading, added, reloads, log>>
  BY DEF EngineInv, Lookup
<1>2. e.type \in Keys /\ own \in Seq(Loadable) /\ Len(own) \in Nat /\ DOMAIN own = 1..Len(own)
  BY <1>1, KeysAndIds, LenProperties DEF EngineTypeOK
<1>3. Bucket(e.type) = own /\ buckets[e.type].len = Len(own)
  BY <1>1, <1>2, BucketIs DEF Indexed
<1>4. v.seen = IdsTo(own, Len(own))
  BY <1>2, <1>3 DEF IdsTo, ElementsOf
<1>5. v.seen \subseteq Ids
  BY <1>2, <1>4, KeysAndIds, ElementOfSeq DEF IdsTo
<1>6. v \in Evaluation
  BY <1>2, <1>3, <1>5 DEF Evaluation
<1>7. v.len = Len(own) /\ v.own = <<>> /\ v.event = e /\ v.next = 1 /\ v.best = NoMatch /\ v.at = "gather"
  BY <1>3
<1> HIDE DEF v
<1>8. eval'[w] = v /\ \A u \in Workers : u # w => eval'[u] = eval[u]
  BY <1>1 DEF EngineTypeOK
<1>9. EngineTypeOK'
  BY <1>1, <1>6 DEF EngineTypeOK
<1>10. Locked' /\ Indexed' /\ Loaded'
  BY <1>1 DEF Locked, Indexed, Loaded, InForce
<1>11. Cands(w)' = own
  <2>1. Cands(w)' = [k \in 1..Len(own) |-> buckets[e.type].items[k]]
    BY <1>1, <1>7, <1>8 DEF Cands, Candidate
  <2>2. \A k \in 1..Len(own) : buckets[e.type].items[k] = own[k]
    BY <1>1, <1>2 DEF Indexed
  <2>3. own = [k \in 1..Len(own) |-> own[k]]
    BY <1>2
  <2> QED BY <2>1, <2>2, <2>3
<1>12. Stored(w)'
  <2>1. v.len <= Len(buckets[e.type].items)
    BY <1>1, <1>2, <1>3, <1>7 DEF EngineTypeOK
  <2> QED BY <1>1, <1>7, <1>8, <2>1 DEF Stored
<1>13. Built(own, e)
  BY <1>2 DEF Built
<1>14. BestOf(own, 0, NoMatch, e)
  BY DEF BestOf
<1>15. EvalOK(w)'
  BY <1>1, <1>2, <1>4, <1>7, <1>8, <1>11, <1>12, <1>13, <1>14, EvalMade
<1>16. \A u \in Workers : u # w => EvalOK(u)'
  BY <1>1, <1>8, NothingWritten
<1> QED BY <1>9, <1>10, <1>15, <1>16 DEF EngineInv

LEMMA GatherInv ==
  ASSUME EngineInv, NEW w \in Workers, Gather(w)
  PROVE  EngineInv'
<1>1. PICK v, e, t, n : v = eval[w] /\ e = v.event /\ t = v.event.type /\ n = v.len
  OBVIOUS
<1>2. PICK c : c = Cands(w)
  OBVIOUS
<1> DEFINE shared == v.own = <<>> /\ n < Len(buckets[t].items)
<1>3. /\ EngineTypeOK /\ Locked /\ Indexed /\ Loaded /\ v.at = "gather"
      /\ e = v.event /\ t = e.type /\ n = v.len
      /\ \A u \in Workers : EvalOK(u)
      /\ UNCHANGED <<rules, filing, loading, added, reloads, log>>
  BY <1>1 DEF EngineInv, Gather
<1>4. PICK r \in ElementsOf(More(e)) :
        /\ IsFirstUnseen(r, e, v.seen)
        /\ buckets' = IF shared THEN [buckets EXCEPT ![t].items[n + 1] = r] ELSE buckets
        /\ eval' = [eval EXCEPT ![w].len = n + 1, ![w].seen = v.seen \cup {r.id},
             ![w].own = IF shared THEN <<>> ELSE Append([k \in 1..n |-> Candidate(w, k)], r)]
  BY <1>1 DEF Gather
<1>5. v # Idle /\ eval[w] # Idle
  BY <1>1, <1>3, IdleIsNot
<1>6. /\ v \in Evaluation /\ e \in Events /\ t \in Keys /\ n \in Nat /\ v.own \in Seq(Loadable)
      /\ v.seen \subseteq Ids
  BY <1>1, <1>3, <1>5, Evaluations DEF Evaluation
<1>7. /\ Stored(w) /\ Built(c, e) /\ v.seen = IdsTo(c, n) /\ v.next = 1 /\ v.best = NoMatch
  BY <1>1, <1>2, <1>3, <1>5 DEF EvalOK
<1>8. /\ c = [k \in 1..n |-> Candidate(w, k)] /\ Len(c) = n /\ c \in Seq(Loadable)
      /\ DOMAIN c = 1..n
  <2>1. c = [k \in 1..n |-> Candidate(w, k)]
    BY <1>1, <1>2 DEF Cands
  <2>2. c \in Seq(Loadable) /\ DOMAIN c = 1..Len(c)
    BY <1>7, LenProperties DEF Built
  <2> QED BY <1>6, <2>1, <2>2
<1>9. Logged /\ Source(e) = More(e)
  BY <1>3, <1>6, MoreIs, LoggedType
<1>10. r \in Loadable
  <2>1. Source(e) \in Seq(Loadable) /\ DOMAIN Source(e) = 1..Len(Source(e))
    BY <1>6, <1>9, SourceIs
  <2>2. PICK k \in DOMAIN Source(e) : r = Source(e)[k]
    BY <1>9 DEF ElementsOf
  <2> QED BY <2>1, <2>2, ElementOfSeq
<1> DEFINE d == Append(c, r)
<1>11. /\ d \in Seq(Loadable) /\ d # <<>> /\ Len(d) = n + 1 /\ d[n + 1] = r
       /\ \A k \in 1..n : d[k] = c[k]
       /\ DOMAIN d = 1..(n + 1)
  <2>1. /\ d \in Seq(Loadable) /\ d # <<>> /\ Len(d) = Len(c) + 1 /\ d[Len(c) + 1] = r
        /\ \A k \in 1..Len(c) : d[k] = c[k]
    <3>1. c \in Seq(Loadable)
      BY <1>8
    <3> QED BY <1>10, <3>1, AppendProperties
  <2>2. DOMAIN d = 1..Len(d)
    BY <2>1, LenProperties
  <2> QED BY <1>8, <2>1, <2>2
<1> DEFINE x == [v EXCEPT !.len = n + 1, !.seen = v.seen \cup {r.id},
                          !.own = IF shared THEN <<>> ELSE d]
<1>12. eval' = [eval EXCEPT ![w] = x]
  BY <1>1, <1>4, <1>8
<1> HIDE DEF d, shared
<1>13. /\ x.len = n + 1 /\ x.seen = v.seen \cup {r.id} /\ x.own = (IF shared THEN <<>> ELSE d)
       /\ x.event = e /\ x.at = "gather" /\ x.next = 1 /\ x.best = NoMatch
       /\ x \in Evaluation
  <2>0. n + 1 \in Nat
    BY <1>6
  <2>1. r.id \in Ids
    BY <1>10, KeysAndIds
  <2>2. <<>> \in Seq(Loadable)
    OBVIOUS
  <2> QED BY <1>3, <1>6, <1>7, <1>11, <2>0, <2>1, <2>2 DEF Evaluation
<1> HIDE DEF x
<1>14. eval'[w] = x /\ \A u \in Workers : u # w => eval'[u] = eval[u]
  BY <1>3, <1>12 DEF EngineTypeOK
(* The longer gathering is built as it should be.                          *)
<1>15. Built(d, e)
  <2>1. ASSUME NEW k \in 1..n PROVE IdsTo(d, k) = IdsTo(c, k)
    <3>1. \A j \in 1..k : j \in 1..n /\ d[j] = c[j]
      BY <1>6, <1>11
    <3> QED BY <3>1 DEF IdsTo
  <2>2. IdsTo(d, 0) = IdsTo(c, 0)
    BY DEF IdsTo
  <2>3. FirstOf(r, e, IdsTo(d, n))
    <3>1. FirstOf(r, e, IdsTo(c, n))
      BY <1>4, <1>7, <1>9 DEF IsFirstUnseen, FirstOf
    <3> QED BY <1>6, <2>1, <2>2, <3>1
  <2>4. Len(log[t]) \in Nat /\ Len(log[t]) <= n
    BY <1>3, <1>6, <1>7, <1>8, <1>9, SourceIs DEF Built
  <2>5. ASSUME NEW k \in (Len(log[t]) + 1)..Len(d)
        PROVE  FirstOf(d[k], e, IdsTo(d, k - 1))
    <3>1. CASE k = n + 1
      <4>1. k - 1 = n
        BY <1>6, <3>1
      <4> QED BY <1>11, <2>3, <3>1, <4>1
    <3>2. CASE k # n + 1
      <4>1. /\ k \in (Len(log[t]) + 1)..Len(c) /\ k \in 1..n
            /\ k - 1 \in 1..n \/ k - 1 = 0
        BY <1>6, <1>8, <1>11, <2>4, <2>5, <3>2
      <4>2. FirstOf(c[k], e, IdsTo(c, k - 1))
        BY <1>3, <1>7, <4>1 DEF Built
      <4> QED BY <1>11, <2>1, <2>2, <4>1, <4>2
    <3> QED BY <3>1, <3>2
  <2>6. \A k \in 1..Len(log[t]) : d[k] = log[t][k]
    <3>1. \A k \in 1..Len(log[t]) : k \in 1..n /\ c[k] = log[t][k]
      BY <1>3, <1>6, <1>7, <2>4 DEF Built
    <3> QED BY <1>11, <3>1
  <2> QED BY <1>3, <1>6, <1>11, <2>4, <2>5, <2>6 DEF Built
(* What is written, and where.                                             *)
<1>16. /\ \A k \in Keys : buckets'[k].len = buckets[k].len
       /\ \A k \in Keys : Len(buckets'[k].items) = Len(buckets[k].items)
       /\ \A k \in Keys : k # t => buckets'[k] = buckets[k]
       /\ buckets' \in [Keys -> Slice]
       /\ \A j \in 1..Len(buckets[t].items) : buckets'[t].items[j] =
             IF shared /\ j = n + 1 THEN r ELSE buckets[t].items[j]
  <2>1. CASE ~shared
    BY <1>3, <1>4, <2>1 DEF EngineTypeOK, shared
  <2>2. CASE shared
    <3>1. PICK b : b = buckets[t]
      OBVIOUS
    <3>2. b.items \in Seq(Loadable \cup {NoMatch}) /\ b.len \in Nat /\ b = [items |-> b.items, len |-> b.len]
      BY <1>3, <1>6, <3>1 DEF EngineTypeOK, Slice
    <3>3. PICK i : i = [b.items EXCEPT ![n + 1] = r]
      OBVIOUS
    <3>4. n + 1 \in 1..Len(b.items) /\ r \in Loadable \cup {NoMatch}
      BY <1>6, <1>10, <2>2, <3>1, <3>2, LenProperties DEF shared
    <3>5. /\ i \in Seq(Loadable \cup {NoMatch}) /\ Len(i) = Len(b.items)
          /\ \A j \in 1..Len(b.items) : i[j] = IF j = n + 1 THEN r ELSE b.items[j]
      BY <3>2, <3>3, <3>4, ExceptSeq
    <3>6. buckets' = [buckets EXCEPT ![t] = [items |-> i, len |-> b.len]]
      <4>1. [b EXCEPT !.items = i] = [items |-> i, len |-> b.len]
        BY <3>2
      <4>2. [b EXCEPT !.items[n + 1] = r] = [b EXCEPT !.items = i]
        BY <3>3
      <4>3. buckets' = [buckets EXCEPT ![t] = [b EXCEPT !.items[n + 1] = r]]
        BY <1>4, <2>2, <3>1
      <4> QED BY <4>1, <4>2, <4>3
    <3>7. [items |-> i, len |-> b.len] \in Slice
      BY <3>2, <3>5 DEF Slice
    <3>8. /\ buckets'[t] = [items |-> i, len |-> b.len] /\ buckets' \in [Keys -> Slice]
          /\ \A k \in Keys : k # t => buckets'[k] = buckets[k]
      BY <1>3, <1>6, <3>6, <3>7 DEF EngineTypeOK
    <3> QED BY <1>6, <2>2, <3>1, <3>5, <3>8
  <2> QED BY <2>1, <2>2
<1>17. EngineTypeOK'
  <2>1. \A k \in Keys : buckets'[k].len <= Len(buckets'[k].items)
    BY <1>3, <1>16 DEF EngineTypeOK
  <2>2. eval' \in [Workers -> {Idle} \cup Evaluation]
    BY <1>3, <1>12, <1>13 DEF EngineTypeOK
  <2> QED BY <1>3, <1>16, <2>1, <2>2 DEF EngineTypeOK
<1>18. Locked' /\ Loaded'
  <2>1. filing = <<>>
    BY <1>3, <1>5 DEF Locked, NoReaders
  <2> QED BY <1>3, <2>1 DEF Locked, Loaded, InForce
<1>19. Indexed'
  <2> SUFFICES ASSUME NEW k \in Keys, NEW j \in 1..Len(log[k])
               PROVE  buckets'[k].items[j] = buckets[k].items[j]
    BY <1>3, <1>16 DEF Indexed
  <2>1. CASE k # t
    BY <1>16, <2>1
  <2>2. CASE k = t
    <3>1. Len(log[t]) \in Nat /\ Len(log[t]) <= n
      BY <1>3, <1>6, <1>7, <1>8, <1>9, SourceIs DEF Built
    <3>2. Len(log[t]) <= Len(buckets[t].items) /\ Len(buckets[t].items) \in Nat
      BY <1>3, <1>6, LenProperties DEF Indexed, EngineTypeOK, Slice
    <3>3. j \in 1..Len(buckets[t].items) /\ j # n + 1
      BY <1>6, <2>2, <3>1, <3>2
    <3> QED BY <1>16, <2>2, <3>3
  <2> QED BY <2>1, <2>2
<1>20. Cands(w)' = d /\ Stored(w)'
  <2>1. CASE shared
    <3>1. v.own = <<>> /\ n < Len(buckets[t].items) /\ x.own = <<>>
      BY <1>13, <2>1 DEF shared
    <3>2. Stored(w)'
      <4>1. Len(buckets[t].items) \in Nat /\ Len(buckets'[t].items) = Len(buckets[t].items)
        BY <1>3, <1>6, <1>16, LenProperties DEF EngineTypeOK, Slice
      <4> QED BY <1>3, <1>6, <1>13, <1>14, <3>1, <4>1 DEF Stored
    <3>3. Cands(w)' = [k \in 1..(n + 1) |-> buckets'[t].items[k]]
      BY <1>3, <1>13, <1>14, <3>1 DEF Cands, Candidate
    <3>4. ASSUME NEW k \in 1..(n + 1) PROVE buckets'[t].items[k] = d[k]
      <4>1. Len(buckets[t].items) \in Nat
        BY <1>3, <1>6, LenProperties DEF EngineTypeOK, Slice
      <4>2. k \in 1..Len(buckets[t].items)
        BY <1>6, <3>1, <3>4, <4>1
      <4>3. CASE k = n + 1
        BY <1>11, <1>16, <2>1, <4>2, <4>3
      <4>4. CASE k # n + 1
        <5>1. k \in 1..n
          BY <1>6, <3>4, <4>4
        <5>2. c[k] = buckets[t].items[k]
          BY <1>1, <1>8, <3>1, <5>1 DEF Candidate
        <5> QED BY <1>11, <1>16, <4>2, <4>4, <5>1, <5>2
      <4> QED BY <4>3, <4>4
    <3>5. d = [k \in 1..(n + 1) |-> d[k]]
      BY <1>11
    <3> QED BY <3>2, <3>3, <3>4, <3>5
  <2>2. CASE ~shared
    <3>1. x.own = d /\ d # <<>>
      BY <1>11, <1>13, <2>2
    <3>2. Stored(w)'
      BY <1>11, <1>13, <1>14, <3>1 DEF Stored
    <3>3. Cands(w)' = [k \in 1..(n + 1) |-> d[k]]
      BY <1>13, <1>14, <3>1 DEF Cands, Candidate
    <3>4. d = [k \in 1..(n + 1) |-> d[k]]
      BY <1>11
    <3> QED BY <3>2, <3>3, <3>4
  <2> QED BY <2>1, <2>2
<1>21. EvalOK(w)'
  <2>1. x.seen = IdsTo(d, x.len)
    <3>1. IdsTo(d, n + 1) = IdsTo(c, n) \cup {r.id}
      BY <1>6, <1>11 DEF IdsTo
    <3> QED BY <1>7, <1>13, <3>1
  <2>2. BestOf(d, x.next - 1, x.best, x.event)
    BY <1>13 DEF BestOf
  <2>3. x.next \in 1..(x.len + 1)
    BY <1>6, <1>13
  <2> QED BY <1>3, <1>13, <1>14, <1>15, <1>20, <2>1, <2>2, <2>3, EvalMade
(* The others that read what is written would have written the same.       *)
<1>22. ASSUME NEW u \in Workers, u # w, eval[u] # Idle
       PROVE  Cands(u)' = Cands(u) /\ Stored(u)'
  <2>1. PICK y : y = eval[u]
    OBVIOUS
  <2>2. eval'[u] = y /\ y \in Evaluation /\ y.event \in Events /\ y.event.type \in Keys /\ y.len \in Nat
    BY <1>3, <1>14, <1>22, <2>1, Evaluations
  <2>3. Stored(u) /\ Built(Cands(u), y.event)
    BY <1>3, <1>22, <2>1 DEF EvalOK
  <2>4. Stored(u)'
    BY <1>16, <2>1, <2>2, <2>3 DEF Stored
  <2>5. ASSUME NEW k \in 1..y.len PROVE Candidate(u, k)' = Candidate(u, k)
    <3>1. CASE y.own # <<>>
      BY <2>1, <2>2, <3>1 DEF Candidate
    <3>2. CASE y.own = <<>> /\ y.event.type # t
      BY <1>16, <2>1, <2>2, <3>2 DEF Candidate
    <3>3. CASE y.own = <<>> /\ y.event.type = t
      <4>1. k \in 1..Len(buckets[t].items)
        <5>1. y.len <= Len(buckets[t].items) /\ Len(buckets[t].items) \in Nat
          BY <1>3, <1>6, <2>1, <2>3, <3>3, LenProperties DEF Stored, EngineTypeOK, Slice
        <5> QED BY <2>2, <2>5, <5>1
      <4>2. Candidate(u, k)' = buckets'[t].items[k] /\ Candidate(u, k) = buckets[t].items[k]
        BY <2>1, <2>2, <3>3 DEF Candidate
      <4>3. CASE ~(shared /\ k = n + 1)
        BY <1>16, <4>1, <4>2, <4>3
      <4>4. CASE shared /\ k = n + 1
        <5>1. PICK g : g = Cands(u)
          OBVIOUS
        <5>2. Built(g, y.event)
          BY <2>3, <5>1
        <5>3. g = [j \in 1..y.len |-> Candidate(u, j)]
          BY <2>1, <5>1 DEF Cands
        <5>4. Len(g) = y.len
          BY <2>2, <5>2, <5>3, LenProperties DEF Built
        <5>5. n + 1 \in 1..Len(d) /\ n + 1 <= Len(g)
          BY <1>6, <1>11, <2>2, <2>5, <4>4, <5>4
        <5>6. d[n + 1] = g[n + 1]
          BY <1>3, <1>6, <1>9, <1>15, <2>2, <3>3, <5>2, <5>5, SameCandidates
        <5>7. g[n + 1] = Candidate(u, k)
          BY <2>5, <4>4, <5>3
        <5> QED BY <1>11, <1>16, <4>1, <4>2, <4>4, <5>6, <5>7
      <4> QED BY <4>3, <4>4
    <3> QED BY <3>1, <3>2, <3>3
  <2>6. Cands(u)' = [k \in 1..y.len |-> Candidate(u, k)'] /\ Cands(u) = [k \in 1..y.len |-> Candidate(u, k)]
    BY <2>1, <2>2 DEF Cands
  <2> QED BY <2>4, <2>5, <2>6
<1>23. \A u \in Workers : u # w => EvalOK(u)'
  BY <1>3, <1>14, <1>22, OthersCarried
<1> QED BY <1>17, <1>18, <1>19, <1>21, <1>23 DEF EngineInv
LEMMA GatheredInv ==
  ASSUME EngineInv, NEW w \in Workers, Gathered(w)
  PROVE  EngineInv'
<1>1. PICK v, c : v = eval[w] /\ c = Cands(w)
  OBVIOUS
<1> DEFINE x == [v EXCEPT !.at = "judge"]
<1>2. /\ EngineTypeOK /\ Locked /\ Indexed /\ Loaded /\ v.at = "gather"
      /\ \A u \in Workers : EvalOK(u)
      /\ \A r \in ElementsOf(More(v.event)) : r.id \in v.seen
      /\ eval' = [eval EXCEPT ![w] = x]
      /\ UNCHANGED <<buckets, rules, filing, loading, added, reloads, log>>
  BY <1>1 DEF EngineInv, Gathered
<1>3. v # Idle
  BY <1>2, IdleIsNot
<1>4. /\ v \in Evaluation /\ v.event \in Events /\ v.len \in Nat
  BY <1>1, <1>2, <1>3, Evaluations
<1>5. /\ Stored(w) /\ Built(c, v.event) /\ v.seen = IdsTo(c, v.len) /\ v.next = 1 /\ v.best = NoMatch
  BY <1>1, <1>2, <1>3 DEF EvalOK
<1>6. /\ x.at = "judge" /\ x.event = v.event /\ x.len = v.len /\ x.own = v.own /\ x.seen = v.seen
      /\ x.next = 1 /\ x.best = NoMatch /\ x \in Evaluation
  BY <1>4, <1>5 DEF Evaluation
<1> HIDE DEF x
<1>7. eval'[w] = x /\ \A u \in Workers : u # w => eval'[u] = eval[u]
  BY <1>2 DEF EngineTypeOK
<1>8. EngineTypeOK'
  BY <1>2, <1>6 DEF EngineTypeOK
<1>9. Locked' /\ Indexed' /\ Loaded'
  <2>1. filing = <<>>
    BY <1>1, <1>2, <1>3 DEF Locked, NoReaders
  <2> QED BY <1>2, <2>1 DEF Locked, Indexed, Loaded, InForce
<1>10. Cands(w)' = c /\ Stored(w)'
  <2>1. eval[w].own = v.own /\ eval[w].len = v.len /\ eval[w].event = v.event
    BY <1>1
  <2>2. (eval[w].own)' = v.own /\ (eval[w].len)' = v.len /\ (eval[w].event)' = v.event
    BY <1>6, <1>7
  <2>3. buckets' = buckets
    BY <1>2
  <2>4. ASSUME NEW k PROVE Candidate(w, k)' = Candidate(w, k)
    BY <2>1, <2>2, <2>3 DEF Candidate
  <2>5. Cands(w)' = [k \in 1..v.len |-> Candidate(w, k)'] /\ c = [k \in 1..v.len |-> Candidate(w, k)]
    BY <1>1, <2>1, <2>2 DEF Cands
  <2>6. Cands(w)' = c
    BY <2>4, <2>5
  <2>7. Stored(w)'
    BY <1>5, <2>1, <2>2, <2>3 DEF Stored
  <2> QED BY <2>6, <2>7
<1>11. Complete(c, v.event)
  <2>1. Len(c) = v.len
    BY <1>1, <1>4, <1>5, LenProperties DEF Cands, Built
  <2>2. More(v.event) = Source(v.event)
    BY <1>2, <1>4, MoreIs
  <2> QED BY <1>2, <1>5, <2>1, <2>2 DEF Complete, ElementsOf
<1>12. EvalOK(w)'
  <2>1. BestOf(c, x.next - 1, x.best, x.event)
    BY <1>6 DEF BestOf
  <2>2. x.next \in 1..(x.len + 1)
    BY <1>4, <1>6
  <2> QED BY <1>2, <1>5, <1>6, <1>7, <1>10, <1>11, <2>1, <2>2, EvalMade
<1>13. \A u \in Workers : u # w => EvalOK(u)'
  BY <1>2, <1>7, NothingWritten
<1> QED BY <1>8, <1>9, <1>12, <1>13 DEF EngineInv

(* The judge keeps a most severe match.                                    *)
LEMMA JudgedBest ==
  ASSUME NEW n \in Nat, NEW c, \A k \in 1..(n + 1) : c[k] \in Loadable,
         NEW best \in Loadable \cup {NoMatch}, NEW e, BestOf(c, n, best, e),
         NEW r, r = c[n + 1]
  PROVE  BestOf(c, n + 1,
                IF MatchesRule(r, e) /\ (best = NoMatch \/ MoreSevere(r, best)) THEN r ELSE best, e)
<1>1. \A q \in Loadable : q.rank \in Int /\ q.enforce \in BOOLEAN /\ q # NoMatch
  <2>1. \A q \in Rule : q.rank \in 0..7 /\ q.enforce \in BOOLEAN
    BY DEF Rule
  <2>2. \A i \in 0..7 : i \in Int
    OBVIOUS
  <2> QED BY <2>1, <2>2, RulesLoaded
<1>2. r \in Loadable /\ \A k \in 1..(n + 1) : k \in 1..n \/ k = n + 1
  OBVIOUS
<1>3. n + 1 \in 1..(n + 1) /\ \A k \in 1..n : k \in 1..(n + 1)
  OBVIOUS
(* Severity is a strict order.                                             *)
<1>4. \A p, q, s \in Loadable : MoreSevere(p, q) /\ MoreSevere(q, s) => MoreSevere(p, s)
  BY <1>1 DEF MoreSevere
<1>5. \A p \in Loadable : ~MoreSevere(p, p)
  BY <1>1 DEF MoreSevere
<1>6. CASE ~MatchesRule(r, e)
  BY <1>2, <1>3, <1>6 DEF BestOf
<1>7. CASE MatchesRule(r, e) /\ best = NoMatch
  <2>1. r # NoMatch /\ \A k \in 1..n : ~MatchesRule(c[k], e)
    BY <1>1, <1>2, <1>7 DEF BestOf
  <2> QED BY <1>2, <1>3, <1>5, <1>7, <2>1 DEF BestOf
<1>8. CASE MatchesRule(r, e) /\ best # NoMatch /\ MoreSevere(r, best)
  <2>1. best \in Loadable /\ r # NoMatch
    BY <1>1, <1>2, <1>8
  <2>2. \A k \in 1..n : MatchesRule(c[k], e) => ~MoreSevere(c[k], best)
    BY <1>8 DEF BestOf
  <2>3. \A k \in 1..n : MatchesRule(c[k], e) => ~MoreSevere(c[k], r)
    BY <1>2, <1>3, <1>4, <1>8, <2>1, <2>2
  <2>4. \A k \in 1..(n + 1) : MatchesRule(c[k], e) => ~MoreSevere(c[k], r)
    BY <1>2, <1>5, <2>3
  <2> QED BY <1>3, <1>8, <2>1, <2>4 DEF BestOf
<1>9. CASE MatchesRule(r, e) /\ best # NoMatch /\ ~MoreSevere(r, best)
  BY <1>2, <1>3, <1>9 DEF BestOf
<1> QED BY <1>6, <1>7, <1>8, <1>9

LEMMA JudgeInv ==
  ASSUME EngineInv, NEW w \in Workers, Judge(w)
  PROVE  EngineInv'
<1>1. PICK v, c, r : v = eval[w] /\ c = Cands(w) /\ r = Candidate(w, v.next)
  OBVIOUS
<1> DEFINE b == IF MatchesRule(r, v.event) /\ (v.best = NoMatch \/ MoreSevere(r, v.best))
                  THEN r ELSE v.best
           x == [v EXCEPT !.next = v.next + 1, !.best = b]
<1>2. /\ EngineTypeOK /\ Locked /\ Indexed /\ Loaded /\ v.at = "judge" /\ v.next <= v.len
      /\ \A u \in Workers : EvalOK(u)
      /\ eval' = [eval EXCEPT ![w] = x]
      /\ UNCHANGED <<buckets, rules, filing, loading, added, reloads, log>>
  BY <1>1 DEF EngineInv, Judge
<1>3. v # Idle
  BY <1>2, IdleIsNot
<1>4. /\ v \in Evaluation /\ v.event \in Events /\ v.len \in Nat /\ v.next \in Nat
      /\ v.best \in Loadable \cup {NoMatch}
  BY <1>1, <1>2, <1>3, Evaluations
<1>5. /\ Stored(w) /\ Built(c, v.event) /\ v.seen = IdsTo(c, v.len) /\ Complete(c, v.event)
      /\ v.next \in 1..(v.len + 1) /\ BestOf(c, v.next - 1, v.best, v.event)
  BY <1>1, <1>2, <1>3 DEF EvalOK
<1>6. c \in Seq(Loadable) /\ Len(c) = v.len /\ \A k \in 1..v.len : c[k] = Candidate(w, k)
  BY <1>1, <1>4, <1>5, LenProperties DEF Cands, Built
<1>7. v.next \in 1..v.len /\ r = c[v.next] /\ r \in Loadable
  BY <1>1, <1>2, <1>5, <1>6
<1>8. b \in Loadable \cup {NoMatch}
  BY <1>4, <1>7
<1>9. BestOf(c, v.next, b, v.event)
  <2>1. PICK n : n = v.next - 1
    OBVIOUS
  <2>2. n \in Nat /\ v.next = n + 1 /\ \A k \in 1..(n + 1) : c[k] \in Loadable
    BY <1>6, <1>7, <2>1
  <2> HIDE DEF b
  <2> QED BY <1>4, <1>5, <1>7, <2>1, <2>2, JudgedBest DEF b
<1> HIDE DEF b
<1>10. /\ x.at = "judge" /\ x.event = v.event /\ x.len = v.len /\ x.own = v.own /\ x.seen = v.seen
       /\ x.next = v.next + 1 /\ x.best = b /\ x \in Evaluation
  <2>1. PICK n : n = v.next + 1
    OBVIOUS
  <2>2. n \in Nat
    BY <1>4, <2>1
  <2>3. x = [v EXCEPT !.next = n, !.best = b]
    BY <2>1
  <2> HIDE DEF x
  <2> QED BY <1>2, <1>4, <1>8, <2>1, <2>2, <2>3 DEF Evaluation
<1> HIDE DEF x
<1>11. eval'[w] = x /\ \A u \in Workers : u # w => eval'[u] = eval[u]
  BY <1>2 DEF EngineTypeOK
<1>12. EngineTypeOK'
  BY <1>2, <1>10 DEF EngineTypeOK
<1>13. Locked' /\ Indexed' /\ Loaded'
  <2>1. filing = <<>>
    BY <1>1, <1>2, <1>3 DEF Locked, NoReaders
  <2> QED BY <1>2, <2>1 DEF Locked, Indexed, Loaded, InForce
<1>14. Cands(w)' = c /\ Stored(w)'
  <2>1. /\ buckets' = buckets /\ eval'[w].own = eval[w].own /\ eval'[w].len = eval[w].len
        /\ eval'[w].event = eval[w].event
    BY <1>1, <1>2, <1>10, <1>11
  <2>2. Cands(w)' = Cands(w)
    BY <2>1 DEF Cands, Candidate
  <2>3. Stored(w)' = Stored(w)
    BY <2>1 DEF Stored
  <2> QED BY <1>1, <1>5, <2>2, <2>3
<1>15. EvalOK(w)'
  <2>1. x.next - 1 = v.next /\ x.next \in 1..(x.len + 1)
    BY <1>4, <1>7, <1>10
  <2> QED BY <1>2, <1>5, <1>9, <1>10, <1>11, <1>14, <2>1, EvalMade
<1>16. \A u \in Workers : u # w => EvalOK(u)'
  BY <1>2, <1>11, NothingWritten
<1> QED BY <1>12, <1>13, <1>15, <1>16 DEF EngineInv

LEMMA ReturnMatchInv ==
  ASSUME EngineInv, NEW w \in Workers, ReturnMatch(w)
  PROVE  EngineInv'
<1>1. /\ EngineTypeOK /\ Locked /\ Indexed /\ Loaded /\ eval[w].at = "judge"
      /\ \A u \in Workers : EvalOK(u)
      /\ eval' = [eval EXCEPT ![w] = Idle]
      /\ UNCHANGED <<buckets, rules, filing, loading, added, reloads, log>>
  BY DEF EngineInv, ReturnMatch
<1>2. eval'[w] = Idle /\ \A u \in Workers : u # w => eval'[u] = eval[u]
  BY <1>1 DEF EngineTypeOK
<1>3. EngineTypeOK'
  BY <1>1 DEF EngineTypeOK
<1>4. Locked' /\ Indexed' /\ Loaded'
  <2>1. filing = <<>>
    BY <1>1, IdleIsNot DEF Locked, NoReaders
  <2> QED BY <1>1, <2>1 DEF Locked, Indexed, Loaded, InForce
<1>5. EvalOK(w)'
  BY <1>2 DEF EvalOK
<1>6. \A u \in Workers : u # w => EvalOK(u)'
  BY <1>1, <1>2, NothingWritten
<1> QED BY <1>3, <1>4, <1>5, <1>6 DEF EngineInv

-----------------------------------------------------------------------------
(* The theorems.                                                           *)

LEMMA EngineStepInv == EngineInv /\ [EngineNext]_engineVars => EngineInv'
<1> SUFFICES ASSUME EngineInv, [EngineNext]_engineVars PROVE EngineInv'
  OBVIOUS
<1>1. CASE FileNext
  BY <1>1, FileNextInv
<1>2. CASE LoadNext
  BY <1>2, LoadNextInv
<1>3. CASE AddCompiledRule
  BY <1>3, AddCompiledRuleInv
<1>4. CASE Reload
  BY <1>4, ReloadInv
<1>5. ASSUME NEW w \in Workers, NEW e \in Events, Lookup(w, e) PROVE EngineInv'
  BY <1>5, LookupInv
<1>6. ASSUME NEW w \in Workers, Gather(w) PROVE EngineInv'
  BY <1>6, GatherInv
<1>7. ASSUME NEW w \in Workers, Gathered(w) PROVE EngineInv'
  BY <1>7, GatheredInv
<1>8. ASSUME NEW w \in Workers, Judge(w) PROVE EngineInv'
  BY <1>8, JudgeInv
<1>9. ASSUME NEW w \in Workers, ReturnMatch(w) PROVE EngineInv'
  BY <1>9, ReturnMatchInv
<1>10. CASE UNCHANGED engineVars
  <2>1. /\ buckets' = buckets /\ rules' = rules /\ filing' = filing /\ loading' = loading
        /\ added' = added /\ reloads' = reloads /\ eval' = eval /\ log' = log
    BY <1>10 DEF engineVars
  <2>2. EngineTypeOK' /\ Locked' /\ Indexed' /\ Loaded'
    BY <2>1 DEF EngineInv, EngineTypeOK, Locked, NoReaders, Indexed, Loaded, InForce
  <2>3. \A w \in Workers : EvalOK(w)'
    BY <2>1, NothingWritten DEF EngineInv
  <2> QED BY <2>2, <2>3 DEF EngineInv
<1> QED BY <1>1, <1>2, <1>3, <1>4, <1>5, <1>6, <1>7, <1>8, <1>9, <1>10 DEF EngineNext

LEMMA EngineInvHolds == EngineSpec => []EngineInv
BY EngineInitInv, EngineStepInv, PTL DEF EngineSpec

(* The engine's variables have their types: among them, an evaluation      *)
(* never reads a free place of an array as a candidate's (Evaluate).       *)
THEOREM EngineTyped == EngineSpec => []EngineTypeOK
<1>1. EngineInv => EngineTypeOK
  BY DEF EngineInv
<1> QED BY <1>1, EngineInvHolds, PTL

(* Evaluations append to the slices of the index with the read lock only,  *)
(* and the index never shows it (Evaluate, addCompiledRule).               *)
THEOREM IndexFollowsLog == EngineSpec => []BucketsFollowLog
<1>1. EngineInv => BucketsFollowLog
  BY BucketIs DEF EngineInv, BucketsFollowLog
<1> QED BY <1>1, EngineInvHolds, PTL

LEMMA JudgedAreDue ==
  ASSUME EngineInv, NEW w \in Workers, eval[w].at = "judge"
  PROVE  {Candidate(w, k) : k \in 1..eval[w].len} = Due(eval[w].event)
<1>1. EngineTypeOK /\ EvalOK(w) /\ eval[w] # Idle
  BY IdleIsNot DEF EngineInv
<1>2. eval[w].event \in Events /\ eval[w].len \in Nat /\ Logged
  BY <1>1, Evaluations, LoggedType
<1>3. Built(Cands(w), eval[w].event) /\ Complete(Cands(w), eval[w].event)
  BY <1>1 DEF EvalOK
<1>4. {Cands(w)[k] : k \in 1..Len(Cands(w))} = Due(eval[w].event)
  BY <1>2, <1>3, CompleteIsDue
<1>5. Len(Cands(w)) = eval[w].len
  BY <1>2, <1>3, LenProperties DEF Cands, Built
<1>6. \A k \in 1..eval[w].len : Cands(w)[k] = Candidate(w, k)
  BY DEF Cands
<1> QED BY <1>4, <1>5, <1>6

IsJudged(w, e, judged) ==
  eval[w].at = "judge" /\ e = eval[w].event /\ judged = {Candidate(w, k) : k \in 1..eval[w].len}

LEMMA JudgedAreComplete ==
  ASSUME EngineInv, NEW w \in Workers, NEW e, NEW judged, IsJudged(w, e, judged)
  PROVE  /\ ElementsOf(log[e.type]) \subseteq judged
         /\ \A r \in ElementsOf(log[e.cat]) \cup ElementsOf(log[0]) : \E q \in judged : q.id = r.id
         /\ \A r \in judged : \E k \in {e.type, e.cat, 0} : r \in ElementsOf(log[k])
<1> /\ eval[w].at = "judge" /\ e = eval[w].event
    /\ judged = {Candidate(w, k) : k \in 1..eval[w].len}
  BY DEF IsJudged
<1>1. EngineTypeOK /\ EvalOK(w) /\ eval[w] # Idle
  BY IdleIsNot DEF EngineInv
<1>2. e \in Events /\ eval[w].len \in Nat /\ Logged
  BY <1>1, Evaluations, LoggedType
<1>3. PICK c : c = Cands(w)
  OBVIOUS
<1>4. Complete(c, e) /\ judged = Due(e)
  BY <1>1, <1>3, JudgedAreDue DEF EvalOK
<1>5. Len(c) = eval[w].len /\ \A k \in 1..Len(c) : c[k] \in judged
  <2>1. Len(c) = eval[w].len
    BY <1>1, <1>2, <1>3, LenProperties DEF EvalOK, Cands, Built
  <2> QED BY <1>3, <2>1 DEF Cands
<1>6. \A r \in ElementsOf(log[e.cat]) \cup ElementsOf(log[0]) : \E i \in DOMAIN Source(e) : Source(e)[i] = r
  <2>1. PICK cat, any, m, n, all :
          /\ cat = log[e.cat] /\ any = log[0] /\ m = Len(cat) /\ n = Len(any) /\ all = Source(e)
    OBVIOUS
  <2>2. m \in Nat /\ n \in Nat /\ DOMAIN cat = 1..m /\ DOMAIN any = 1..n
    BY <1>2, <2>1, SourceIs, LenProperties
  <2>3. /\ DOMAIN all = 1..(m + n)
        /\ \A i \in 1..m : all[i] = cat[i]
        /\ \A i \in 1..n : all[m + i] = any[i]
    BY <1>2, <2>1, <2>2, SourceIs
  <2>4. ASSUME NEW i \in DOMAIN cat PROVE i \in DOMAIN all /\ all[i] = cat[i]
    BY <2>2, <2>3
  <2>5. ASSUME NEW i \in DOMAIN any PROVE m + i \in DOMAIN all /\ all[m + i] = any[i]
    BY <2>2, <2>3
  <2> QED BY <2>1, <2>4, <2>5 DEF ElementsOf
<1>7. ASSUME NEW r \in ElementsOf(log[e.cat]) \cup ElementsOf(log[0]) PROVE \E q \in judged : q.id = r.id
  <2>1. r.id \in IdsTo(c, Len(c))
    BY <1>4, <1>6, <1>7 DEF Complete
  <2> QED BY <1>5, <2>1 DEF IdsTo
<1>8. ElementsOf(log[e.type]) \subseteq judged
  BY <1>4 DEF Due
<1>9. \A r \in judged : \E k \in {e.type, e.cat, 0} : r \in ElementsOf(log[k])
  BY <1>4 DEF Due, Eldest
<1> QED BY <1>7, <1>8, <1>9

(* No event passes a rule in force by: the edition in force under its type *)
(* judges it, and of a rule for its category or for any event some edition *)
(* does, also while a load is in progress; and after it no rule of the     *)
(* baseline is missing (Evaluate, addCompiledRule, Reload).                *)
THEOREM JudgesRulesInForce == EngineSpec => []RulesInForceJudged
<1>1. ASSUME EngineInv PROVE RulesInForceJudged
  <2> SUFFICES ASSUME NEW w \in Workers, NEW e, NEW judged, IsJudged(w, e, judged)
               PROVE  /\ \A id \in Ids : rules[id] # NoMatch =>
                           /\ e.type \in ElementsOf(rules[id].types) => rules[id] \in judged
                           /\ ElementsOf(rules[id].types) \cap {e.cat, 0} # {} =>
                                \E r \in judged : r.id = id
                      /\ \A r \in judged : \E k \in {e.type, e.cat, 0} : r \in ElementsOf(log[k])
                      /\ loading = 0 => \A b \in DOMAIN Baseline : rules[Baseline[b].id] # NoMatch
    BY DEF RulesInForceJudged, IsJudged
  <2>1. /\ ElementsOf(log[e.type]) \subseteq judged
        /\ \A r \in ElementsOf(log[e.cat]) \cup ElementsOf(log[0]) : \E q \in judged : q.id = r.id
        /\ \A r \in judged : \E k \in {e.type, e.cat, 0} : r \in ElementsOf(log[k])
    BY <1>1, JudgedAreComplete
  <2>2. filing = <<>> /\ Loaded
    BY <1>1, IdleIsNot DEF EngineInv, Locked, NoReaders, IsJudged
  <2>3. ASSUME NEW id \in Ids, rules[id] # NoMatch, NEW q, q = rules[id]
        PROVE  /\ e.type \in ElementsOf(q.types) => q \in judged
               /\ ElementsOf(q.types) \cap {e.cat, 0} # {} => \E r \in judged : r.id = id
    <3>1. q.id = id /\ \A j \in DOMAIN q.types : q \in ElementsOf(log[q.types[j]])
      BY <2>2, <2>3 DEF Loaded, InForce
    <3>2. \A k \in ElementsOf(q.types) : q \in ElementsOf(log[k])
      BY <3>1 DEF ElementsOf
    <3> QED BY <2>1, <3>1, <3>2
  <2>4. loading = 0 => \A b \in DOMAIN Baseline : rules[Baseline[b].id] # NoMatch
    BY <2>2, EngineAssumption, LenProperties DEF Loaded
  <2> QED BY <2>1, <2>3, <2>4
<1> QED BY <1>1, EngineInvHolds, PTL

(* The verdict is a most severe match among the rules that are judged: no  *)
(* evaluation and no load changes a candidate under it (Evaluate).         *)
THEOREM VerdictIsMostSevere == EngineSpec => []MostSevereVerdict
<1>1. ASSUME EngineInv PROVE MostSevereVerdict
  <2> SUFFICES ASSUME NEW w \in Workers, eval[w].at = "judge", eval[w].next > eval[w].len,
                      NEW e, e = eval[w].event, NEW best, best = eval[w].best
               PROVE  LET matching == {r \in Due(e) : MatchesRule(r, e)} IN
                      IF matching = {} THEN best = NoMatch
                      ELSE best \in matching /\ \A r \in matching : ~MoreSevere(r, best)
    BY DEF MostSevereVerdict
  <2>1. EngineTypeOK /\ EvalOK(w) /\ eval[w] # Idle
    BY <1>1, IdleIsNot DEF EngineInv
  <2>2. PICK c, n : c = Cands(w) /\ n = eval[w].len
    OBVIOUS
  <2>3. n \in Nat /\ eval[w].next \in 1..(n + 1) /\ BestOf(c, eval[w].next - 1, best, e)
    BY <2>1, <2>2, Evaluations DEF EvalOK
  <2>4. BestOf(c, n, best, e)
    <3>1. eval[w].next - 1 = n
      BY <2>2, <2>3
    <3> QED BY <2>3, <3>1
  <2>5. Due(e) = {c[k] : k \in 1..n}
    <3>1. \A k \in 1..n : c[k] = Candidate(w, k)
      BY <2>2 DEF Cands
    <3> QED BY <1>1, <2>2, <3>1, JudgedAreDue
  <2> QED BY <2>4, <2>5 DEF BestOf
<1> QED BY <1>1, EngineInvHolds, PTL

-----------------------------------------------------------------------------
(* The parts beside each other: each step is a step of one part, and the   *)
(* others stutter.                                                         *)

LEMMA EachPartMoves ==
  [DetectionNext]_detectionVars =>
    /\ [CorrelatorNext]_correlatorVars
    /\ [EngineNext]_engineVars
    /\ [OutputNext]_outputVars
<1> SUFFICES ASSUME [DetectionNext]_detectionVars
             PROVE  /\ [CorrelatorNext]_correlatorVars
                    /\ [EngineNext]_engineVars
                    /\ [OutputNext]_outputVars
  OBVIOUS
<1>1. CASE UNCHANGED detectionVars
  BY <1>1 DEF detectionVars
<1>2. CASE DetectionNext
  BY <1>2 DEF DetectionNext, CorrelatorStep, EngineStep, OutputStep
<1> QED BY <1>1, <1>2

(* Whatever the steps of one part come between, the table of windows keeps *)
(* to its limit, the engine's slices to their arrays, and the manager's    *)
(* view to its own (ProcessSignal, Evaluate, Send).                        *)
THEOREM DetectionTyped == DetectionSpec => []DetectionTypeOK
<1>1. DetectionInit => CorrelatorInv /\ EngineInv /\ OutputInvariant
  BY CorrelatorInitInv, EngineInitInv, OutputInitInvariant DEF DetectionInit
<1>2. CorrelatorInv /\ EngineInv /\ OutputInvariant /\ [DetectionNext]_detectionVars
        => (CorrelatorInv /\ EngineInv /\ OutputInvariant)'
  BY EachPartMoves, CorrelatorNextInv, EngineStepInv, OutputNextInvariant
<1>3. CorrelatorInv /\ EngineInv /\ OutputInvariant => DetectionTypeOK
  BY InvariantTyped DEF CorrelatorInv, TableInv, EngineInv, DetectionTypeOK
<1> QED BY <1>1, <1>2, <1>3, PTL DEF DetectionSpec
=============================================================================
