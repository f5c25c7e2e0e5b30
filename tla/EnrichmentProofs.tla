-------------------------- MODULE EnrichmentProofs --------------------------
(***************************************************************************)
(* Proofs about pkg/enrichment: the lists of its two caches, for any keys  *)
(* and any capacity, and the registry with all that is queued for it, for  *)
(* any number of containers and processes.                                 *)
(*                                                                         *)
(* The argument for the lists: a list spells out a sequence of keys.  What *)
(* removeEntry and addToFront do to the pointers is what taking a key out  *)
(* of the sequence and putting one in front of it do to the sequence; and  *)
(* every operation is made of these two.                                   *)
(***************************************************************************)
EXTENDS Enrichment, LinkedCache, SequenceTheorems, FiniteSetTheorems, TLAPS

-----------------------------------------------------------------------------
(* Sequences of keys.                                                      *)

KeyAt(s, i) == IF i \in DOMAIN s THEN s[i] ELSE NoKey

LEMMA KeyAtIs ==
  ASSUME NEW s, NEW n \in Nat, DOMAIN s = 1..n, NEW j \in 1..n
  PROVE  /\ KeyAt(s, j) = s[j]
         /\ KeyAt(s, j + 1) = IF j = n THEN NoKey ELSE s[j + 1]
         /\ KeyAt(s, j - 1) = IF j = 1 THEN NoKey ELSE s[j - 1]
<1>1. j + 1 \in 1..n <=> j # n
  OBVIOUS
<1>2. j - 1 \in 1..n <=> j # 1
  OBVIOUS
<1> QED BY <1>1, <1>2 DEF KeyAt

(* s names each key once; t is s without its i-th key.                     *)
Distinct(s) == s \in Seq(CacheKeys) /\ \A i, j \in DOMAIN s : s[i] = s[j] => i = j
Lacks(t, s, i) ==
  /\ t \in Seq(CacheKeys) /\ Len(t) = Len(s) - 1
  /\ \A j \in 1..Len(t) : t[j] = IF j < i THEN s[j] ELSE s[j + 1]

LEMMA KeySeq ==
  ASSUME NEW s \in Seq(CacheKeys)
  PROVE  /\ Len(s) \in Nat /\ DOMAIN s = 1..Len(s)
         /\ \A i \in 1..Len(s) : s[i] \in CacheKeys
BY LenProperties, ElementOfSeq

LEMMA FrontLacks ==
  ASSUME NEW s \in Seq(CacheKeys), Len(s) > 0
  PROVE  Lacks(Front(s), s, Len(s))
<1>1. Len(s) \in Nat /\ \A i \in 1..Len(s) : s[i] \in CacheKeys
  BY KeySeq
<1>2. PICK n : n = Len(s)
  OBVIOUS
<1>3. n \in Nat /\ n - 1 \in Nat /\ 1 \in Int /\ n - 1 \in Int /\ \A i \in 1..(n - 1) : s[i] \in CacheKeys
  BY <1>1, <1>2
<1>4. /\ SubSeq(s, 1, n - 1) \in Seq(CacheKeys)
      /\ Len(SubSeq(s, 1, n - 1)) = IF 1 <= n - 1 THEN (n - 1) - 1 + 1 ELSE 0
      /\ \A i \in 1..((n - 1) - 1 + 1) : SubSeq(s, 1, n - 1)[i] = s[1 + i - 1]
  BY <1>3, SubSeqProperties
<1>5. PICK t : t = SubSeq(s, 1, n - 1)
  OBVIOUS
<1>6. t \in Seq(CacheKeys) /\ Len(t) = n - 1 /\ \A i \in 1..(n - 1) : t[i] = s[i] /\ i < n
  <2>1. \A i \in 1..(n - 1) : i \in 1..((n - 1) - 1 + 1) /\ 1 + i - 1 = i /\ i < n
    BY <1>3
  <2> QED BY <1>3, <1>4, <1>5, <2>1
<1> QED BY <1>2, <1>5, <1>6 DEF Lacks, Front

LEMMA RemoveAtLacks ==
  ASSUME NEW s \in Seq(CacheKeys), NEW i \in 1..Len(s)
  PROVE  Lacks(RemoveAt(s, i), s, i)
<1>1. PICK n : n = Len(s)
  OBVIOUS
<1>2. n \in Nat /\ \A j \in 1..n : s[j] \in CacheKeys
  BY <1>1, KeySeq
<1>3. /\ i \in Nat /\ 1 <= i /\ i <= n /\ 1 \in Int /\ i - 1 \in Int /\ i + 1 \in Int /\ n \in Int
      /\ \A j \in 1..(i - 1) : s[j] \in CacheKeys
      /\ \A j \in (i + 1)..n : s[j] \in CacheKeys
  BY <1>1, <1>2
<1>4. PICK a, b : a = SubSeq(s, 1, i - 1) /\ b = SubSeq(s, i + 1, n)
  OBVIOUS
<1>5. /\ a \in Seq(CacheKeys) /\ Len(a) = IF 1 <= i - 1 THEN (i - 1) - 1 + 1 ELSE 0
      /\ \A j \in 1..((i - 1) - 1 + 1) : a[j] = s[1 + j - 1]
  BY <1>3, <1>4, SubSeqProperties
<1>6. /\ b \in Seq(CacheKeys) /\ Len(b) = IF i + 1 <= n THEN n - (i + 1) + 1 ELSE 0
      /\ \A j \in 1..(n - (i + 1) + 1) : b[j] = s[(i + 1) + j - 1]
  BY <1>3, <1>4, SubSeqProperties
<1>7. Len(a) = i - 1 /\ Len(b) = n - i
  BY <1>3, <1>5, <1>6
<1>8. PICK t : t = a \o b
  OBVIOUS
<1>9. /\ t \in Seq(CacheKeys) /\ Len(t) = Len(a) + Len(b)
      /\ \A j \in 1 .. Len(a) + Len(b) : t[j] = IF j <= Len(a) THEN a[j] ELSE b[j - Len(a)]
  BY <1>5, <1>6, <1>8, ConcatProperties
<1>10. Len(t) = n - 1
  BY <1>3, <1>7, <1>9
<1>11. ASSUME NEW j \in 1..Len(t) PROVE t[j] = IF j < i THEN s[j] ELSE s[j + 1]
  <2>1. j \in Nat /\ 1 <= j /\ j <= n - 1
    BY <1>10, <1>3
  <2>2. t[j] = IF j <= i - 1 THEN a[j] ELSE b[j - (i - 1)]
    BY <1>3, <1>7, <1>9, <2>1
  <2>3. CASE j < i
    <3>1. j \in 1..((i - 1) - 1 + 1) /\ j <= i - 1 /\ 1 + j - 1 = j
      BY <1>3, <2>1, <2>3
    <3> QED BY <1>5, <2>2, <2>3, <3>1
  <2>4. CASE ~(j < i)
    <3>1. /\ j - (i - 1) \in 1..(n - (i + 1) + 1) /\ ~(j <= i - 1)
          /\ (i + 1) + (j - (i - 1)) - 1 = j + 1
      BY <1>3, <2>1, <2>4
    <3> QED BY <1>6, <2>2, <2>4, <3>1
  <2> QED BY <2>3, <2>4
<1>12. RemoveAt(s, i) = t
  BY <1>1, <1>4, <1>8 DEF RemoveAt
<1> QED BY <1>1, <1>9, <1>10, <1>11, <1>12 DEF Lacks

Without(s, k) == RemoveAt(s, CHOOSE i \in DOMAIN s : s[i] = k)

LEMMA WithoutLacks ==
  ASSUME NEW s, Distinct(s), NEW i \in DOMAIN s
  PROVE  Lacks(Without(s, s[i]), s, i)
<1>1. s \in Seq(CacheKeys) /\ DOMAIN s = 1..Len(s)
  BY KeySeq DEF Distinct
<1>2. (CHOOSE j \in DOMAIN s : s[j] = s[i]) = i
  BY DEF Distinct
<1> QED BY <1>1, <1>2, RemoveAtLacks DEF Without

(* A key in front.                                                         *)
LEMMA ConsIs ==
  ASSUME NEW s \in Seq(CacheKeys), NEW k \in CacheKeys
  PROVE  /\ <<k>> \o s \in Seq(CacheKeys) /\ Len(<<k>> \o s) = Len(s) + 1
         /\ (<<k>> \o s)[1] = k
         /\ \A j \in 2..(Len(s) + 1) : (<<k>> \o s)[j] = s[j - 1]
<1>1. <<k>> \in Seq(CacheKeys) /\ Len(<<k>>) = 1 /\ <<k>>[1] = k
  OBVIOUS
<1>2. PICK t, n : t = <<k>> \o s /\ n = Len(s)
  OBVIOUS
<1>3. /\ t \in Seq(CacheKeys) /\ Len(t) = 1 + n
      /\ \A i \in 1..(1 + n) : t[i] = IF i <= 1 THEN <<k>>[i] ELSE s[i - 1]
  BY <1>1, <1>2, ConcatProperties
<1>4. n \in Nat
  BY <1>2, KeySeq
<1>5. Len(t) = n + 1 /\ t[1] = k /\ \A j \in 2..(n + 1) : t[j] = s[j - 1]
  <2>1. 1 \in 1..(1 + n) /\ \A j \in 2..(n + 1) : j \in 1..(1 + n) /\ ~(j <= 1)
    BY <1>4
  <2> QED BY <1>1, <1>3, <1>4, <2>1
<1> QED BY <1>2, <1>3, <1>5

-----------------------------------------------------------------------------
(* The list.                                                               *)

IsList(l) ==
  /\ l \in [head : CacheKeys \cup {NoKey}, tail : CacheKeys \cup {NoKey}, node : {l.node}]
  /\ DOMAIN l.node \subseteq CacheKeys /\ l.node \in [DOMAIN l.node -> Node]

(* The pointers of l spell out s.                                          *)
Spells(l, s) ==
  /\ Distinct(s)
  /\ l.head = KeyAt(s, 1) /\ l.tail = KeyAt(s, Len(s))
  /\ \A i \in DOMAIN s : /\ s[i] \in DOMAIN l.node
                         /\ l.node[s[i]].next = KeyAt(s, i + 1)
                         /\ l.node[s[i]].prev = KeyAt(s, i - 1)

(* What does not touch the pointers leaves what they spell out.            *)
LEMMA SpellsStill ==
  ASSUME NEW l, NEW s, Spells(l, s), NEW m, m.head = l.head, m.tail = l.tail,
         \A i \in DOMAIN s : /\ s[i] \in DOMAIN m.node
                             /\ m.node[s[i]].next = l.node[s[i]].next
                             /\ m.node[s[i]].prev = l.node[s[i]].prev
  PROVE  Spells(m, s)
BY DEF Spells

LEMMA RemovedIs ==
  ASSUME NEW l, IsList(l), NEW k \in DOMAIN l.node
  PROVE  /\ IsList(removeEntry(l, k)) /\ DOMAIN removeEntry(l, k).node = DOMAIN l.node
         /\ removeEntry(l, k).head = IF l.node[k].prev = NoKey THEN l.node[k].next ELSE l.head
         /\ removeEntry(l, k).tail = IF l.node[k].next = NoKey THEN l.node[k].prev ELSE l.tail
         /\ \A j \in DOMAIN l.node \ {k} :
              /\ removeEntry(l, k).node[j].next =
                   IF j = l.node[k].prev THEN l.node[k].next ELSE l.node[j].next
              /\ removeEntry(l, k).node[j].prev =
                   IF j = l.node[k].next THEN l.node[k].prev ELSE l.node[j].prev
<1>1. PICK p, n, r, D : /\ p = l.node[k].prev /\ n = l.node[k].next
                        /\ r = removeEntry(l, k) /\ D = DOMAIN l.node
  OBVIOUS
<1>2. \A j \in D : l.node[j] \in Node
  BY <1>1 DEF IsList
<1>3. p \in CacheKeys \cup {NoKey} /\ n \in CacheKeys \cup {NoKey}
  BY <1>1, <1>2 DEF Node
<1>4. PICK f : f = [j \in D |->
        [l.node[j] EXCEPT
           !.next = IF j = p THEN n ELSE IF j = k THEN NoKey ELSE l.node[j].next,
           !.prev = IF j = n THEN p ELSE IF j = k THEN NoKey ELSE l.node[j].prev]]
  OBVIOUS
<1>5. r = [head |-> IF p = NoKey THEN n ELSE l.head, tail |-> IF n = NoKey THEN p ELSE l.tail,
           node |-> f]
  BY <1>1, <1>4 DEF removeEntry
<1>6. /\ DOMAIN f = D /\ \A j \in D : f[j] \in Node
      /\ \A j \in D : /\ f[j].next = IF j = p THEN n ELSE IF j = k THEN NoKey ELSE l.node[j].next
                      /\ f[j].prev = IF j = n THEN p ELSE IF j = k THEN NoKey ELSE l.node[j].prev
  BY <1>2, <1>3, <1>4 DEF Node
<1>7. f \in [D -> Node]
  BY <1>4, <1>6
<1>8. IsList(r)
  BY <1>1, <1>3, <1>5, <1>6, <1>7 DEF IsList
<1>9. /\ r.head = IF p = NoKey THEN n ELSE l.head
      /\ r.tail = IF n = NoKey THEN p ELSE l.tail
      /\ r.node = f
  BY <1>5
<1> QED BY <1>1, <1>6, <1>8, <1>9

LEMMA AddedIs ==
  ASSUME NEW l, IsList(l), NEW k \in DOMAIN l.node
  PROVE  /\ IsList(addToFront(l, k)) /\ DOMAIN addToFront(l, k).node = DOMAIN l.node
         /\ addToFront(l, k).head = k
         /\ addToFront(l, k).tail = IF l.tail = NoKey THEN k ELSE l.tail
         /\ \A j \in DOMAIN l.node :
              /\ addToFront(l, k).node[j].prev =
                   IF j = l.head THEN k ELSE IF j = k THEN NoKey ELSE l.node[j].prev
              /\ addToFront(l, k).node[j].next = IF j = k THEN l.head ELSE l.node[j].next
<1>1. PICK r, D : r = addToFront(l, k) /\ D = DOMAIN l.node
  OBVIOUS
<1>2. /\ \A j \in D : l.node[j] \in Node
      /\ l.head \in CacheKeys \cup {NoKey} /\ l.tail \in CacheKeys \cup {NoKey} /\ k \in CacheKeys
  BY <1>1 DEF IsList
<1>3. PICK f : f = [j \in D |->
        [l.node[j] EXCEPT
           !.prev = IF j = l.head THEN k ELSE IF j = k THEN NoKey ELSE l.node[j].prev,
           !.next = IF j = k THEN l.head ELSE l.node[j].next]]
  OBVIOUS
<1>4. r = [head |-> k, tail |-> IF l.tail = NoKey THEN k ELSE l.tail, node |-> f]
  BY <1>1, <1>3 DEF addToFront
<1>5. /\ DOMAIN f = D /\ \A j \in D : f[j] \in Node
      /\ \A j \in D :
           /\ f[j].prev = IF j = l.head THEN k ELSE IF j = k THEN NoKey ELSE l.node[j].prev
           /\ f[j].next = IF j = k THEN l.head ELSE l.node[j].next
  <2>1. DOMAIN f = D
    BY <1>3
  <2>2. ASSUME NEW j \in D
        PROVE  /\ f[j] \in Node
               /\ f[j].prev = IF j = l.head THEN k ELSE IF j = k THEN NoKey ELSE l.node[j].prev
               /\ f[j].next = IF j = k THEN l.head ELSE l.node[j].next
    <3>1. PICK a, b : /\ a = IF j = l.head THEN k ELSE IF j = k THEN NoKey ELSE l.node[j].prev
                      /\ b = IF j = k THEN l.head ELSE l.node[j].next
      OBVIOUS
    <3>2. f[j] = [l.node[j] EXCEPT !.prev = a, !.next = b]
      BY <1>3, <3>1
    <3>3. l.node[j] \in Node
      BY <1>2
    <3>4. a \in CacheKeys \cup {NoKey} /\ b \in CacheKeys \cup {NoKey}
      BY <1>2, <3>1, <3>3 DEF Node
    <3>5. f[j] \in Node /\ f[j].prev = a /\ f[j].next = b
      BY <3>2, <3>3, <3>4 DEF Node
    <3> QED BY <3>1, <3>5
  <2> QED BY <2>1, <2>2
<1>6. f \in [D -> Node]
  BY <1>3, <1>5
<1>7. IsList(r)
  BY <1>1, <1>2, <1>4, <1>5, <1>6 DEF IsList
<1>8. r.head = k /\ r.tail = (IF l.tail = NoKey THEN k ELSE l.tail) /\ r.node = f
  BY <1>4
<1> QED BY <1>1, <1>5, <1>7, <1>8

(* removeEntry: the list is linked around the entry.                       *)
LEMMA RemovedSpells ==
  ASSUME NEW l, IsList(l), NEW s, Spells(l, s), NEW i \in DOMAIN s, NEW t, Lacks(t, s, i)
  PROVE  Spells(removeEntry(l, s[i]), t) /\ \A j \in DOMAIN t : t[j] # s[i]
<1>1. PICK k, p, n, r, c : /\ k = s[i] /\ p = l.node[k].prev /\ n = l.node[k].next
                           /\ r = removeEntry(l, k) /\ c = Len(s)
  OBVIOUS
<1>2. /\ c \in Nat /\ DOMAIN s = 1..c /\ \A j \in 1..c : s[j] \in CacheKeys /\ s[j] # NoKey
      /\ \A j, m \in 1..c : s[j] = s[m] => j = m
  <2>1. s \in Seq(CacheKeys) /\ \A j, m \in DOMAIN s : s[j] = s[m] => j = m
    BY DEF Spells, Distinct
  <2>2. c \in Nat /\ DOMAIN s = 1..c /\ \A j \in 1..c : s[j] \in CacheKeys
    BY <1>1, <2>1, KeySeq
  <2> QED BY <2>1, <2>2, CacheAssumption
<1>3. /\ t \in Seq(CacheKeys) /\ Len(t) = c - 1 /\ DOMAIN t = 1..(c - 1)
      /\ \A j \in 1..(c - 1) : t[j] = IF j < i THEN s[j] ELSE s[j + 1]
  BY <1>1, KeySeq DEF Lacks
<1>4. i \in 1..c /\ i \in Nat /\ k \in DOMAIN l.node /\ p = KeyAt(s, i - 1) /\ n = KeyAt(s, i + 1)
  BY <1>1, <1>2 DEF Spells
<1>5. /\ DOMAIN r.node = DOMAIN l.node
      /\ r.head = IF p = NoKey THEN n ELSE l.head
      /\ r.tail = IF n = NoKey THEN p ELSE l.tail
      /\ \A j \in DOMAIN l.node \ {k} : /\ r.node[j].next = IF j = p THEN n ELSE l.node[j].next
                                        /\ r.node[j].prev = IF j = n THEN p ELSE l.node[j].prev
  <2>1. /\ DOMAIN r.node = DOMAIN l.node
        /\ r.head = IF l.node[k].prev = NoKey THEN l.node[k].next ELSE l.head
        /\ r.tail = IF l.node[k].next = NoKey THEN l.node[k].prev ELSE l.tail
        /\ \A j \in DOMAIN l.node \ {k} :
             /\ r.node[j].next = IF j = l.node[k].prev THEN l.node[k].next ELSE l.node[j].next
             /\ r.node[j].prev = IF j = l.node[k].next THEN l.node[k].prev ELSE l.node[j].prev
    <3>1. k \in DOMAIN l.node
      BY <1>4
    <3> QED BY <1>1, <3>1, RemovedIs
  <2> QED BY <1>1, <2>1
<1>6. /\ l.head = s[1] /\ l.tail = s[c]
      /\ p = (IF i = 1 THEN NoKey ELSE s[i - 1]) /\ n = (IF i = c THEN NoKey ELSE s[i + 1])
  BY <1>1, <1>2, <1>4 DEF Spells, KeyAt
<1>7. \A j \in 1..c : /\ s[j] \in DOMAIN l.node
                      /\ l.node[s[j]].next = IF j = c THEN NoKey ELSE s[j + 1]
                      /\ l.node[s[j]].prev = IF j = 1 THEN NoKey ELSE s[j - 1]
  <2>1. \A j \in 1..c : /\ KeyAt(s, j + 1) = IF j = c THEN NoKey ELSE s[j + 1]
                        /\ KeyAt(s, j - 1) = IF j = 1 THEN NoKey ELSE s[j - 1]
    BY <1>2, KeyAtIs
  <2> QED BY <1>2, <2>1 DEF Spells
(* Where the keys of t are in s.                                           *)
<1>8. ASSUME NEW j \in 1..(c - 1)
      PROVE  \E m \in 1..c : /\ m # i /\ t[j] = s[m] /\ m = IF j < i THEN j ELSE j + 1
  BY <1>2, <1>3, <1>4
<1>9. \A j \in 1..(c - 1) : t[j] # k
  <2> TAKE j \in 1..(c - 1)
  <2>1. PICK m \in 1..c : m # i /\ t[j] = s[m]
    BY <1>8
  <2> QED BY <1>1, <1>2, <1>4, <2>1
<1>10. Distinct(t)
  <2> SUFFICES ASSUME NEW a \in 1..(c - 1), NEW b \in 1..(c - 1), t[a] = t[b] PROVE a = b
    BY <1>3 DEF Distinct
  <2>1. PICK x \in 1..c : x # i /\ t[a] = s[x] /\ x = IF a < i THEN a ELSE a + 1
    BY <1>8
  <2>2. PICK y \in 1..c : y # i /\ t[b] = s[y] /\ y = IF b < i THEN b ELSE b + 1
    BY <1>8
  <2>3. x = y
    BY <1>2, <2>1, <2>2
  <2> QED BY <1>2, <1>4, <2>1, <2>2, <2>3
<1>11. r.head = KeyAt(t, 1)
  <2>1. r.head = IF i = 1 THEN n ELSE s[1]
    BY <1>2, <1>4, <1>5, <1>6
  <2>2. KeyAt(t, 1) = IF c = 1 THEN NoKey ELSE IF i = 1 THEN s[2] ELSE s[1]
    BY <1>2, <1>3, <1>4 DEF KeyAt
  <2> QED BY <1>2, <1>4, <1>6, <2>1, <2>2
<1>12. r.tail = KeyAt(t, Len(t))
  <2>1. r.tail = IF i = c THEN p ELSE s[c]
    BY <1>2, <1>4, <1>5, <1>6
  <2>2. KeyAt(t, c - 1) = IF c = 1 THEN NoKey ELSE IF i = c THEN s[c - 1] ELSE s[c]
    BY <1>2, <1>3, <1>4 DEF KeyAt
  <2> QED BY <1>2, <1>3, <1>4, <1>6, <2>1, <2>2
<1>13. ASSUME NEW j \in 1..(c - 1)
       PROVE  /\ t[j] \in DOMAIN r.node
              /\ r.node[t[j]].next = KeyAt(t, j + 1) /\ r.node[t[j]].prev = KeyAt(t, j - 1)
  <2>1. PICK m \in 1..c : m # i /\ t[j] = s[m] /\ m = IF j < i THEN j ELSE j + 1
    BY <1>8
  <2>2. s[m] \in DOMAIN l.node \ {k}
    BY <1>7, <1>9, <2>1
  <2>3. s[m] = p <=> m = i - 1
    BY <1>2, <1>4, <1>6, <2>1
  <2>4. s[m] = n <=> m = i + 1
    BY <1>2, <1>4, <1>6, <2>1
  <2>5. r.node[s[m]].next = IF m = i - 1 THEN n ELSE IF m = c THEN NoKey ELSE s[m + 1]
    BY <1>5, <1>7, <2>2, <2>3
  <2>6. r.node[s[m]].prev = IF m = i + 1 THEN p ELSE IF m = 1 THEN NoKey ELSE s[m - 1]
    BY <1>5, <1>7, <2>2, <2>4
  <2>7. KeyAt(t, j + 1) = IF j = c - 1 THEN NoKey ELSE IF j + 1 < i THEN s[j + 1] ELSE s[j + 2]
    <3>1. c - 1 \in Nat /\ KeyAt(t, j + 1) = IF j = c - 1 THEN NoKey ELSE t[j + 1]
      <4>1. c - 1 \in Nat
        BY <1>2
      <4>2. PICK d : d = c - 1
        OBVIOUS
      <4> QED BY <1>3, <4>1, <4>2, KeyAtIs
    <3>2. j # c - 1 => j + 1 \in 1..(c - 1) /\ (j + 1) + 1 = j + 2
      BY <1>2
    <3> QED BY <1>3, <3>1, <3>2
  <2>8. KeyAt(t, j - 1) = IF j = 1 THEN NoKey ELSE IF j - 1 < i THEN s[j - 1] ELSE s[j]
    <3>1. c - 1 \in Nat /\ KeyAt(t, j - 1) = IF j = 1 THEN NoKey ELSE t[j - 1]
      <4>1. c - 1 \in Nat
        BY <1>2
      <4>2. PICK d : d = c - 1
        OBVIOUS
      <4> QED BY <1>3, <4>1, <4>2, KeyAtIs
    <3>2. j # 1 => j - 1 \in 1..(c - 1) /\ (j - 1) + 1 = j
      BY <1>2
    <3> QED BY <1>3, <3>1, <3>2
  <2>9. r.node[s[m]].next = KeyAt(t, j + 1)
    BY <1>2, <1>4, <1>6, <2>1, <2>5, <2>7
  <2>10. r.node[s[m]].prev = KeyAt(t, j - 1)
    BY <1>2, <1>4, <1>6, <2>1, <2>6, <2>8
  <2> QED BY <1>5, <2>1, <2>2, <2>9, <2>10
<1> QED BY <1>1, <1>3, <1>9, <1>10, <1>11, <1>12, <1>13 DEF Spells

(* addToFront: an entry that is not linked comes first.                    *)
LEMMA AddedSpells ==
  ASSUME NEW l, IsList(l), NEW s, Spells(l, s), NEW k \in DOMAIN l.node,
         \A j \in DOMAIN s : s[j] # k
  PROVE  Spells(addToFront(l, k), <<k>> \o s)
<1>1. PICK r, t, c : r = addToFront(l, k) /\ t = <<k>> \o s /\ c = Len(s)
  OBVIOUS
<1>2. /\ c \in Nat /\ DOMAIN s = 1..c /\ \A j \in 1..c : s[j] \in CacheKeys /\ s[j] # NoKey
      /\ \A j, m \in 1..c : s[j] = s[m] => j = m
      /\ \A j \in 1..c : s[j] # k
      /\ k \in CacheKeys /\ k # NoKey
  BY <1>1, KeySeq, CacheAssumption DEF Spells, Distinct, IsList
<1>3. /\ t \in Seq(CacheKeys) /\ Len(t) = c + 1 /\ t[1] = k /\ DOMAIN t = 1..(c + 1)
      /\ \A j \in 2..(c + 1) : t[j] = s[j - 1]
  <2>1. s \in Seq(CacheKeys)
    BY DEF Spells, Distinct
  <2>2. t \in Seq(CacheKeys) /\ Len(t) = c + 1 /\ t[1] = k /\ \A j \in 2..(c + 1) : t[j] = s[j - 1]
    BY <1>1, <1>2, <2>1, ConsIs
  <2> QED BY <2>2, KeySeq
<1>4. /\ DOMAIN r.node = DOMAIN l.node /\ r.head = k
      /\ r.tail = IF l.tail = NoKey THEN k ELSE l.tail
      /\ \A j \in DOMAIN l.node :
           /\ r.node[j].prev = IF j = l.head THEN k ELSE IF j = k THEN NoKey ELSE l.node[j].prev
           /\ r.node[j].next = IF j = k THEN l.head ELSE l.node[j].next
  BY <1>1, AddedIs
<1>5. /\ l.head = (IF c = 0 THEN NoKey ELSE s[1]) /\ l.tail = (IF c = 0 THEN NoKey ELSE s[c])
      /\ \A j \in 1..c : /\ s[j] \in DOMAIN l.node
                         /\ l.node[s[j]].next = IF j = c THEN NoKey ELSE s[j + 1]
                         /\ l.node[s[j]].prev = IF j = 1 THEN NoKey ELSE s[j - 1]
  <2>1. \A j \in 1..c : /\ KeyAt(s, j + 1) = IF j = c THEN NoKey ELSE s[j + 1]
                        /\ KeyAt(s, j - 1) = IF j = 1 THEN NoKey ELSE s[j - 1]
    BY <1>2, KeyAtIs
  <2>2. KeyAt(s, 1) = (IF c = 0 THEN NoKey ELSE s[1]) /\ KeyAt(s, c) = (IF c = 0 THEN NoKey ELSE s[c])
    BY <1>2 DEF KeyAt
  <2> QED BY <1>1, <1>2, <2>1, <2>2 DEF Spells
<1>6. Distinct(t)
  <2> SUFFICES ASSUME NEW a \in 1..(c + 1), NEW b \in 1..(c + 1), t[a] = t[b] PROVE a = b
    BY <1>3 DEF Distinct
  <2>1. \A j \in 2..(c + 1) : t[j] # k
    BY <1>2, <1>3
  <2>2. (a = 1 <=> b = 1) /\ (a # 1 => a \in 2..(c + 1)) /\ (b # 1 => b \in 2..(c + 1))
    BY <1>2, <1>3, <2>1
  <2>3. a # 1 => s[a - 1] = s[b - 1] /\ a - 1 \in 1..c /\ b - 1 \in 1..c
    BY <1>2, <1>3, <2>2
  <2> QED BY <1>2, <2>2, <2>3
<1>7. r.head = KeyAt(t, 1) /\ r.tail = KeyAt(t, Len(t))
  <2>1. KeyAt(t, 1) = k /\ KeyAt(t, c + 1) = IF c = 0 THEN k ELSE s[c]
    BY <1>2, <1>3 DEF KeyAt
  <2>2. c \in 1..c => s[c] # NoKey
    BY <1>2
  <2> QED BY <1>2, <1>3, <1>4, <1>5, <2>1, <2>2
<1>8. /\ t[1] \in DOMAIN r.node
      /\ r.node[t[1]].next = KeyAt(t, 2) /\ r.node[t[1]].prev = KeyAt(t, 0)
  <2>1. KeyAt(t, 2) = (IF c = 0 THEN NoKey ELSE s[1]) /\ KeyAt(t, 0) = NoKey
    BY <1>2, <1>3 DEF KeyAt
  <2>2. k # l.head
    BY <1>2, <1>5
  <2> QED BY <1>3, <1>4, <1>5, <2>1, <2>2
<1>9. ASSUME NEW j \in 2..(c + 1)
      PROVE  /\ t[j] \in DOMAIN r.node
             /\ r.node[t[j]].next = KeyAt(t, j + 1) /\ r.node[t[j]].prev = KeyAt(t, j - 1)
  <2>1. PICK m : m = j - 1
    OBVIOUS
  <2>2. m \in 1..c /\ t[j] = s[m] /\ j = m + 1 /\ c # 0
    BY <1>2, <1>3, <2>1
  <2>3. KeyAt(t, j + 1) = IF m = c THEN NoKey ELSE s[m + 1]
    <3>1. m # c => j + 1 \in 2..(c + 1) /\ j + 1 \in 1..(c + 1) /\ (j + 1) - 1 = m + 1
      BY <1>2, <2>2
    <3>2. m = c => j + 1 \notin 1..(c + 1)
      BY <1>2, <2>2
    <3> QED BY <1>3, <3>1, <3>2 DEF KeyAt
  <2>4. KeyAt(t, j - 1) = IF m = 1 THEN k ELSE s[m - 1]
    <3>1. j - 1 = m /\ m \in 1..(c + 1) /\ (m # 1 => m \in 2..(c + 1))
      BY <1>2, <2>2
    <3> QED BY <1>3, <3>1 DEF KeyAt
  <2>5. s[m] # k /\ (s[m] = l.head <=> m = 1)
    BY <1>2, <1>5, <2>2
  <2> QED BY <1>4, <1>5, <2>2, <2>3, <2>4, <2>5
<1>10. \A j \in DOMAIN t : j = 1 \/ j \in 2..(c + 1)
  BY <1>2, <1>3
<1>11. ASSUME NEW j \in DOMAIN t
       PROVE  /\ t[j] \in DOMAIN r.node
              /\ r.node[t[j]].next = KeyAt(t, j + 1) /\ r.node[t[j]].prev = KeyAt(t, j - 1)
  <2>1. CASE j = 1
    <3>1. j + 1 = 2 /\ j - 1 = 0
      BY <2>1
    <3> QED BY <1>8, <2>1, <3>1
  <2>2. CASE j \in 2..(c + 1)
    BY <1>9, <2>2
  <2> QED BY <1>10, <2>1, <2>2
<1> QED BY <1>1, <1>6, <1>7, <1>11 DEF Spells

-----------------------------------------------------------------------------
(* The invariant.                                                          *)

Named(s) == {s[i] : i \in DOMAIN s}

(* The list l of a cache with capacity z spells out s, its entries.        *)
Ordered(l, z, s) ==
  /\ Spells(l, s) /\ DOMAIN l.node = Named(s)
  /\ z > 0 => Len(s) <= z

CacheInv ==
  /\ kind \in {"pid", "cri"} /\ size \in Capacities
  /\ IsList(list) /\ \E s : Ordered(list, size, s)
  /\ doomed \subseteq Entries

(* len(c.entries)                                                          *)
LEMMA EntriesCounted ==
  ASSUME NEW s, Distinct(s)
  PROVE  Cardinality(Named(s)) = Len(s) /\ Len(s) \in Nat
<1>1. Len(s) \in Nat /\ DOMAIN s = 1..Len(s) /\ s \in [1..Len(s) -> Named(s)]
  BY LenProperties DEF Distinct, Named
<1>2. s \in Bijection(1..Len(s), Named(s))
  BY <1>1 DEF Distinct, Named, Bijection, Injection, Surjection, IsInjective
<1> QED BY <1>1, <1>2, FS_CountingElements DEF ExistsBijection

(* What is not linked any more leaves the map.                             *)
LEMMA DropSpells ==
  ASSUME NEW l, IsList(l), NEW s, Spells(l, s), DOMAIN l.node = Named(s),
         NEW i \in DOMAIN s, NEW t, Lacks(t, s, i)
  PROVE  /\ IsList(drop(l, s[i])) /\ Spells(drop(l, s[i]), t)
         /\ DOMAIN drop(l, s[i]).node = Named(t) /\ Named(t) = Named(s) \ {s[i]}
<1>1. PICK k, r, d : k = s[i] /\ r = removeEntry(l, k) /\ d = drop(l, k)
  OBVIOUS
<1>2. k \in DOMAIN l.node
  BY <1>1 DEF Named
<1>3. IsList(r) /\ DOMAIN r.node = DOMAIN l.node
  BY <1>1, <1>2, RemovedIs
<1>4. Spells(r, t) /\ \A j \in DOMAIN t : t[j] # k
  BY <1>1, RemovedSpells
<1>5. d = [r EXCEPT !.node = [j \in DOMAIN r.node \ {k} |-> r.node[j]]]
  BY <1>1 DEF drop
<1>6. PICK f : f = [j \in DOMAIN r.node \ {k} |-> r.node[j]]
  OBVIOUS
<1>7. /\ DOMAIN f = DOMAIN l.node \ {k} /\ f \in [DOMAIN f -> Node]
      /\ \A j \in DOMAIN f : f[j] = r.node[j]
  BY <1>3, <1>6 DEF IsList
<1>8. d.node = f /\ d.head = r.head /\ d.tail = r.tail
      /\ d \in [head : CacheKeys \cup {NoKey}, tail : CacheKeys \cup {NoKey}, node : {f}]
  BY <1>3, <1>5, <1>6 DEF IsList
<1>9. IsList(d)
  BY <1>3, <1>7, <1>8 DEF IsList
<1>10. \A j \in DOMAIN t : t[j] \in DOMAIN f
  BY <1>3, <1>4, <1>7 DEF Spells
<1>11. Spells(d, t)
  BY <1>4, <1>7, <1>8, <1>10, SpellsStill
<1>12. Named(t) = Named(s) \ {k}
  <2>1. /\ Len(s) \in Nat /\ DOMAIN s = 1..Len(s) /\ Len(t) = Len(s) - 1 /\ DOMAIN t = 1..Len(t)
        /\ \A j \in 1..Len(t) : t[j] = IF j < i THEN s[j] ELSE s[j + 1]
        /\ \A j, m \in DOMAIN s : s[j] = s[m] => j = m
    BY KeySeq DEF Lacks, Spells, Distinct
  <2>2. \A j \in DOMAIN t : \E m \in DOMAIN s : t[j] = s[m]
    <3> TAKE j \in DOMAIN t
    <3>1. j \in DOMAIN s /\ j + 1 \in DOMAIN s
      BY <2>1
    <3> QED BY <2>1, <3>1
  <2>3. \A m \in DOMAIN s : m # i => \E j \in DOMAIN t : t[j] = s[m]
    <3> TAKE m \in DOMAIN s
    <3> HAVE m # i
    <3>1. CASE m < i
      <4>1. m \in DOMAIN t
        BY <2>1, <3>1
      <4> QED BY <2>1, <3>1, <4>1
    <3>2. CASE ~(m < i)
      <4>1. m - 1 \in DOMAIN t /\ ~(m - 1 < i) /\ (m - 1) + 1 = m
        BY <2>1, <3>2
      <4> QED BY <2>1, <4>1
    <3> QED BY <3>1, <3>2
  <2>4. ASSUME NEW x \in Named(t) PROVE x \in Named(s) \ {k}
    BY <1>4, <2>2 DEF Named
  <2>5. ASSUME NEW x \in Named(s), x # k PROVE x \in Named(t)
    <3>1. PICK m \in DOMAIN s : x = s[m]
      BY DEF Named
    <3>2. m # i
      BY <1>1, <2>5, <3>1
    <3> QED BY <2>3, <3>1, <3>2 DEF Named
  <2> QED BY <2>4, <2>5
<1> QED BY <1>1, <1>7, <1>8, <1>9, <1>11, <1>12

LEMMA CacheInitInv == LinkedCacheInit => CacheInv
<1> SUFFICES ASSUME LinkedCacheInit PROVE CacheInv
  OBVIOUS
<1>1. PICK s : s = <<>>
  OBVIOUS
<1> Distinct(s) /\ Len(s) = 0 /\ DOMAIN s = {}
  BY <1>1 DEF Distinct
<1>2. /\ list.head = NoKey /\ list.tail = NoKey /\ DOMAIN list.node = {}
      /\ list = [head |-> NoKey, tail |-> NoKey, node |-> list.node]
      /\ list.node \in [{} -> Node]
  BY DEF LinkedCacheInit
<1>3. IsList(list)
  BY <1>2 DEF IsList
<1>4. Spells(list, s)
  BY <1>1, <1>2 DEF Spells, KeyAt
<1>5. DOMAIN list.node = Named(s) /\ Entries = {}
  BY <1>1, <1>2 DEF Entries, Named
<1>6. \A n \in Capacities : n > 0 => 0 <= n
  BY CacheAssumption
<1>7. Ordered(list, size, s)
  BY <1>1, <1>4, <1>5, <1>6 DEF Ordered, LinkedCacheInit
<1> QED BY <1>3, <1>5, <1>7 DEF CacheInv, LinkedCacheInit

(* A change of an entry's age or access time alone.                        *)
LEMMA Touched ==
  ASSUME NEW l, IsList(l), NEW s, Spells(l, s), NEW f \in [DOMAIN l.node -> Node],
         \A j \in DOMAIN l.node : f[j].prev = l.node[j].prev /\ f[j].next = l.node[j].next
  PROVE  /\ IsList([l EXCEPT !.node = f]) /\ Spells([l EXCEPT !.node = f], s)
         /\ [l EXCEPT !.node = f].node = f
<1>1. PICK m : m = [l EXCEPT !.node = f]
  OBVIOUS
<1>2. /\ m.node = f /\ m.head = l.head /\ m.tail = l.tail
      /\ m \in [head : CacheKeys \cup {NoKey}, tail : CacheKeys \cup {NoKey}, node : {f}]
  BY <1>1 DEF IsList
<1>3. IsList(m)
  BY <1>2 DEF IsList
<1>4. Spells(m, s)
  <2>1. \A i \in DOMAIN s : s[i] \in DOMAIN l.node
    BY DEF Spells
  <2> QED BY <1>2, <2>1, SpellsStill
<1> QED BY <1>1, <1>2, <1>3, <1>4

LEMMA TouchedNode ==
  ASSUME NEW l, IsList(l), NEW k \in DOMAIN l.node,
         NEW n \in Node, n.prev = l.node[k].prev, n.next = l.node[k].next,
         NEW f, f = [l.node EXCEPT ![k] = n]
  PROVE  /\ f \in [DOMAIN l.node -> Node]
         /\ \A j \in DOMAIN l.node : f[j].prev = l.node[j].prev /\ f[j].next = l.node[j].next
<1>1. PICK g, D : g = l.node /\ D = DOMAIN l.node /\ g \in [D -> Node] /\ k \in D
  BY DEF IsList
<1>2. \A j \in D : g[j] \in Node
  BY <1>1
<1> QED BY <1>1, <1>2

LEMMA MovedSpells ==
  ASSUME NEW l, IsList(l), NEW s, Spells(l, s), DOMAIN l.node = Named(s), NEW i \in DOMAIN s
  PROVE  /\ IsList(moveToFront(l, s[i])) /\ DOMAIN moveToFront(l, s[i]).node = DOMAIN l.node
         /\ Spells(moveToFront(l, s[i]), <<s[i]>> \o Without(s, s[i]))
<1>1. PICK k, t, r : k = s[i] /\ t = Without(s, k) /\ r = removeEntry(l, k)
  OBVIOUS
<1>2. Lacks(t, s, i) /\ k \in DOMAIN l.node /\ k \in CacheKeys
  BY <1>1, WithoutLacks DEF Spells, Named, IsList
<1>3. IsList(r) /\ DOMAIN r.node = DOMAIN l.node
  BY <1>1, <1>2, RemovedIs
<1>4. Spells(r, t) /\ \A j \in DOMAIN t : t[j] # k
  BY <1>1, <1>2, RemovedSpells
<1>5. CASE k # l.head
  <2>1. moveToFront(l, k) = addToFront(r, k)
    BY <1>1, <1>5 DEF moveToFront
  <2>2. IsList(addToFront(r, k)) /\ DOMAIN addToFront(r, k).node = DOMAIN l.node
    BY <1>2, <1>3, AddedIs
  <2>3. Spells(addToFront(r, k), <<k>> \o t)
    BY <1>2, <1>3, <1>4, AddedSpells
  <2> QED BY <1>1, <2>1, <2>2, <2>3
<1>6. CASE k = l.head
  <2>1. moveToFront(l, k) = l
    BY <1>6 DEF moveToFront
  <2>2. /\ s \in Seq(CacheKeys) /\ Len(s) \in Nat /\ DOMAIN s = 1..Len(s) /\ NoKey \notin CacheKeys
        /\ \A a, b \in DOMAIN s : s[a] = s[b] => a = b
    BY KeySeq, CacheAssumption DEF Spells, Distinct
  <2>3. i = 1
    <3>1. k = KeyAt(s, 1) /\ 1 \in DOMAIN s
      BY <1>6, <2>2 DEF Spells
    <3> QED BY <1>1, <2>2, <3>1 DEF KeyAt
  <2>4. <<k>> \o t = s
    <3>1. PICK n, u : n = Len(s) /\ u = <<k>> \o t
      OBVIOUS
    <3>2. /\ t \in Seq(CacheKeys) /\ Len(t) = n - 1
          /\ \A j \in 1..(n - 1) : t[j] = s[j + 1]
      <4>1. \A j \in 1..(n - 1) : ~(j < i)
        BY <2>3
      <4> QED BY <1>2, <3>1, <4>1 DEF Lacks
    <3>3. /\ u \in Seq(CacheKeys) /\ Len(u) = Len(t) + 1 /\ u[1] = k
          /\ \A j \in 2..(Len(t) + 1) : u[j] = t[j - 1]
      BY <1>2, <3>1, <3>2, ConsIs
    <3>4. n \in Nat /\ n >= 1 /\ Len(u) = n /\ DOMAIN u = 1..n /\ DOMAIN s = 1..n
      <4>1. n \in Nat /\ n >= 1
        BY <2>2, <2>3, <3>1
      <4>2. Len(u) = n /\ DOMAIN u = 1..Len(u)
        BY <3>2, <3>3, <4>1, KeySeq
      <4> QED BY <2>2, <3>1, <4>1, <4>2
    <3>5. \A j \in 1..n : u[j] = s[j]
      <4> TAKE j \in 1..n
      <4>1. CASE j = 1
        BY <1>1, <2>3, <3>3, <4>1
      <4>2. CASE j # 1
        <5>1. j \in 2..(Len(t) + 1) /\ j - 1 \in 1..(n - 1) /\ (j - 1) + 1 = j
          BY <3>2, <3>4, <4>2
        <5> QED BY <3>2, <3>3, <5>1
      <4> QED BY <4>1, <4>2
    <3>6. u \in [1..n -> CacheKeys] /\ s \in [1..n -> CacheKeys]
      BY <2>2, <3>1, <3>3, <3>4, LenProperties
    <3> QED BY <3>1, <3>5, <3>6
  <2> QED BY <1>1, <2>1, <2>4
<1> QED BY <1>5, <1>6

(* A new entry goes to the front.                                          *)
LEMMA InsertSpells ==
  ASSUME NEW l, IsList(l), NEW s, Spells(l, s), DOMAIN l.node = Named(s),
         NEW k \in CacheKeys, k \notin Named(s)
  PROVE  /\ IsList(addToFront(inserted(l, k), k))
         /\ Spells(addToFront(inserted(l, k), k), <<k>> \o s)
         /\ DOMAIN addToFront(inserted(l, k), k).node = Named(s) \cup {k}
<1>1. PICK r : r = inserted(l, k)
  OBVIOUS
<1>2. PICK f : f = [j \in DOMAIN l.node \cup {k} |->
     IF j = k THEN [prev |-> NoKey, next |-> NoKey, fresh |-> TRUE, idle |-> FALSE]
              ELSE l.node[j]]
  OBVIOUS
<1>3. [prev |-> NoKey, next |-> NoKey, fresh |-> TRUE, idle |-> FALSE] \in Node
  BY DEF Node
<1>4. /\ DOMAIN f = DOMAIN l.node \cup {k} /\ f \in [DOMAIN f -> Node]
      /\ \A j \in DOMAIN l.node : f[j] = l.node[j]
  BY <1>2, <1>3 DEF IsList
<1>5. r = [l EXCEPT !.node = f]
  BY <1>1, <1>2 DEF inserted
<1>6. /\ r.node = f /\ r.head = l.head /\ r.tail = l.tail
      /\ r \in [head : CacheKeys \cup {NoKey}, tail : CacheKeys \cup {NoKey}, node : {f}]
  BY <1>5 DEF IsList
<1>7. IsList(r)
  BY <1>4, <1>6 DEF IsList
<1>8. \A i \in DOMAIN s : s[i] \in DOMAIN l.node /\ s[i] # k
  BY DEF Named
<1>9. Spells(r, s)
  BY <1>4, <1>6, <1>8, SpellsStill
<1>10. k \in DOMAIN r.node
  BY <1>4, <1>6
<1>11. IsList(addToFront(r, k)) /\ DOMAIN addToFront(r, k).node = DOMAIN r.node
  BY <1>7, <1>10, AddedIs
<1>12. Spells(addToFront(r, k), <<k>> \o s)
  BY <1>7, <1>8, <1>9, <1>10, AddedSpells
<1> QED BY <1>1, <1>4, <1>6, <1>11, <1>12

LEMMA ConsNames ==
  ASSUME NEW s \in Seq(CacheKeys), NEW k \in CacheKeys
  PROVE  Named(<<k>> \o s) = Named(s) \cup {k} /\ Len(<<k>> \o s) = Len(s) + 1
<1>1. PICK t, n : t = <<k>> \o s /\ n = Len(s)
  OBVIOUS
<1>2. /\ t \in Seq(CacheKeys) /\ Len(t) = n + 1 /\ t[1] = k
      /\ \A j \in 2..(n + 1) : t[j] = s[j - 1]
  BY <1>1, ConsIs
<1>3. n \in Nat /\ DOMAIN s = 1..n /\ DOMAIN t = 1..(n + 1)
  BY <1>1, <1>2, KeySeq
<1>4. ASSUME NEW x \in Named(t) PROVE x \in Named(s) \cup {k}
  <2>1. PICK j \in 1..(n + 1) : x = t[j]
    BY <1>3, <1>4 DEF Named
  <2>2. j # 1 => j \in 2..(n + 1) /\ j - 1 \in 1..n
    BY <1>3
  <2> QED BY <1>2, <1>3, <2>1, <2>2 DEF Named
<1>5. ASSUME NEW x \in Named(s) PROVE x \in Named(t)
  <2>1. PICK j \in 1..n : x = s[j]
    BY <1>3, <1>5 DEF Named
  <2>2. j + 1 \in 2..(n + 1) /\ j + 1 \in 1..(n + 1) /\ (j + 1) - 1 = j
    BY <1>3
  <2> QED BY <1>2, <1>3, <2>1, <2>2 DEF Named
<1>6. k \in Named(t)
  <2>1. 1 \in 1..(n + 1)
    BY <1>3
  <2> QED BY <1>2, <1>3, <2>1 DEF Named
<1> QED BY <1>1, <1>2, <1>4, <1>5, <1>6

-----------------------------------------------------------------------------
(* One lemma for each action.                                              *)

LEMMA GetInv ==
  ASSUME CacheInv, NEW k, k \in Entries, NEW b \in BOOLEAN,
         list' \in {Accessed(list, k), [list EXCEPT !.node = [list.node EXCEPT ![k].fresh = b]],
                    [list EXCEPT !.node = [list.node EXCEPT ![k].idle = b]]},
         UNCHANGED <<kind, size, doomed>>
  PROVE  CacheInv'
<1>1. PICK f : /\ f \in {[list.node EXCEPT ![k].idle = FALSE], [list.node EXCEPT ![k].fresh = b],
                         [list.node EXCEPT ![k].idle = b]}
               /\ list' = [list EXCEPT !.node = f]
  BY DEF Accessed
<1>2. PICK s : Ordered(list, size, s)
  BY DEF CacheInv
<1>3. IsList(list) /\ Spells(list, s) /\ k \in DOMAIN list.node
  BY <1>2 DEF CacheInv, Entries, Ordered
<1>4. /\ f \in [DOMAIN list.node -> Node]
      /\ \A j \in DOMAIN list.node : f[j].prev = list.node[j].prev /\ f[j].next = list.node[j].next
  <2>1. PICK a : a = list.node[k] /\ a \in Node
    BY <1>3 DEF IsList
  <2>2. PICK n : /\ n \in {[a EXCEPT !.idle = FALSE], [a EXCEPT !.fresh = b], [a EXCEPT !.idle = b]}
                 /\ f = [list.node EXCEPT ![k] = n]
    BY <1>1, <2>1
  <2>3. n \in Node /\ n.prev = a.prev /\ n.next = a.next
    BY <2>1, <2>2 DEF Node
  <2> QED BY <1>3, <2>1, <2>2, <2>3, TouchedNode
<1>5. IsList(list') /\ Spells(list', s) /\ list'.node = f
  BY <1>1, <1>3, <1>4, Touched
<1>6. Entries' = Entries /\ Ordered(list', size', s)
  BY <1>2, <1>4, <1>5 DEF Entries, Ordered
<1> QED BY <1>5, <1>6 DEF CacheInv

LEMMA DropInv ==
  ASSUME CacheInv, NEW k, k \in Entries, Drop(k), doomed' = doomed \ {k}
  PROVE  CacheInv'
<1>1. PICK s : Ordered(list, size, s)
  BY DEF CacheInv
<1>2. Spells(list, s) /\ IsList(list) /\ DOMAIN list.node = Named(s) /\ Distinct(s)
  BY <1>1 DEF CacheInv, Ordered, Spells
<1>3. PICK i \in DOMAIN s : k = s[i]
  BY <1>2 DEF Entries, Named
<1>4. PICK t : t = Without(s, k) /\ Lacks(t, s, i)
  BY <1>2, <1>3, WithoutLacks
<1>5. list' = drop(list, k) /\ UNCHANGED <<kind, size>>
  BY DEF Drop
<1>6. /\ IsList(list') /\ Spells(list', t) /\ DOMAIN list'.node = Named(t)
      /\ Named(t) = Named(s) \ {k}
  BY <1>2, <1>3, <1>4, <1>5, DropSpells
<1>7. doomed' \subseteq Entries'
  BY <1>2, <1>6 DEF CacheInv, Entries
<1>8. size' > 0 => Len(t) <= size'
  <2>1. Len(s) \in Nat /\ Len(t) = Len(s) - 1 /\ size \in Nat
    BY <1>2, <1>4, EntriesCounted, CacheAssumption DEF Lacks, CacheInv
  <2> QED BY <1>1, <1>5, <2>1 DEF Ordered
<1>9. Ordered(list', size', t)
  BY <1>6, <1>8 DEF Ordered
<1> QED BY <1>5, <1>6, <1>7, <1>9 DEF CacheInv

LEMMA RenewInv ==
  ASSUME CacheInv, NEW k \in CacheKeys, k \in Entries, doomed = {},
         list' = moveToFront(Renewed(list, k), k), UNCHANGED <<kind, size, doomed>>
  PROVE  CacheInv'
<1>1. PICK s : Ordered(list, size, s)
  BY DEF CacheInv
<1>2. Spells(list, s) /\ IsList(list) /\ DOMAIN list.node = Named(s) /\ Distinct(s)
  BY <1>1 DEF CacheInv, Ordered, Spells
<1>3. PICK i \in DOMAIN s : k = s[i]
  BY <1>2 DEF Entries, Named
<1>4. PICK f, l : /\ f = [list.node EXCEPT ![k] = [list.node[k] EXCEPT !.fresh = TRUE, !.idle = FALSE]]
                  /\ l = Renewed(list, k) /\ l = [list EXCEPT !.node = f]
  BY DEF Renewed
<1>5. k \in DOMAIN list.node
  BY DEF Entries
<1>6. /\ f \in [DOMAIN list.node -> Node]
      /\ \A j \in DOMAIN list.node : f[j].prev = list.node[j].prev /\ f[j].next = list.node[j].next
  <2>1. PICK a : a = list.node[k] /\ a \in Node
    BY <1>2, <1>5 DEF IsList
  <2>2. PICK n : n = [a EXCEPT !.fresh = TRUE, !.idle = FALSE]
    OBVIOUS
  <2>3. n \in Node /\ n.prev = a.prev /\ n.next = a.next
    BY <2>1, <2>2 DEF Node
  <2>4. f = [list.node EXCEPT ![k] = n]
    BY <1>4, <2>1, <2>2
  <2> QED BY <1>2, <1>5, <2>1, <2>3, <2>4, TouchedNode
<1>7. IsList(l) /\ Spells(l, s) /\ DOMAIN l.node = Named(s)
  <2>1. IsList(l) /\ Spells(l, s) /\ l.node = f
    <3>1. l = [list EXCEPT !.node = f]
      BY <1>4
    <3> QED BY <1>2, <1>6, <3>1, Touched
  <2> QED BY <1>2, <1>6, <2>1
<1>8. PICK t, u : t = Without(s, k) /\ u = <<k>> \o t
  OBVIOUS
<1>9. IsList(list') /\ Spells(list', u) /\ DOMAIN list'.node = Named(s)
  <2>1. /\ IsList(moveToFront(l, k)) /\ DOMAIN moveToFront(l, k).node = DOMAIN l.node
        /\ Spells(moveToFront(l, k), u)
    BY <1>3, <1>7, <1>8, MovedSpells
  <2>2. list' = moveToFront(l, k)
    BY <1>4
  <2> QED BY <1>7, <2>1, <2>2
<1>10. Named(u) = Named(s) /\ Len(u) = Len(s)
  <2>1. Lacks(t, s, i) /\ t \in Seq(CacheKeys) /\ Len(t) = Len(s) - 1
    BY <1>2, <1>3, <1>8, WithoutLacks DEF Lacks
  <2>2. Named(u) = Named(t) \cup {k} /\ Len(u) = Len(t) + 1
    BY <1>8, <2>1, ConsNames
  <2>3. Named(t) = Named(s) \ {k} /\ k \in Named(s)
    <3>1. Named(t) = Named(s) \ {k}
      BY <1>2, <1>3, <2>1, DropSpells
    <3>2. k \in Named(s)
      BY <1>3 DEF Named
    <3> QED BY <3>1, <3>2
  <2>4. Len(s) \in Nat
    BY <1>2, EntriesCounted
  <2>5. Len(u) = Len(s)
    BY <2>1, <2>2, <2>4
  <2> QED BY <2>2, <2>3, <2>5
<1>11. Ordered(list', size', u) /\ doomed' = {}
  BY <1>1, <1>9, <1>10 DEF Ordered
<1> QED BY <1>9, <1>11 DEF CacheInv

LEMMA StoreInv ==
  ASSUME CacheInv, NEW k \in CacheKeys, doomed = {},
         NEW l, IsList(l), NEW s, Spells(l, s), DOMAIN l.node = Named(s), k \notin Named(s),
         size > 0 => Len(s) < size,
         list' = addToFront(inserted(l, k), k), UNCHANGED <<kind, size, doomed>>
  PROVE  CacheInv'
<1>1. PICK u : u = <<k>> \o s
  OBVIOUS
<1>2. IsList(list') /\ Spells(list', u) /\ DOMAIN list'.node = Named(s) \cup {k}
  BY <1>1, InsertSpells
<1>3. Named(u) = Named(s) \cup {k} /\ Len(u) = Len(s) + 1 /\ Len(s) \in Nat
  BY <1>1, ConsNames, EntriesCounted DEF Spells, Distinct
<1>4. size \in Nat
  BY CacheAssumption DEF CacheInv
<1>5. size' > 0 => Len(u) <= size'
  BY <1>3, <1>4
<1>6. Ordered(list', size', u) /\ doomed' = {}
  BY <1>2, <1>3, <1>5 DEF Ordered
<1> QED BY <1>2, <1>6 DEF CacheInv

LEMMA SetEntryInv ==
  ASSUME CacheInv, NEW k \in CacheKeys, SetEntry(k)
  PROVE  CacheInv'
<1>1. PICK s : Ordered(list, size, s)
  BY DEF CacheInv
<1>2. /\ Spells(list, s) /\ IsList(list) /\ Entries = Named(s) /\ Distinct(s)
      /\ DOMAIN list.node = Named(s) /\ (size > 0 => Len(s) <= size)
  BY <1>1 DEF CacheInv, Ordered, Entries, Spells
<1>3. Cardinality(Entries) = Len(s) /\ Len(s) \in Nat /\ size \in Nat
  BY <1>2, EntriesCounted, CacheAssumption DEF CacheInv
<1>4. doomed = {} /\ UNCHANGED <<kind, size, doomed>>
  BY DEF SetEntry
<1>5. CASE k \in Entries
  <2>1. list' = moveToFront(Renewed(list, k), k)
    BY <1>5 DEF SetEntry
  <2> QED BY <1>4, <1>5, <2>1, RenewInv
<1>6. CASE k \notin Entries /\ (size > 0 => Cardinality(Entries) < size)
  <2>1. list' = addToFront(inserted(list, k), k)
    BY <1>3, <1>6 DEF SetEntry
  <2> QED BY <1>2, <1>3, <1>4, <1>6, <2>1, StoreInv
<1>7. CASE k \notin Entries /\ size > 0 /\ Cardinality(Entries) >= size
  <2>1. list' = addToFront(inserted(evictLRU(list), k), k)
    BY <1>3, <1>7 DEF SetEntry
  <2>2. PICK n, t : n = Len(s) /\ t = Front(s)
    OBVIOUS
  <2>3. /\ n \in Nat /\ n > 0 /\ n <= size /\ n \in DOMAIN s
        /\ s \in Seq(CacheKeys)
    <3>1. s \in Seq(CacheKeys) /\ n \in Nat /\ n > 0 /\ n <= size
      BY <1>2, <1>3, <1>7, <2>2 DEF Distinct
    <3>2. n \in 1..n /\ DOMAIN s = 1..n
      BY <2>2, <3>1, KeySeq
    <3> QED BY <3>1, <3>2
  <2>4. Lacks(t, s, n)
    BY <2>2, <2>3, FrontLacks
  <2>5. list.tail = s[n] /\ list.tail # NoKey
    <3>1. list.tail = KeyAt(s, n) /\ s[n] \in CacheKeys
      BY <1>2, <2>2, <2>3, KeySeq DEF Spells
    <3> QED BY <2>3, <3>1, CacheAssumption DEF KeyAt
  <2>6. PICK l : l = evictLRU(list) /\ l = drop(list, s[n])
    BY <2>5 DEF evictLRU
  <2>7. IsList(l) /\ Spells(l, t) /\ DOMAIN l.node = Named(t) /\ k \notin Named(t)
    BY <1>2, <1>7, <2>3, <2>4, <2>6, DropSpells
  <2>8. Len(t) < size
    BY <1>3, <2>2, <2>3, <2>4 DEF Lacks
  <2> QED BY <1>4, <2>1, <2>6, <2>7, <2>8, StoreInv
<1> QED BY <1>3, <1>5, <1>6, <1>7

LEMMA WalkInv ==
  ASSUME CacheInv, doomed' \subseteq Entries, UNCHANGED <<kind, size, list>>
  PROVE  CacheInv'
<1>1. IsList(list') /\ Entries' = Entries
  BY DEF CacheInv, Entries
<1>2. \E s : Ordered(list', size', s)
  BY DEF CacheInv
<1> QED BY <1>1, <1>2 DEF CacheInv

LEMMA CacheStepInv == CacheInv /\ [LinkedCacheNext]_cacheListVars => CacheInv'
<1> SUFFICES ASSUME CacheInv, [LinkedCacheNext]_cacheListVars PROVE CacheInv'
  OBVIOUS
<1>1. ASSUME NEW k \in CacheKeys, SetEntry(k) PROVE CacheInv'
  BY <1>1, SetEntryInv
<1>2. ASSUME NEW k \in CacheKeys, GetEntry(k) PROVE CacheInv'
  <2>1. FALSE \in BOOLEAN
    OBVIOUS
  <2>2. k \in Entries /\ list' = Accessed(list, k) /\ UNCHANGED <<kind, size, doomed>>
    BY <1>2 DEF GetEntry
  <2> QED BY <2>1, <2>2, GetInv
<1>3. ASSUME NEW k \in CacheKeys, Age(k) PROVE CacheInv'
  <2>1. TRUE \in BOOLEAN /\ FALSE \in BOOLEAN
    OBVIOUS
  <2>2. k \in Entries /\ UNCHANGED <<kind, size, doomed>>
    BY <1>3 DEF Age
  <2>3. CASE list' = [list EXCEPT !.node = [list.node EXCEPT ![k].fresh = FALSE]]
    BY <2>1, <2>2, <2>3, GetInv
  <2>4. CASE list' = [list EXCEPT !.node = [list.node EXCEPT ![k].idle = TRUE]]
    BY <2>1, <2>2, <2>4, GetInv
  <2> QED BY <1>3, <2>3, <2>4 DEF Age
<1>4. ASSUME NEW k \in CacheKeys, DeleteEntry(k) PROVE CacheInv'
  <2>1. k \in Entries /\ Drop(k) /\ doomed' = doomed \ {k}
    BY <1>4 DEF DeleteEntry
  <2> QED BY <2>1, DropInv
<1>5. CASE ReapExpired \/ PruneIdle
  <2>1. doomed' \subseteq Entries /\ UNCHANGED <<kind, size, list>>
    BY <1>5 DEF ReapExpired, PruneIdle
  <2> QED BY <2>1, WalkInv
<1>6. CASE DropNext
  <2>1. PICK k \in doomed : Drop(k) /\ doomed' = doomed \ {k}
    BY <1>6 DEF DropNext
  <2>2. k \in Entries
    BY DEF CacheInv
  <2> QED BY <2>1, <2>2, DropInv
<1>7. CASE UNCHANGED cacheListVars
  <2>1. doomed' \subseteq Entries /\ UNCHANGED <<kind, size, list>>
    BY <1>7 DEF cacheListVars, CacheInv
  <2> QED BY <2>1, WalkInv
<1> QED BY <1>1, <1>2, <1>3, <1>4, <1>5, <1>6, <1>7 DEF LinkedCacheNext

LEMMA CacheInvHolds == LinkedCacheSpec => []CacheInv
BY CacheInitInv, CacheStepInv, PTL DEF LinkedCacheSpec

LEMMA CacheInvTyped == CacheInv => LinkedCacheTypeOK
<1> SUFFICES ASSUME CacheInv PROVE LinkedCacheTypeOK
  OBVIOUS
<1>1. PICK s : Ordered(list, size, s)
  BY DEF CacheInv
<1>2. IsList(list) /\ Distinct(s) /\ Entries = Named(s) /\ (size > 0 => Len(s) <= size)
  BY <1>1 DEF CacheInv, Ordered, Spells, Entries
<1>3. Cardinality(Entries) = Len(s)
  BY <1>2, EntriesCounted
<1>4. Entries \subseteq CacheKeys /\ list.node \in [Entries -> Node]
  BY <1>2 DEF IsList, Entries
<1>5. list.head \in CacheKeys \cup {NoKey} /\ list.tail \in CacheKeys \cup {NoKey}
  BY <1>2 DEF IsList
<1> QED BY <1>2, <1>3, <1>4, <1>5 DEF CacheInv, LinkedCacheTypeOK

(* The caches keep to their capacity, and the pointers to the map (Set,    *)
(* evictLRU, Reap, Prune, Delete).                                         *)
THEOREM CacheTyped == LinkedCacheSpec => []LinkedCacheTypeOK
BY CacheInvTyped, CacheInvHolds, PTL

(* The list and the map hold the same entries, each once, for any keys and *)
(* capacity: no operation loses an entry, links one twice or leaves a      *)
(* pointer to one that is gone (addToFront, removeEntry).                  *)
THEOREM ListStaysWhole == LinkedCacheSpec => []ListHoldsEntries
<1>1. ASSUME CacheInv PROVE ListHoldsEntries
  <2>1. PICK s : Ordered(list, size, s)
    BY <1>1 DEF CacheInv
  <2>2. Spells(list, s) /\ Distinct(s) /\ Entries = Named(s)
    BY <2>1 DEF Ordered, Spells, Entries
  <2>3. s \in SetToSeqs(Entries)
    <3>1. PICK n : n = Len(s) /\ n = Cardinality(Entries)
      BY <2>2, EntriesCounted
    <3>2. /\ DOMAIN s = 1..n /\ s \in [1..n -> CacheKeys]
          /\ \A i, j \in 1..n : i # j => s[i] # s[j]
      BY <2>2, <3>1, KeySeq, LenProperties DEF Distinct
    <3>3. s \in [1..n -> Entries]
      BY <2>2, <3>2 DEF Named
    <3> QED BY <3>1, <3>2, <3>3 DEF SetToSeqs
  <2> QED BY <2>2, <2>3 DEF ListHoldsEntries, Spells, KeyAt
<1> QED BY <1>1, CacheInvHolds, PTL

-----------------------------------------------------------------------------
(* The registry.                                                           *)

(* What is queued and in hand refers to objects there are, and what a scan *)
(* has listed or picked, to processes in a container.                      *)
RegistryOK ==
  /\ objects \in Seq(ContainerInfo) /\ Len(objects) <= MaxObjects
  /\ criCache \in [Containers -> 0..Len(objects)]
  /\ \A c \in Containers : criCache[c] # 0 => objects[criCache[c]].id = c
  /\ cgroupMap \in [Cgroups -> Containers \cup {Nowhere}]
CRIQueueOK ==
  /\ criQueue \in Seq(CRIEvent) /\ Len(criQueue) <= QueueCap
  /\ \A i \in 1..Len(criQueue) : criQueue[i].obj <= Len(objects)
K8sQueueOK == k8sQueue \in Seq(Containers) /\ Len(k8sQueue) <= QueueCap
PollerOK ==
  /\ poller \in Scan
  /\ poller.picked # Nowhere => poller.seen[poller.picked] \in Place
  /\ poller.at \in {"fullscan", "scan"} =>
       \A p \in poller.todo : p \in Processes /\ poller.seen[p] \in Place
WatcherOK == watcher \in [at : {"off", "idle", "scan", "done"}, todo : SUBSET Processes]
CRIConsumerOK ==
  /\ criConsumer \in [at : {"off", "select", "start", "stop", "done"}, obj : 0..MaxObjects]
  /\ criConsumer.at \in {"start", "stop"} => criConsumer.obj \in 1..Len(objects)
K8sConsumerOK ==
  /\ k8sConsumer \in [at : {"off", "select", "added", "done"}, id : Containers \cup {Nowhere}]
  /\ k8sConsumer.at = "added" => k8sConsumer.id \in Containers
ManagerOK ==
  /\ home \in [Processes -> Place \cup {Nowhere}]
  /\ reaper \in {"off", "select", "prune", "done"}
  /\ manager \in {"new", "running", "stopping", "stopped"}
  /\ cancelled \in BOOLEAN

EnrichInv ==
  /\ RegistryOK /\ CRIQueueOK /\ K8sQueueOK /\ PollerOK /\ WatcherOK
  /\ CRIConsumerOK /\ K8sConsumerOK /\ ManagerOK

-----------------------------------------------------------------------------

LEMMA EnqueueIs ==
  ASSUME NEW S, NEW q \in Seq(S), Len(q) <= QueueCap, NEW x \in S
  PROVE  /\ Enqueue(q, x) \in Seq(S) /\ Len(Enqueue(q, x)) <= QueueCap
         /\ \A i \in 1..Len(Enqueue(q, x)) :
              (i \in 1..Len(q) /\ Enqueue(q, x)[i] = q[i]) \/ Enqueue(q, x)[i] = x
<1>1. Len(q) \in Nat /\ QueueCap \in Nat
  BY LenProperties, EnrichAssumption
<1>2. CASE Len(q) < QueueCap
  <2>1. PICK r : r = Append(q, x)
    OBVIOUS
  <2>2. r \in Seq(S) /\ Len(r) = Len(q) + 1 /\ r[Len(q) + 1] = x /\ \A i \in 1..Len(q) : r[i] = q[i]
    BY <2>1, AppendProperties
  <2>3. Enqueue(q, x) = r
    BY <1>2, <2>1 DEF Enqueue
  <2>4. \A i \in 1..(Len(q) + 1) : i \in 1..Len(q) \/ i = Len(q) + 1
    BY <1>1
  <2>5. Len(q) + 1 <= QueueCap
    BY <1>1, <1>2
  <2> QED BY <2>2, <2>3, <2>4, <2>5
<1>3. CASE ~(Len(q) < QueueCap)
  BY <1>3 DEF Enqueue
<1> QED BY <1>2, <1>3

LEMMA TakenIs ==
  ASSUME NEW S, NEW q \in Seq(S), q # <<>>, Len(q) <= QueueCap
  PROVE  /\ Head(q) \in S /\ Head(q) = q[1] /\ 1 \in 1..Len(q)
         /\ Tail(q) \in Seq(S) /\ Len(Tail(q)) <= QueueCap
         /\ \A i \in 1..Len(Tail(q)) : i + 1 \in 1..Len(q) /\ Tail(q)[i] = q[i + 1]
<1>1. /\ Head(q) \in S /\ Tail(q) \in Seq(S) /\ Len(Tail(q)) = Len(q) - 1
      /\ \A i \in 1..Len(Tail(q)) : Tail(q)[i] = q[i + 1]
  BY HeadTailProperties
<1>2. Len(q) \in Nat /\ Len(q) # 0 /\ QueueCap \in Nat
  BY LenProperties, EmptySeq, EnrichAssumption
<1>3. 1 \in 1..Len(q) /\ Len(q) - 1 <= QueueCap /\ \A i \in 1..(Len(q) - 1) : i + 1 \in 1..Len(q)
  BY <1>2
<1>4. Head(q) = q[1]
  OBVIOUS
<1> QED BY <1>1, <1>3, <1>4

LEMMA ObjectsAre ==
  ASSUME RegistryOK
  PROVE  /\ Len(objects) \in Nat
         /\ \A i \in 1..Len(objects) : objects[i] \in ContainerInfo /\ objects[i].id \in Containers
<1>1. Len(objects) \in Nat /\ \A i \in 1..Len(objects) : objects[i] \in ContainerInfo
  BY LenProperties, ElementOfSeq DEF RegistryOK
<1> QED BY <1>1 DEF ContainerInfo

(* Register and Unregister keep the registry.                              *)
LEMMA RegisterOK ==
  ASSUME RegistryOK, NEW obj \in 1..Len(objects), Register(obj), UNCHANGED objects
  PROVE  RegistryOK'
<1>1. objects[obj].id \in Containers /\ Len(objects) \in Nat
  BY ObjectsAre
<1>2. PICK i : i = objects[obj].id
  OBVIOUS
<1>3. criCache' = [criCache EXCEPT ![i] = obj]
  BY <1>2 DEF Register
<1>4. cgroupMap' \in [Cgroups -> Containers \cup {Nowhere}]
  BY <1>1 DEF Register, RegistryOK
<1> QED BY <1>1, <1>2, <1>3, <1>4 DEF RegistryOK

LEMMA UnregisterOK ==
  ASSUME RegistryOK, NEW c \in Containers, Unregister(c), UNCHANGED objects
  PROVE  RegistryOK'
<1>1. Len(objects) \in Nat
  BY ObjectsAre
<1>2. criCache' = [criCache EXCEPT ![c] = 0]
  BY DEF Unregister
<1>3. cgroupMap' \in [Cgroups -> Containers \cup {Nowhere}]
  BY DEF Unregister, RegistryOK
<1> QED BY <1>1, <1>2, <1>3 DEF RegistryOK

(* A new object.                                                           *)
LEMMA NewObject ==
  ASSUME RegistryOK, NEW info \in ContainerInfo, Len(objects) < MaxObjects,
         objects' = Append(objects, info), Register(Len(objects) + 1)
  PROVE  RegistryOK' /\ Len(objects') = Len(objects) + 1 /\ Len(objects) \in Nat
<1>1. PICK n : n = Len(objects)
  OBVIOUS
<1>2. /\ n \in Nat /\ MaxObjects \in Nat /\ objects \in Seq(ContainerInfo)
      /\ criCache \in [Containers -> 0..n]
      /\ \A c \in Containers : criCache[c] # 0 => objects[criCache[c]].id = c
      /\ cgroupMap \in [Cgroups -> Containers \cup {Nowhere}]
  BY <1>1, ObjectsAre, EnrichAssumption DEF RegistryOK
<1>3. /\ objects' \in Seq(ContainerInfo) /\ Len(objects') = n + 1 /\ objects'[n + 1] = info
      /\ \A i \in 1..n : objects'[i] = objects[i]
  BY <1>1, <1>2, AppendProperties
<1>4. info.id \in Containers
  BY DEF ContainerInfo
<1>5. /\ criCache' = [criCache EXCEPT ![info.id] = n + 1]
      /\ cgroupMap' = [g \in Cgroups |-> IF g = info.cgroup THEN info.id ELSE cgroupMap[g]]
  BY <1>1, <1>3 DEF Register
<1>6. \A c \in Containers : criCache[c] \in 0..n
  BY <1>2
<1>7. criCache' \in [Containers -> 0..(n + 1)]
  <2>1. \A m \in 0..n : m \in 0..(n + 1)
    BY <1>2
  <2>2. n + 1 \in 0..(n + 1)
    BY <1>2
  <2> QED BY <1>2, <1>5, <1>6, <2>1, <2>2
<1>8. \A c \in Containers : criCache'[c] # 0 => objects'[criCache'[c]].id = c
  <2> TAKE c \in Containers
  <2>1. criCache[c] # 0 => criCache[c] \in 1..n
    BY <1>2, <1>6
  <2> QED BY <1>2, <1>3, <1>4, <1>5, <2>1
<1>9. n + 1 <= MaxObjects /\ cgroupMap' \in [Cgroups -> Containers \cup {Nowhere}]
  BY <1>1, <1>2, <1>4, <1>5
<1> QED BY <1>1, <1>2, <1>3, <1>7, <1>8, <1>9 DEF RegistryOK

-----------------------------------------------------------------------------

LEMMA EnrichInitInv == EnrichInit => EnrichInv
<1> SUFFICES ASSUME EnrichInit PROVE EnrichInv
  OBVIOUS
<1>1. <<>> \in Seq(ContainerInfo) /\ <<>> \in Seq(CRIEvent) /\ <<>> \in Seq(Containers) /\ Len(<<>>) = 0
  OBVIOUS
<1>2. QueueCap \in Nat /\ MaxObjects \in Nat
  BY EnrichAssumption
<1>3. RegistryOK /\ CRIQueueOK /\ K8sQueueOK
  BY <1>1, <1>2 DEF EnrichInit, RegistryOK, CRIQueueOK, K8sQueueOK
<1>4. PollerOK /\ WatcherOK
  BY DEF EnrichInit, PollerOK, Scan, Unseen, WatcherOK
<1>5. CRIConsumerOK /\ K8sConsumerOK
  BY <1>2 DEF EnrichInit, CRIConsumerOK, K8sConsumerOK, CRISelect, K8sSelect
<1>6. ManagerOK
  BY DEF EnrichInit, ManagerOK
<1> QED BY <1>3, <1>4, <1>5, <1>6 DEF EnrichInv

(* The objects only grow in number.                                        *)
LEMMA MoreObjects ==
  ASSUME RegistryOK, Len(objects') \in Nat, Len(objects) <= Len(objects')
  PROVE  /\ CRIQueueOK /\ UNCHANGED criQueue => CRIQueueOK'
         /\ CRIConsumerOK /\ UNCHANGED criConsumer => CRIConsumerOK'
<1>1. Len(objects) \in Nat
  BY ObjectsAre
<1>2. ASSUME CRIQueueOK, UNCHANGED criQueue PROVE CRIQueueOK'
  <2>1. \A i \in 1..Len(criQueue) : criQueue[i].obj \in Nat
    <3> TAKE i \in 1..Len(criQueue)
    <3>1. criQueue[i] \in CRIEvent
      BY <1>2, ElementOfSeq DEF CRIQueueOK
    <3>2. \A e \in CRIEvent : e.obj \in Nat
      BY EnrichAssumption DEF CRIEvent
    <3> QED BY <3>1, <3>2
  <2> QED BY <1>1, <1>2, <2>1 DEF CRIQueueOK
<1>3. ASSUME CRIConsumerOK, UNCHANGED criConsumer PROVE CRIConsumerOK'
  BY <1>1, <1>3 DEF CRIConsumerOK
<1> QED BY <1>2, <1>3

(* The actions that touch neither registry nor queues.                     *)
LEMMA GoroutineInv ==
  ASSUME EnrichInv, UNCHANGED <<objects, criCache, cgroupMap, criQueue, k8sQueue>>,
         PollerOK', WatcherOK', CRIConsumerOK', K8sConsumerOK', ManagerOK'
  PROVE  EnrichInv'
BY DEF EnrichInv, RegistryOK, CRIQueueOK, K8sQueueOK

-----------------------------------------------------------------------------
(* The manager, and the node.                                              *)

LEMMA ManagerStep ==
  ASSUME EnrichInv,
         StartEnrichment \/ StopBegins \/ StopEnds \/ Cancel \/ \E p \in Processes : Move(p)
  PROVE  EnrichInv'
<1>1. UNCHANGED <<objects, criCache, cgroupMap, criQueue, k8sQueue>>
  BY DEF StartEnrichment, StopBegins, StopEnds, Cancel, Move, cacheVars
<1>2. CASE StartEnrichment
  <2>1. PollerOK'
    BY <1>2 DEF StartEnrichment, EnrichInv, PollerOK, Scan
  <2>2. WatcherOK' /\ ManagerOK'
    BY <1>2 DEF StartEnrichment, EnrichInv, WatcherOK, ManagerOK, nodeVars, Listed
  <2>3. CRIConsumerOK' /\ K8sConsumerOK'
    BY <1>2, EnrichAssumption
       DEF StartEnrichment, CRIConsumerOK, K8sConsumerOK, CRISelect, K8sSelect
  <2> QED BY <1>1, <2>1, <2>2, <2>3, GoroutineInv
<1>3. CASE StopBegins \/ StopEnds \/ Cancel \/ \E p \in Processes : Move(p)
  <2>1. UNCHANGED goroutines
    BY <1>3 DEF StopBegins, StopEnds, Cancel, Move
  <2>2. PollerOK' /\ WatcherOK' /\ CRIConsumerOK' /\ K8sConsumerOK'
    BY <1>1, <2>1 DEF goroutines, EnrichInv, PollerOK, WatcherOK, CRIConsumerOK, K8sConsumerOK
  <2>3. ManagerOK'
    <3>1. CASE StopBegins \/ StopEnds \/ Cancel
      BY <2>1, <3>1 DEF StopBegins, StopEnds, Cancel, EnrichInv, ManagerOK, nodeVars, goroutines
    <3>2. CASE \E p \in Processes : Move(p)
      BY <2>1, <3>2 DEF Move, EnrichInv, ManagerOK, goroutines
    <3> QED BY <1>3, <3>1, <3>2
  <2> QED BY <1>1, <2>2, <2>3, GoroutineInv
<1> QED BY <1>2, <1>3

-----------------------------------------------------------------------------
(* The poller and the watcher.                                             *)

(* The parts that a step of the poller or of the watcher leaves alone.     *)
LEMMA ScannerFrame ==
  ASSUME EnrichInv, UNCHANGED <<nodeVars, criConsumer, k8sConsumer, reaper, manager, cancelled>>
  PROVE  /\ K8sConsumerOK' /\ ManagerOK'
         /\ UNCHANGED objects => CRIConsumerOK'
         /\ UNCHANGED k8sQueue => K8sQueueOK'
         /\ UNCHANGED watcher => WatcherOK'
         /\ UNCHANGED poller => PollerOK'
BY DEF EnrichInv, nodeVars, K8sConsumerOK, ManagerOK, CRIConsumerOK, K8sQueueOK, WatcherOK, PollerOK

(* What no step of the poller touches.                                     *)
LEMMA PollerFrame ==
  ASSUME Poller
  PROVE  UNCHANGED <<nodeVars, criConsumer, k8sConsumer, reaper, manager, cancelled, k8sQueue, watcher>>
<1>1. CASE ListContainers \/ RegisterNew \/ ScanEnds \/ \E p \in Processes : PickNew(p)
  BY <1>1, Zenon DEF ListContainers, RegisterNew, ScanEnds, PickNew
<1>2. CASE LookForGone
  BY <1>2 DEF LookForGone
<1>3. CASE \E c \in Containers : UnregisterGone(c)
  BY <1>3 DEF UnregisterGone
<1> QED BY <1>1, <1>2, <1>3 DEF Poller

LEMMA PollerStep ==
  ASSUME EnrichInv, Poller
  PROVE  EnrichInv'
<1>1. PollerOK /\ RegistryOK /\ CRIQueueOK /\ poller \in Scan
  BY DEF EnrichInv, PollerOK
<1>2. UNCHANGED <<nodeVars, criConsumer, k8sConsumer, reaper, manager, cancelled, k8sQueue, watcher>>
  BY PollerFrame
<1>3. K8sConsumerOK' /\ ManagerOK' /\ K8sQueueOK' /\ WatcherOK' /\ (UNCHANGED objects => CRIConsumerOK')
  BY <1>2, ScannerFrame
<1>4. CASE ListContainers
  <2>1. PollerOK'
    <3>1. home \in [Processes -> Place \cup {Nowhere}]
      BY DEF EnrichInv, ManagerOK
    <3>2. Listed \subseteq Processes /\ \A p \in Listed : home[p] \in Place
      BY <3>1 DEF Listed
    <3> QED BY <1>4, <3>1, <3>2 DEF ListContainers, PollerOK, Scan
  <2>2. UNCHANGED <<objects, criCache, cgroupMap, criQueue, k8sQueue>>
    BY <1>4 DEF ListContainers, cacheVars
  <2> QED BY <1>3, <2>1, <2>2, GoroutineInv
<1>5. ASSUME NEW p \in Processes, PickNew(p) PROVE EnrichInv'
  <2>1. PollerOK'
    BY <1>1, <1>5 DEF PickNew, PollerOK, Scan
  <2>2. UNCHANGED <<objects, criCache, cgroupMap, criQueue, k8sQueue>>
    BY <1>5 DEF PickNew, cacheVars
  <2> QED BY <1>3, <2>1, <2>2, GoroutineInv
<1>6. CASE LookForGone
  <2>1. PollerOK'
    <3>1. PICK gone : gone = {c \in Containers : criCache[c] # 0
                                /\ \A p \in Processes :
                                     poller.seen[p] # Nowhere => poller.seen[p].id # c}
      OBVIOUS
    <3>2. gone \subseteq Containers /\ poller.picked = Nowhere
          /\ Unseen \in [Processes -> Place \cup {Nowhere}]
      BY <1>6, <3>1 DEF Unseen, LookForGone
    <3>3. \/ poller' = [poller EXCEPT !.at = "idle", !.seen = Unseen]
          \/ poller' = [poller EXCEPT !.at = "gone", !.todo = gone, !.seen = Unseen]
      BY <1>6, <3>1 DEF LookForGone
    <3> QED BY <1>1, <3>2, <3>3 DEF PollerOK, Scan
  <2>2. UNCHANGED <<objects, criCache, cgroupMap, criQueue, k8sQueue>>
    BY <1>6 DEF LookForGone, cacheVars
  <2> QED BY <1>3, <2>1, <2>2, GoroutineInv
<1>7. CASE ScanEnds
  <2>1. PollerOK'
    BY <1>1, <1>7 DEF ScanEnds, PollerOK, Scan
  <2>2. UNCHANGED <<objects, criCache, cgroupMap, criQueue, k8sQueue>>
    BY <1>7 DEF ScanEnds, cacheVars
  <2> QED BY <1>3, <2>1, <2>2, GoroutineInv
<1>8. CASE RegisterNew
  <2>1. PICK info : info = [id |-> poller.seen[poller.picked].id,
                            cgroup |-> poller.seen[poller.picked].cgroup, pod |-> FALSE]
    OBVIOUS
  <2>2. info \in ContainerInfo
    BY <1>1, <1>8, <2>1 DEF RegisterNew, PollerOK, Place, ContainerInfo
  <2>3. RegistryOK' /\ Len(objects') = Len(objects) + 1 /\ Len(objects) \in Nat
    BY <1>1, <1>8, <2>1, <2>2, NewObject DEF RegisterNew
  <2>4. Len(objects') \in Nat /\ Len(objects) <= Len(objects')
    BY <2>3
  <2>5. CRIConsumerOK'
    BY <1>1, <1>2, <2>4, MoreObjects DEF EnrichInv
  <2>6. CRIQueueOK'
    <3>1. PICK n, e : n = Len(objects) + 1 /\ e = [type |-> "start", obj |-> n]
      OBVIOUS
    <3>2. n \in Nat /\ n = Len(objects') /\ n \in 1..MaxObjects
      BY <1>8, <2>3, <3>1, EnrichAssumption DEF RegisterNew
    <3>3. e \in CRIEvent /\ e.obj = n
      BY <3>1, <3>2 DEF CRIEvent
    <3>4. criQueue \in Seq(CRIEvent) /\ Len(criQueue) <= QueueCap
      BY <1>1 DEF CRIQueueOK
    <3>5. criQueue' = Enqueue(criQueue, e)
      BY <1>8, <3>1 DEF RegisterNew
    <3>6. /\ criQueue' \in Seq(CRIEvent) /\ Len(criQueue') <= QueueCap
          /\ \A i \in 1..Len(criQueue') :
               (i \in 1..Len(criQueue) /\ criQueue'[i] = criQueue[i]) \/ criQueue'[i] = e
      BY <3>3, <3>4, <3>5, EnqueueIs
    <3>7. \A i \in 1..Len(criQueue) : criQueue[i].obj \in Nat /\ criQueue[i].obj <= n
      <4> TAKE i \in 1..Len(criQueue)
      <4>1. criQueue[i] \in CRIEvent
        BY <3>4, ElementOfSeq
      <4>2. criQueue[i].obj \in 1..MaxObjects /\ criQueue[i].obj <= Len(objects)
        BY <1>1, <4>1 DEF CRIEvent, CRIQueueOK
      <4> QED BY <2>3, <3>1, <4>2, EnrichAssumption
    <3> QED BY <3>2, <3>3, <3>6, <3>7 DEF CRIQueueOK
  <2>7. PollerOK'
    BY <1>1, <1>8 DEF RegisterNew, PollerOK, Scan
  <2> QED BY <1>3, <2>3, <2>5, <2>6, <2>7 DEF EnrichInv
<1>9. ASSUME NEW c \in Containers, UnregisterGone(c) PROVE EnrichInv'
  <2>1. RegistryOK' /\ UNCHANGED objects
    BY <1>1, <1>9, UnregisterOK DEF UnregisterGone
  <2>2. CRIQueueOK'
    <3>1. CASE criCache[c] = 0
      BY <1>1, <1>9, <2>1, <3>1 DEF UnregisterGone, CRIQueueOK
    <3>2. CASE criCache[c] # 0
      <4>1. PICK n, e : n = criCache[c] /\ e = [type |-> "stop", obj |-> n]
        OBVIOUS
      <4>2. n \in 1..Len(objects) /\ n \in 1..MaxObjects
        BY <1>1, <3>2, <4>1, ObjectsAre, EnrichAssumption DEF RegistryOK
      <4>3. e \in CRIEvent /\ e.obj = n
        BY <4>1, <4>2 DEF CRIEvent
      <4>4. criQueue \in Seq(CRIEvent) /\ Len(criQueue) <= QueueCap
        BY <1>1 DEF CRIQueueOK
      <4>5. criQueue' = Enqueue(criQueue, e)
        BY <1>9, <3>2, <4>1 DEF UnregisterGone
      <4>6. /\ criQueue' \in Seq(CRIEvent) /\ Len(criQueue') <= QueueCap
            /\ \A i \in 1..Len(criQueue') :
                 (i \in 1..Len(criQueue) /\ criQueue'[i] = criQueue[i]) \/ criQueue'[i] = e
        <5>1. PICK r : r = Enqueue(criQueue, e)
          OBVIOUS
        <5>2. /\ r \in Seq(CRIEvent) /\ Len(r) <= QueueCap
              /\ \A i \in 1..Len(r) : (i \in 1..Len(criQueue) /\ r[i] = criQueue[i]) \/ r[i] = e
          BY <4>3, <4>4, <5>1, EnqueueIs
        <5> QED BY <4>5, <5>1, <5>2
      <4> QED BY <1>1, <2>1, <4>2, <4>3, <4>6 DEF CRIQueueOK
    <3> QED BY <3>1, <3>2
  <2>3. PollerOK'
    BY <1>1, <1>9 DEF UnregisterGone, PollerOK, Scan
  <2> QED BY <1>3, <2>1, <2>2, <2>3 DEF EnrichInv
<1> QED BY <1>4, <1>5, <1>6, <1>7, <1>8, <1>9 DEF Poller

LEMMA WatcherStep ==
  ASSUME EnrichInv, Watcher
  PROVE  EnrichInv'
<1>1. WatcherOK /\ K8sQueueOK /\ home \in [Processes -> Place \cup {Nowhere}]
  BY DEF EnrichInv, ManagerOK
<1>2. UNCHANGED <<nodeVars, objects, criCache, cgroupMap, criConsumer, k8sConsumer, reaper, manager,
                  cancelled, criQueue, poller>>
  BY DEF Watcher, WatchScan, WatchEnds, ReportPod, cacheVars
<1>3. K8sConsumerOK' /\ ManagerOK' /\ PollerOK' /\ CRIConsumerOK' /\ (UNCHANGED k8sQueue => K8sQueueOK')
  BY <1>2, ScannerFrame
<1>4. RegistryOK' /\ CRIQueueOK'
  BY <1>2 DEF EnrichInv, RegistryOK, CRIQueueOK
<1>5. CASE WatchScan \/ WatchEnds
  BY <1>1, <1>3, <1>4, <1>5 DEF WatchScan, WatchEnds, WatcherOK, EnrichInv, Listed
<1>6. ASSUME NEW p \in Processes, ReportPod(p) PROVE EnrichInv'
  <2>1. WatcherOK'
    BY <1>1, <1>6 DEF ReportPod, WatcherOK
  <2>2. K8sQueueOK'
    <3>1. CASE home[p] = Nowhere
      BY <1>1, <1>6, <3>1 DEF ReportPod, K8sQueueOK
    <3>2. CASE home[p] # Nowhere
      <4>1. home[p].id \in Containers /\ k8sQueue' = Enqueue(k8sQueue, home[p].id)
        BY <1>1, <1>6, <3>2 DEF ReportPod, Place
      <4> QED BY <1>1, <4>1, EnqueueIs DEF K8sQueueOK
    <3> QED BY <3>1, <3>2
  <2> QED BY <1>3, <1>4, <2>1, <2>2 DEF EnrichInv
<1> QED BY <1>5, <1>6 DEF Watcher

-----------------------------------------------------------------------------
(* The consumers and the reaper.                                           *)

(* The parts that a step of a consumer leaves alone.                       *)
LEMMA ConsumerFrame ==
  ASSUME EnrichInv, UNCHANGED <<nodeVars, poller, watcher, manager, cancelled>>
  PROVE  /\ PollerOK' /\ WatcherOK' /\ (UNCHANGED reaper => ManagerOK')
         /\ UNCHANGED k8sQueue => K8sQueueOK'
         /\ UNCHANGED k8sConsumer => K8sConsumerOK'
         /\ UNCHANGED cacheVars => RegistryOK'
         /\ UNCHANGED <<objects, criQueue>> => CRIQueueOK'
         /\ UNCHANGED <<objects, criConsumer>> => CRIConsumerOK'
<1> USE DEF EnrichInv
<1>1. PollerOK' /\ WatcherOK'
  BY DEF PollerOK, WatcherOK
<1>2. UNCHANGED reaper => ManagerOK'
  BY DEF ManagerOK, nodeVars
<1>3. /\ UNCHANGED k8sQueue => K8sQueueOK'
      /\ UNCHANGED k8sConsumer => K8sConsumerOK'
  BY DEF K8sQueueOK, K8sConsumerOK
<1>4. UNCHANGED cacheVars => RegistryOK'
  BY DEF RegistryOK, cacheVars
<1>5. UNCHANGED <<objects, criQueue>> => CRIQueueOK'
  BY DEF CRIQueueOK
<1>6. UNCHANGED <<objects, criConsumer>> => CRIConsumerOK'
  BY DEF CRIConsumerOK
<1> QED BY <1>1, <1>2, <1>3, <1>4, <1>5, <1>6

LEMMA CRIConsumerStep ==
  ASSUME EnrichInv, CRIConsumer
  PROVE  EnrichInv'
<1>1. UNCHANGED <<nodeVars, objects, poller, watcher, manager, cancelled, reaper, k8sQueue, k8sConsumer>>
  BY DEF CRIConsumer, TakeCRIEvent, HandleCRIEvent, cacheVars
<1>2. /\ PollerOK' /\ WatcherOK' /\ ManagerOK' /\ K8sQueueOK' /\ K8sConsumerOK'
      /\ UNCHANGED cacheVars => RegistryOK'
      /\ UNCHANGED <<objects, criQueue>> => CRIQueueOK'
      /\ UNCHANGED <<objects, criConsumer>> => CRIConsumerOK'
  BY <1>1, ConsumerFrame
<1>3. RegistryOK /\ CRIQueueOK /\ CRIConsumerOK /\ Len(objects) \in Nat
  BY ObjectsAre DEF EnrichInv
<1>4. CASE TakeCRIEvent
  <2>1. RegistryOK'
    BY <1>2, <1>4 DEF TakeCRIEvent
  <2>2. CASE criQueue # <<>> /\ criQueue' = Tail(criQueue)
             /\ criConsumer' = [at |-> Head(criQueue).type, obj |-> Head(criQueue).obj]
    <3>1. criQueue \in Seq(CRIEvent) /\ Len(criQueue) <= QueueCap
      BY <1>3 DEF CRIQueueOK
    <3>2. PICK q, e : q = Tail(criQueue) /\ e = Head(criQueue)
      OBVIOUS
    <3>3. /\ e \in CRIEvent /\ e = criQueue[1] /\ 1 \in 1..Len(criQueue)
          /\ q \in Seq(CRIEvent) /\ Len(q) <= QueueCap
          /\ \A i \in 1..Len(q) : i + 1 \in 1..Len(criQueue) /\ q[i] = criQueue[i + 1]
      BY <2>2, <3>1, <3>2, TakenIs
    <3>4. criQueue' = q
      BY <2>2, <3>2
    <3>5. \A i \in 1..Len(q) : q[i].obj <= Len(objects)
      BY <1>3, <3>3 DEF CRIQueueOK
    <3>6. CRIQueueOK'
      BY <1>1, <3>3, <3>4, <3>5 DEF CRIQueueOK
    <3>7. e.type \in {"start", "stop"} /\ e.obj \in 1..MaxObjects /\ e.obj <= Len(objects)
      BY <1>3, <3>3 DEF CRIEvent, CRIQueueOK
    <3>8. e.obj \in 1..Len(objects) /\ e.obj \in 0..MaxObjects
      BY <1>3, <3>7, EnrichAssumption
    <3>9. CRIConsumerOK'
      BY <1>1, <2>2, <3>2, <3>7, <3>8 DEF CRIConsumerOK
    <3> QED BY <1>2, <2>1, <3>6, <3>9 DEF EnrichInv
  <2>3. CASE criConsumer' = [criConsumer EXCEPT !.at = "done"] /\ UNCHANGED criQueue
    <3>1. CRIConsumerOK'
      BY <1>3, <2>3 DEF CRIConsumerOK
    <3> QED BY <1>1, <1>2, <2>1, <2>3, <3>1 DEF EnrichInv
  <2> QED BY <1>4, <2>2, <2>3 DEF TakeCRIEvent
<1>5. CASE HandleCRIEvent
  <2>1. criConsumer.obj \in 1..Len(objects) /\ objects[criConsumer.obj].id \in Containers
    BY <1>3, <1>5, ObjectsAre DEF HandleCRIEvent, CRIConsumerOK
  <2>2. RegistryOK'
    <3>1. CASE Register(criConsumer.obj)
      BY <1>1, <1>3, <2>1, <3>1, RegisterOK
    <3>2. CASE Unregister(objects[criConsumer.obj].id)
      BY <1>1, <1>3, <2>1, <3>2, UnregisterOK
    <3> QED BY <1>5, <3>1, <3>2 DEF HandleCRIEvent
  <2>3. CRIQueueOK'
    BY <1>1, <1>2, <1>5 DEF HandleCRIEvent
  <2>4. CRIConsumerOK'
    BY <1>5, EnrichAssumption DEF HandleCRIEvent, CRIConsumerOK, CRISelect
  <2> QED BY <1>2, <2>2, <2>3, <2>4 DEF EnrichInv
<1> QED BY <1>4, <1>5 DEF CRIConsumer

LEMMA K8sConsumerStep ==
  ASSUME EnrichInv, K8sConsumer
  PROVE  EnrichInv'
<1>1. /\ UNCHANGED <<nodeVars, poller, watcher, manager, cancelled, reaper, criQueue, criConsumer>>
      /\ UNCHANGED <<criCache, cgroupMap>>
  BY DEF K8sConsumer, TakeK8sEvent, HandlePodAdded, cacheVars
<1>2. /\ PollerOK' /\ WatcherOK' /\ ManagerOK'
      /\ UNCHANGED k8sQueue => K8sQueueOK'
      /\ UNCHANGED cacheVars => RegistryOK'
      /\ UNCHANGED <<objects, criQueue>> => CRIQueueOK'
      /\ UNCHANGED <<objects, criConsumer>> => CRIConsumerOK'
  BY <1>1, ConsumerFrame
<1>3. RegistryOK /\ CRIQueueOK /\ CRIConsumerOK /\ K8sQueueOK /\ K8sConsumerOK
  BY DEF EnrichInv
<1>4. CASE TakeK8sEvent
  <2>1. RegistryOK' /\ CRIQueueOK' /\ CRIConsumerOK'
    BY <1>1, <1>2, <1>4 DEF TakeK8sEvent, cacheVars
  <2>2. CASE k8sQueue # <<>> /\ k8sQueue' = Tail(k8sQueue)
             /\ k8sConsumer' = [at |-> "added", id |-> Head(k8sQueue)]
    <3>1. k8sQueue \in Seq(Containers) /\ Len(k8sQueue) <= QueueCap
      BY <1>3 DEF K8sQueueOK
    <3>2. /\ Head(k8sQueue) \in Containers /\ Tail(k8sQueue) \in Seq(Containers)
          /\ Len(Tail(k8sQueue)) <= QueueCap
      BY <2>2, <3>1, TakenIs
    <3>3. K8sQueueOK' /\ K8sConsumerOK'
      BY <2>2, <3>2 DEF K8sQueueOK, K8sConsumerOK
    <3> QED BY <1>2, <2>1, <3>3 DEF EnrichInv
  <2>3. CASE k8sConsumer' = [k8sConsumer EXCEPT !.at = "done"] /\ UNCHANGED k8sQueue
    <3>1. K8sConsumerOK'
      BY <1>3, <2>3 DEF K8sConsumerOK
    <3> QED BY <1>2, <2>1, <2>3, <3>1 DEF EnrichInv
  <2> QED BY <1>4, <2>2, <2>3 DEF TakeK8sEvent
<1>5. CASE HandlePodAdded
  <2>1. K8sConsumerOK' /\ K8sQueueOK'
    BY <1>2, <1>5 DEF HandlePodAdded, K8sConsumerOK, K8sSelect
  <2>2. CASE objects' = objects
    <3>1. RegistryOK' /\ CRIQueueOK' /\ CRIConsumerOK'
      BY <1>1, <1>2, <2>2 DEF cacheVars
    <3> QED BY <1>2, <2>1, <3>1 DEF EnrichInv
  <2>3. CASE objects' # objects
    <3>1. PICK c, i : c = k8sConsumer.id /\ i = criCache[c]
      OBVIOUS
    <3>2. c \in Containers /\ i # 0 /\ objects' = [objects EXCEPT ![i].pod = TRUE]
      BY <1>3, <1>5, <2>3, <3>1 DEF HandlePodAdded, K8sConsumerOK
    <3>3. PICK n : n = Len(objects)
      OBVIOUS
    <3>4. n \in Nat /\ i \in 1..n /\ \A j \in 1..n : objects[j] \in ContainerInfo
      BY <1>3, <3>1, <3>2, <3>3, ObjectsAre DEF RegistryOK
    <3>5. PICK x : x = [objects[i] EXCEPT !.pod = TRUE]
      OBVIOUS
    <3>6. x \in ContainerInfo /\ x.id = objects[i].id
      BY <3>4, <3>5 DEF ContainerInfo
    <3>7. objects' = [objects EXCEPT ![i] = x]
      BY <3>2, <3>5
    <3>8. objects \in [1..n -> ContainerInfo] /\ objects \in Seq(ContainerInfo)
      BY <1>3, <3>3, LenProperties DEF RegistryOK
    <3>9. objects' \in Seq(ContainerInfo) /\ Len(objects') = n
      BY <3>3, <3>4, <3>6, <3>7, <3>8, ExceptSeq
    <3>10. \A j \in 1..n : objects'[j].id = objects[j].id
      BY <3>6, <3>7, <3>8
    <3>11. \A d \in Containers : criCache[d] # 0 => criCache[d] \in 1..n
      BY <1>3, <3>3, <3>4 DEF RegistryOK
    <3>12. RegistryOK'
      BY <1>1, <1>3, <3>3, <3>9, <3>10, <3>11 DEF RegistryOK
    <3>13. CRIQueueOK' /\ CRIConsumerOK'
      BY <1>1, <1>3, <3>3, <3>4, <3>9, MoreObjects
    <3> QED BY <1>2, <2>1, <3>12, <3>13 DEF EnrichInv
  <2> QED BY <2>2, <2>3
<1> QED BY <1>4, <1>5 DEF K8sConsumer

LEMMA ReaperStep ==
  ASSUME EnrichInv, Reaper
  PROVE  EnrichInv'
<1>1. /\ UNCHANGED <<nodeVars, poller, watcher, manager, cancelled, criQueue, k8sQueue, criConsumer>>
      /\ UNCHANGED <<k8sConsumer, objects, criCache>>
  BY DEF Reaper, ReapPIDs, PruneCgroupMap, cacheVars
<1>2. /\ PollerOK' /\ WatcherOK' /\ K8sQueueOK' /\ K8sConsumerOK' /\ CRIQueueOK' /\ CRIConsumerOK'
      /\ UNCHANGED cacheVars => RegistryOK'
  BY <1>1, ConsumerFrame
<1>3. ManagerOK'
  BY <1>1 DEF EnrichInv, ManagerOK, Reaper, ReapPIDs, PruneCgroupMap, nodeVars
<1>4. RegistryOK'
  <2>1. CASE ReapPIDs
    BY <1>2, <2>1 DEF ReapPIDs
  <2>2. CASE PruneCgroupMap
    BY <1>1, <2>2 DEF PruneCgroupMap, EnrichInv, RegistryOK
  <2> QED BY <2>1, <2>2 DEF Reaper
<1> QED BY <1>2, <1>3, <1>4 DEF EnrichInv

LEMMA EnrichStepInv == EnrichInv /\ [EnrichNext]_enrichVars => EnrichInv'
<1> SUFFICES ASSUME EnrichInv, [EnrichNext]_enrichVars PROVE EnrichInv'
  OBVIOUS
<1>1. CASE UNCHANGED enrichVars
  <2>1. UNCHANGED <<objects, criCache, cgroupMap, criQueue, k8sQueue, goroutines, nodeVars>>
        /\ UNCHANGED <<manager, cancelled>>
    BY <1>1 DEF enrichVars, cacheVars
  <2>2. PollerOK' /\ WatcherOK' /\ CRIConsumerOK' /\ K8sConsumerOK' /\ ManagerOK'
    BY <2>1 DEF goroutines, nodeVars, EnrichInv, PollerOK, WatcherOK, CRIConsumerOK, K8sConsumerOK,
                ManagerOK
  <2> QED BY <2>1, <2>2, GoroutineInv
<1> QED BY <1>1, ManagerStep, PollerStep, WatcherStep, CRIConsumerStep, K8sConsumerStep, ReaperStep
        DEF EnrichNext

LEMMA EnrichInvHolds == EnrichSpec => []EnrichInv
BY EnrichInitInv, EnrichStepInv, PTL DEF EnrichSpec

LEMMA EnrichInvTyped == EnrichInv => EnrichTypeOK
BY DEF EnrichInv, EnrichTypeOK, RegistryOK, CRIQueueOK, K8sQueueOK, PollerOK, WatcherOK,
       CRIConsumerOK, K8sConsumerOK, ManagerOK

(* The registry, the queues and what each goroutine has in hand have their *)
(* types; and what is registered for a container is an object of that      *)
(* container, whoever registered it last (RegisterContainer).              *)
THEOREM EnrichmentTyped == EnrichSpec => []EnrichTypeOK
BY EnrichInvTyped, EnrichInvHolds, PTL

(* Events that are queued, or taken by the consumer and not yet applied,   *)
(* refer to objects that are there, and what the poller and the pod        *)
(* consumer have in hand, to containers: not to "nowhere".                 *)
EventsRefer ==
  /\ \A i \in 1..Len(criQueue) : criQueue[i].obj \in 1..Len(objects)
  /\ criConsumer.at \in {"start", "stop"} => criConsumer.obj \in 1..Len(objects)
  /\ k8sConsumer.at = "added" => k8sConsumer.id \in Containers
  /\ poller.picked # Nowhere => poller.seen[poller.picked].id \in Containers

(* However late an event is applied, the object it carries is there: the   *)
(* consumer never dereferences what the poller did not make                *)
(* (consumeCRIEvents, consumeK8sEvents).                                   *)
THEOREM EventsKeepTheirObjects == EnrichSpec => []EventsRefer
<1>1. ASSUME EnrichInv PROVE EventsRefer
  <2>1. \A i \in 1..Len(criQueue) : criQueue[i].obj \in 1..Len(objects)
    <3> SUFFICES ASSUME NEW i \in 1..Len(criQueue) PROVE criQueue[i].obj \in 1..Len(objects)
      OBVIOUS
    <3>1. criQueue[i] \in CRIEvent
      BY <1>1, ElementOfSeq DEF EnrichInv, CRIQueueOK
    <3>2. criQueue[i].obj \in Nat \ {0} /\ Len(objects) \in Nat
      BY <1>1, <3>1, LenProperties, EnrichAssumption DEF CRIEvent, EnrichInv, RegistryOK
    <3> QED BY <1>1, <3>2 DEF EnrichInv, CRIQueueOK
  <2> QED BY <1>1, <2>1 DEF EnrichInv, CRIConsumerOK, K8sConsumerOK, PollerOK, Place, EventsRefer
<1> QED BY <1>1, EnrichInvHolds, PTL

-----------------------------------------------------------------------------
(* The two maps of the registry.                                           *)

(* Among the objects o one of container c was found in cgroup g; in        *)
(* another one.  CgroupsLeadBack of objects and maps that are given.       *)
Seen(o, c, g) == \E i \in 1..Len(o) : o[i].id = c /\ o[i].cgroup = g
Elsewhere(o, c, g) == \E i \in 1..Len(o) : o[i].id = c /\ o[i].cgroup # g
Leads(o, cache, map, c) ==
  cache[c] # 0 =>
    \/ o[cache[c]].cgroup = NoCgroup
    \/ map[o[cache[c]].cgroup] = c
    \/ \E d \in Containers \ {c} : Seen(o, d, o[cache[c]].cgroup)
LeftBehind(o, cache, map, g) ==
  map[g] # Nowhere => Seen(o, map[g], g) /\ (cache[map[g]] = 0 => Elsewhere(o, map[g], g))
LeadBack(o, cache, map) ==
  (\A c \in Containers : Leads(o, cache, map, c)) /\ (\A g \in Cgroups : LeftBehind(o, cache, map, g))

LEMMA LeadBackIs == CgroupsLeadBack <=> LeadBack(objects, criCache, cgroupMap)
<1>1. \A c, g : /\ SeenIn(c, g) # {} <=> Seen(objects, c, g)
                /\ SeenElsewhere(c, g) # {} <=> Elsewhere(objects, c, g)
  BY DEF SeenIn, SeenElsewhere, Seen, Elsewhere
<1> QED BY <1>1 DEF CgroupsLeadBack, LeadBack, Leads, LeftBehind

(* The objects only grow in number, and keep their container and cgroup.   *)
Kept(o, p) ==
  /\ Len(o) \in Nat /\ Len(p) \in Nat /\ Len(o) <= Len(p)
  /\ \A i \in 1..Len(o) : p[i].id = o[i].id /\ p[i].cgroup = o[i].cgroup
  /\ \A i \in 1..Len(p) : p[i].id \in Containers /\ p[i].cgroup \in Cgroups \cup {NoCgroup}

LEMMA StillSeen ==
  ASSUME NEW o, NEW p, Kept(o, p), NEW c, NEW g
  PROVE  (Seen(o, c, g) => Seen(p, c, g)) /\ (Elsewhere(o, c, g) => Elsewhere(p, c, g))
<1>1. \A i \in 1..Len(o) : i \in 1..Len(p)
  BY DEF Kept
<1> QED BY <1>1 DEF Kept, Seen, Elsewhere

(* A container whose entry, and what its cgroup leads to, stay as they are *)
(* is found as before.                                                     *)
LEMMA LeadsStill ==
  ASSUME NEW o, NEW p, Kept(o, p), NEW cache \in [Containers -> 0..Len(o)], NEW map, NEW c \in Containers,
         Leads(o, cache, map, c), NEW cache2, NEW map2, NEW i, i = cache[c], cache2[c] = i,
         map[o[i].cgroup] = c => map2[o[i].cgroup] = c
  PROVE  Leads(p, cache2, map2, c)
<1>1. CASE i = 0
  BY <1>1 DEF Leads
<1>2. CASE i # 0
  <2>1. i \in 1..Len(o) /\ p[i].cgroup = o[i].cgroup
    BY <1>2 DEF Kept
  <2>2. \A d : Seen(o, d, o[i].cgroup) => Seen(p, d, o[i].cgroup)
    BY StillSeen
  <2> QED BY <1>2, <2>1, <2>2 DEF Leads
<1> QED BY <1>1, <1>2

(* What RegisterContainer does to the maps; a new object may come with it. *)
Registers(p, k, cache, map, cache2, map2) ==
  /\ cache2 = [cache EXCEPT ![p[k].id] = k]
  /\ map2 = [g \in Cgroups |-> IF g = p[k].cgroup THEN p[k].id ELSE map[g]]
MapsTyped(o, cache, map) ==
  /\ cache \in [Containers -> 0..Len(o)]
  /\ map \in [Cgroups -> Containers \cup {Nowhere}]

LEMMA RegisterLeads ==
  ASSUME NEW o, NEW p, Kept(o, p), NEW cache, NEW map, MapsTyped(o, cache, map), LeadBack(o, cache, map),
         NEW k \in 1..Len(p), NEW cache2, NEW map2, Registers(p, k, cache, map, cache2, map2)
  PROVE  LeadBack(p, cache2, map2)
<1> PICK e, h : e = p[k].id /\ h = p[k].cgroup
  OBVIOUS
<1> /\ cache \in [Containers -> 0..Len(o)] /\ map \in [Cgroups -> Containers \cup {Nowhere}]
    /\ cache2 = [cache EXCEPT ![e] = k]
    /\ map2 = [g \in Cgroups |-> IF g = h THEN e ELSE map[g]]
  BY DEF Registers, MapsTyped
<1>1. e \in Containers /\ h \in Cgroups \cup {NoCgroup} /\ k # 0 /\ Seen(p, e, h)
  BY DEF Seen, Kept
<1>2. \A c \in Containers : cache2[c] = IF c = e THEN k ELSE cache[c]
  OBVIOUS
<1>3. \A g \in Cgroups : map2[g] = IF g = h THEN e ELSE map[g]
  OBVIOUS
<1>4. ASSUME NEW c \in Containers PROVE Leads(p, cache2, map2, c)
  <2>1. CASE c = e
    <3>1. cache2[c] = k
      BY <1>2, <2>1
    <3>2. h = NoCgroup \/ map2[h] = c
      BY <1>1, <1>3, <2>1
    <3> QED BY <3>1, <3>2 DEF Leads
  <2>2. CASE c # e /\ cache[c] = 0
    BY <1>2, <2>2 DEF Leads
  <2>3. CASE c # e /\ cache[c] # 0
    <3>1. PICK i : i = cache[c]
      OBVIOUS
    <3>2. i \in 1..Len(o) /\ p[i].cgroup = o[i].cgroup /\ o[i].cgroup \in Cgroups \cup {NoCgroup}
      <4>1. i \in 1..Len(o) /\ i \in 1..Len(p)
        BY <2>3, <3>1 DEF Kept
      <4> QED BY <4>1 DEF Kept
    <3>3. cache2[c] = i
      BY <1>2, <2>3, <3>1
    <3>4. CASE o[i].cgroup = h
      BY <1>1, <2>3, <3>2, <3>3, <3>4 DEF Leads
    <3>5. CASE o[i].cgroup = NoCgroup
      BY <3>2, <3>3, <3>5 DEF Leads
    <3>6. CASE o[i].cgroup # h /\ o[i].cgroup \in Cgroups
      <4>1. map2[o[i].cgroup] = map[o[i].cgroup]
        BY <1>3, <3>6
      <4>2. map[o[i].cgroup] = c \/ o[i].cgroup = NoCgroup
              \/ \E d \in Containers \ {c} : Seen(o, d, o[i].cgroup)
        BY <2>3, <3>1 DEF LeadBack, Leads
      <4>3. \A d : Seen(o, d, o[i].cgroup) => Seen(p, d, o[i].cgroup)
        BY StillSeen
      <4> QED BY <3>2, <3>3, <4>1, <4>2, <4>3 DEF Leads
    <3> QED BY <3>2, <3>4, <3>5, <3>6
  <2> QED BY <2>1, <2>2, <2>3
<1>5. ASSUME NEW g \in Cgroups PROVE LeftBehind(p, cache2, map2, g)
  <2>1. CASE g = h
    <3>1. map2[g] = e /\ cache2[e] = k
      BY <1>1, <1>2, <1>3, <2>1
    <3> QED BY <1>1, <2>1, <3>1 DEF LeftBehind
  <2>2. CASE g # h /\ map[g] # Nowhere
    <3>1. PICK c : c = map[g]
      OBVIOUS
    <3>2. c \in Containers /\ map2[g] = c /\ (cache2[c] = 0 => cache[c] = 0)
      BY <1>1, <1>2, <1>3, <2>2, <3>1
    <3>3. LeftBehind(o, cache, map, g)
      BY DEF LeadBack
    <3>4. Seen(o, c, g) /\ (cache[c] = 0 => Elsewhere(o, c, g))
      BY <2>2, <3>1, <3>3 DEF LeftBehind
    <3>5. Seen(p, c, g) /\ (cache[c] = 0 => Elsewhere(p, c, g))
      BY <3>4, StillSeen
    <3> QED BY <3>2, <3>5 DEF LeftBehind
  <2>3. CASE g # h /\ map[g] = Nowhere
    BY <1>3, <2>3 DEF LeftBehind
  <2> QED BY <2>1, <2>2, <2>3
<1> QED BY <1>4, <1>5 DEF LeadBack

(* What UnregisterContainer does to them: e is the container's key.        *)
LEMMA UnregisterLeads ==
  ASSUME NEW o, Kept(o, o), NEW cache \in [Containers -> 0..Len(o)],
         NEW map \in [Cgroups -> Containers \cup {Nowhere}], LeadBack(o, cache, map),
         NEW e \in Containers, cache[e] # 0 => o[cache[e]].id = e,
         NEW cache2, cache2 = [cache EXCEPT ![e] = 0],
         NEW map2, map2 = [g \in Cgroups |->
                             IF cache[e] # 0 /\ g = o[cache[e]].cgroup THEN Nowhere ELSE map[g]]
  PROVE  LeadBack(o, cache2, map2)
<1>1. \A c \in Containers : cache2[c] = IF c = e THEN 0 ELSE cache[c]
  OBVIOUS
<1>2. PICK i, h : i = cache[e] /\ h = o[i].cgroup
  OBVIOUS
<1>3. \A g \in Cgroups : map2[g] = IF i # 0 /\ g = h THEN Nowhere ELSE map[g]
  BY <1>2
<1>4. i # 0 => i \in 1..Len(o) /\ o[i].id = e /\ Seen(o, e, h)
  BY <1>2 DEF Seen, Kept
<1>5. ASSUME NEW c \in Containers PROVE Leads(o, cache2, map2, c)
  <2>1. CASE c = e \/ cache[c] = 0
    BY <1>1, <2>1 DEF Leads
  <2>2. CASE c # e /\ cache[c] # 0
    <3>1. PICK j : j = cache[c]
      OBVIOUS
    <3>2. j \in 1..Len(o) /\ o[j].cgroup \in Cgroups \cup {NoCgroup} /\ cache2[c] = j
      BY <1>1, <2>2, <3>1 DEF Kept
    <3>3. CASE o[j].cgroup = NoCgroup
      BY <3>2, <3>3 DEF Leads
    <3>4. CASE o[j].cgroup = h /\ i # 0
      BY <1>4, <2>2, <3>2, <3>4 DEF Leads
    <3>5. CASE o[j].cgroup \in Cgroups /\ ~(o[j].cgroup = h /\ i # 0)
      <4>1. map2[o[j].cgroup] = map[o[j].cgroup]
        BY <1>3, <3>5
      <4>2. map[o[j].cgroup] = c \/ o[j].cgroup = NoCgroup
              \/ \E d \in Containers \ {c} : Seen(o, d, o[j].cgroup)
        BY <2>2, <3>1 DEF LeadBack, Leads
      <4> QED BY <3>2, <4>1, <4>2 DEF Leads
    <3> QED BY <3>2, <3>3, <3>4, <3>5
  <2> QED BY <2>1, <2>2
<1>6. ASSUME NEW g \in Cgroups PROVE LeftBehind(o, cache2, map2, g)
  <2>1. CASE map2[g] = Nowhere
    BY <2>1 DEF LeftBehind
  <2>2. CASE map2[g] # Nowhere
    <3>1. PICK c : c = map[g]
      OBVIOUS
    <3>2. map2[g] = c /\ c \in Containers /\ ~(i # 0 /\ g = h)
      BY <1>3, <2>2, <3>1
    <3>3. LeftBehind(o, cache, map, g)
      BY DEF LeadBack
    <3>4. Seen(o, c, g) /\ (cache[c] = 0 => Elsewhere(o, c, g))
      BY <2>2, <3>1, <3>2, <3>3 DEF LeftBehind
    <3>5. CASE c # e \/ i = 0
      BY <1>1, <1>2, <3>2, <3>4, <3>5 DEF LeftBehind
    <3>6. CASE c = e /\ i # 0
      <4>1. \E k \in 1..Len(o) : o[k].id = c
        BY <3>4 DEF Seen
      <4>2. i \in 1..Len(o) /\ o[i].id = c /\ o[i].cgroup # g
        BY <1>2, <1>4, <3>2, <3>6
      <4> QED BY <3>2, <3>4, <4>2 DEF LeftBehind, Elsewhere
    <3> QED BY <3>5, <3>6
  <2> QED BY <2>1, <2>2
<1> QED BY <1>5, <1>6 DEF LeadBack

LEMMA LeadBackStep ==
  ASSUME EnrichInv, EnrichInv', CgroupsLeadBack, [EnrichNext]_enrichVars
  PROVE  CgroupsLeadBack'
<1>1. /\ LeadBack(objects, criCache, cgroupMap)
      /\ criCache \in [Containers -> 0..Len(objects)]
      /\ cgroupMap \in [Cgroups -> Containers \cup {Nowhere}]
      /\ \A c \in Containers : criCache[c] # 0 => objects[criCache[c]].id = c
      /\ MapsTyped(objects, criCache, cgroupMap)
  BY LeadBackIs DEF EnrichInv, RegistryOK, MapsTyped
<1>2. SUFFICES LeadBack(objects', criCache', cgroupMap')
  <2>1. \A c, g : /\ SeenIn(c, g)' # {} <=> Seen(objects', c, g)
                  /\ SeenElsewhere(c, g)' # {} <=> Elsewhere(objects', c, g)
    BY DEF SeenIn, SeenElsewhere, Seen, Elsewhere
  <2> QED BY <2>1 DEF CgroupsLeadBack, LeadBack, Leads, LeftBehind
<1>3. /\ objects \in Seq(ContainerInfo) /\ objects' \in Seq(ContainerInfo)
      /\ Len(objects) \in Nat /\ Len(objects') \in Nat
      /\ \A i \in 1..Len(objects') : /\ objects'[i].id \in Containers
                                     /\ objects'[i].cgroup \in Cgroups \cup {NoCgroup}
  <2>1. /\ objects \in Seq(ContainerInfo) /\ objects' \in Seq(ContainerInfo)
        /\ Len(objects) \in Nat /\ Len(objects') \in Nat
    BY LenProperties DEF EnrichInv, RegistryOK
  <2>2. \A i \in 1..Len(objects') : objects'[i] \in ContainerInfo
    BY <2>1, ElementOfSeq
  <2> QED BY <2>1, <2>2 DEF ContainerInfo
<1>4. UNCHANGED objects => Kept(objects, objects) /\ Kept(objects, objects')
  BY <1>3 DEF Kept
<1>5. CASE UNCHANGED cacheVars
  BY <1>1, <1>5 DEF cacheVars
<1>6. CASE RegisterNew
  <2>1. PICK info : info = [id |-> poller.seen[poller.picked].id,
                            cgroup |-> poller.seen[poller.picked].cgroup, pod |-> FALSE]
    OBVIOUS
  <2>2. info \in ContainerInfo
    BY <1>6, <2>1 DEF RegisterNew, EnrichInv, PollerOK, Place, ContainerInfo
  <2>3. PICK k : k = Len(objects) + 1
    OBVIOUS
  <2>4. objects' = Append(objects, info) /\ Register(k)
    BY <1>6, <2>1, <2>3 DEF RegisterNew
  <2>5. Len(objects') = k /\ k \in 1..Len(objects') /\ \A i \in 1..Len(objects) : objects'[i] = objects[i]
    BY <1>3, <2>2, <2>3, <2>4, AppendProperties
  <2>6. Kept(objects, objects')
    BY <1>3, <2>3, <2>5 DEF Kept
  <2>7. k \in 1..Len(objects')
    BY <2>5
  <2>8. Registers(objects', k, criCache, cgroupMap, criCache', cgroupMap')
    BY <2>4 DEF Register, Registers
  <2> QED BY <1>1, <2>6, <2>7, <2>8, RegisterLeads
<1>7. ASSUME NEW c \in Containers, UNCHANGED objects, Unregister(c)
      PROVE  LeadBack(objects', criCache', cgroupMap')
  BY <1>1, <1>4, <1>7, UnregisterLeads DEF Unregister
<1>8. ASSUME NEW c \in Containers, UnregisterGone(c) PROVE LeadBack(objects', criCache', cgroupMap')
  BY <1>7, <1>8 DEF UnregisterGone
<1>9. CASE HandleCRIEvent
  <2>1. UNCHANGED objects /\ criConsumer.obj \in 1..Len(objects')
    BY <1>9 DEF HandleCRIEvent, EnrichInv, CRIConsumerOK
  <2>2. CASE Register(criConsumer.obj)
    <3>1. Kept(objects, objects')
      BY <1>4, <2>1
    <3>2. PICK k : k = criConsumer.obj
      OBVIOUS
    <3>3. Registers(objects', k, criCache, cgroupMap, criCache', cgroupMap')
      BY <2>2, <3>2 DEF Register, Registers
    <3> QED BY <1>1, <2>1, <3>1, <3>2, <3>3, RegisterLeads
  <2>3. CASE Unregister(objects[criConsumer.obj].id)
    BY <1>3, <1>7, <2>1, <2>3
  <2> QED BY <1>9, <2>2, <2>3 DEF HandleCRIEvent
<1>10. CASE HandlePodAdded
  <2>1. Kept(objects, objects')
    <3>1. CASE UNCHANGED objects
      BY <1>4, <3>1
    <3>2. CASE ~ UNCHANGED objects
      <4>1. PICK i : i = criCache[k8sConsumer.id]
        OBVIOUS
      <4>2. i # 0 /\ objects' = [objects EXCEPT ![i].pod = TRUE]
        BY <1>10, <3>2, <4>1 DEF HandlePodAdded
      <4>3. i \in 1..Len(objects)
        BY <1>1, <1>3, <1>10, <4>1, <4>2 DEF HandlePodAdded, EnrichInv, K8sConsumerOK
      <4>4. PICK x : x = [objects[i] EXCEPT !.pod = TRUE]
        OBVIOUS
      <4>5. objects[i] \in ContainerInfo
        BY <1>3, <4>3, ElementOfSeq
      <4>6. x \in ContainerInfo /\ x.id = objects[i].id /\ x.cgroup = objects[i].cgroup
        BY <4>4, <4>5 DEF ContainerInfo
      <4>7. objects' = [objects EXCEPT ![i] = x]
        BY <4>2, <4>4
      <4>8. objects \in [1..Len(objects) -> ContainerInfo]
        BY <1>3, LenProperties
      <4>9. Len(objects') = Len(objects)
        BY <1>3, <4>3, <4>6, <4>7, ExceptSeq
      <4>10. \A j \in 1..Len(objects) : objects'[j] = IF j = i THEN x ELSE objects[j]
        BY <4>7, <4>8
      <4> QED BY <1>3, <4>6, <4>9, <4>10 DEF Kept
    <3> QED BY <3>1, <3>2
  <2>2. criCache' = criCache /\ cgroupMap' = cgroupMap
    BY <1>10 DEF HandlePodAdded
  <2>3. ASSUME NEW c \in Containers PROVE Leads(objects', criCache', cgroupMap', c)
    BY <1>1, <2>1, <2>2, LeadsStill DEF LeadBack
  <2>4. ASSUME NEW g \in Cgroups PROVE LeftBehind(objects', criCache', cgroupMap', g)
    <3>1. LeftBehind(objects, criCache, cgroupMap, g)
      BY <1>1 DEF LeadBack
    <3> QED BY <2>1, <2>2, <3>1, StillSeen DEF LeftBehind
  <2> QED BY <2>3, <2>4 DEF LeadBack
<1>11. CASE PruneCgroupMap
  <2>1. UNCHANGED <<objects, criCache>>
    BY <1>11 DEF PruneCgroupMap
  <2>2. \A g \in Cgroups : cgroupMap'[g] =
          IF cgroupMap[g] # Nowhere /\ criCache[cgroupMap[g]] = 0 THEN Nowhere ELSE cgroupMap[g]
    BY <1>11 DEF PruneCgroupMap
  <2>3. ASSUME NEW c \in Containers PROVE Leads(objects', criCache', cgroupMap', c)
    <3>1. Leads(objects, criCache, cgroupMap, c)
      BY <1>1 DEF LeadBack
    <3>2. CASE criCache[c] = 0
      BY <2>1, <3>2 DEF Leads
    <3>3. CASE criCache[c] # 0
      <4>1. PICK i : i = criCache[c]
        OBVIOUS
      <4>2. i \in 1..Len(objects)
        BY <1>1, <1>3, <3>3, <4>1
      <4>3. objects[i].cgroup \in Cgroups \cup {NoCgroup}
        BY <1>3, <2>1, <4>2
      <4>4. CASE objects[i].cgroup = NoCgroup
        BY <2>1, <4>1, <4>4 DEF Leads
      <4>5. CASE objects[i].cgroup \in Cgroups
        <5>1. cgroupMap[objects[i].cgroup] = c => cgroupMap'[objects[i].cgroup] = c
          BY <2>2, <3>3, <4>5
        <5> QED BY <1>1, <1>4, <2>1, <3>1, <4>1, <5>1, LeadsStill
      <4> QED BY <4>3, <4>4, <4>5
    <3> QED BY <3>2, <3>3
  <2>4. ASSUME NEW g \in Cgroups PROVE LeftBehind(objects', criCache', cgroupMap', g)
    <3>1. LeftBehind(objects, criCache, cgroupMap, g)
      BY <1>1 DEF LeadBack
    <3>2. CASE cgroupMap'[g] = Nowhere
      BY <3>2 DEF LeftBehind
    <3>3. CASE cgroupMap'[g] # Nowhere
      <4>1. cgroupMap'[g] = cgroupMap[g]
        BY <2>2, <3>3
      <4> QED BY <2>1, <3>1, <4>1 DEF LeftBehind
    <3> QED BY <3>2, <3>3
  <2> QED BY <2>3, <2>4 DEF LeadBack
<1>12. CASE StartEnrichment \/ StopBegins \/ StopEnds \/ Cancel \/ Watcher \/ TakeCRIEvent
            \/ TakeK8sEvent \/ ReapPIDs \/ UNCHANGED enrichVars
  BY <1>5, <1>12 DEF StartEnrichment, StopBegins, StopEnds, Cancel, Watcher, WatchScan, WatchEnds,
     ReportPod, TakeCRIEvent, TakeK8sEvent, ReapPIDs, enrichVars
<1>13. ASSUME NEW p \in Processes, Move(p) \/ PickNew(p) PROVE LeadBack(objects', criCache', cgroupMap')
  BY <1>5, <1>13 DEF Move, PickNew
<1>14. CASE ListContainers \/ LookForGone \/ ScanEnds
  BY <1>5, <1>14 DEF ListContainers, LookForGone, ScanEnds
<1> QED
  BY <1>6, <1>8, <1>9, <1>10, <1>11, <1>12, <1>13, <1>14
     DEF EnrichNext, Poller, CRIConsumer, K8sConsumer, Reaper

(* Whoever registers and unregisters, the poller or the consumer with what *)
(* the poller told it long ago: of the containers that are registered only *)
(* one that shares its cgroup with another may be missed by it; and what   *)
(* the reaper finds to drop (PruneCgroupMap) belongs to containers that    *)
(* were seen in more than one cgroup, for each of which UnregisterContainer*)
(* deletes no more than the key that came last.                            *)
THEOREM CgroupsDoLeadBack == EnrichSpec => []CgroupsLeadBack
<1>1. EnrichInit => CgroupsLeadBack
  BY DEF EnrichInit, CgroupsLeadBack
<1>2. EnrichInv /\ EnrichInv' /\ CgroupsLeadBack /\ [EnrichNext]_enrichVars => CgroupsLeadBack'
  BY LeadBackStep
<1> QED BY <1>1, <1>2, EnrichInvHolds, PTL DEF EnrichSpec

-----------------------------------------------------------------------------
(* Stop.                                                                   *)

(* Stop has returned only if the context was cancelled: it waits for the   *)
(* watcher, which looks at nothing else.  With the agent's context, which  *)
(* nobody cancels, Stop never returns (Manager.Stop, k8s.go).              *)
StopNeedsContext ==
  /\ watcher.at = "done" => cancelled
  /\ manager = "stopped" => cancelled
  /\ cancelled => Cancels

LEMMA ContextStep ==
  ASSUME StopNeedsContext, WatcherOK, [EnrichNext]_enrichVars
  PROVE  StopNeedsContext'
<1>1. CASE StartEnrichment \/ StopBegins \/ StopEnds \/ Cancel
  BY <1>1 DEF StartEnrichment, StopBegins, StopEnds, Cancel, goroutines, StopNeedsContext
<1>2. CASE Watcher
  BY <1>2 DEF Watcher, WatchScan, WatchEnds, ReportPod, StopNeedsContext, WatcherOK
<1>3. CASE UNCHANGED <<watcher, manager, cancelled>>
  BY <1>3 DEF StopNeedsContext
<1>4. CASE Poller
  BY <1>3, <1>4, PollerFrame
<1>5. CASE CRIConsumer \/ K8sConsumer \/ Reaper \/ UNCHANGED enrichVars
  BY <1>3, <1>5 DEF CRIConsumer, TakeCRIEvent, HandleCRIEvent, K8sConsumer, TakeK8sEvent,
     HandlePodAdded, Reaper, ReapPIDs, PruneCgroupMap, enrichVars, goroutines
<1>6. ASSUME NEW p \in Processes, Move(p) PROVE StopNeedsContext'
  BY <1>3, <1>6 DEF Move, goroutines
<1> QED BY <1>1, <1>2, <1>4, <1>5, <1>6 DEF EnrichNext

(* What StopCompletes finds in one instance is so in all: no Stop returns  *)
(* without a context that is cancelled.                                    *)
THEOREM StopOnlyByContext == EnrichSpec => []StopNeedsContext
<1>1. EnrichInit => StopNeedsContext
  BY DEF EnrichInit, StopNeedsContext
<1>2. EnrichInv /\ StopNeedsContext /\ [EnrichNext]_enrichVars => StopNeedsContext'
  BY ContextStep DEF EnrichInv
<1> QED BY <1>1, <1>2, EnrichInvHolds, PTL DEF EnrichSpec

(* While Stop waits the registry does not change; and a goroutine it waits *)
(* for that has work in hand for which it needs the mutex keeps it, so     *)
(* that neither it nor Stop ever ends, even with the context cancelled.    *)
MutexTraps ==
  [][manager = "stopping" =>
       /\ UNCHANGED cacheVars
       /\ criConsumer.at \in {"start", "stop"} => manager' = "stopping" /\ UNCHANGED criConsumer
       /\ k8sConsumer.at = "added" => manager' = "stopping" /\ UNCHANGED k8sConsumer
       /\ reaper = "prune" => manager' = "stopping" /\ UNCHANGED reaper]_enrichVars

LEMMA MutexStep ==
  ASSUME [EnrichNext]_enrichVars, manager = "stopping"
  PROVE  /\ UNCHANGED cacheVars
         /\ criConsumer.at \in {"start", "stop"} => manager' = "stopping" /\ UNCHANGED criConsumer
         /\ k8sConsumer.at = "added" => manager' = "stopping" /\ UNCHANGED k8sConsumer
         /\ reaper = "prune" => manager' = "stopping" /\ UNCHANGED reaper
<1>1. ~RegisterNew /\ ~HandleCRIEvent /\ ~HandlePodAdded /\ ~PruneCgroupMap
      /\ \A c \in Containers : ~UnregisterGone(c)
  BY DEF RegisterNew, HandleCRIEvent, HandlePodAdded, PruneCgroupMap, UnregisterGone, MutexFree
<1>2. CASE UNCHANGED <<cacheVars, manager, criConsumer, k8sConsumer, reaper>>
  BY <1>2
<1>3. CASE StopEnds
  BY <1>3 DEF StopEnds
<1>4. CASE StartEnrichment \/ StopBegins \/ Cancel
  BY <1>2, <1>4 DEF StartEnrichment, StopBegins, Cancel, goroutines
<1>5. CASE ListContainers \/ LookForGone \/ ScanEnds \/ Watcher \/ UNCHANGED enrichVars
  BY <1>2, <1>5 DEF ListContainers, LookForGone, ScanEnds, Watcher, WatchScan, WatchEnds, ReportPod,
     enrichVars, goroutines
<1>6. ASSUME NEW p \in Processes, Move(p) \/ PickNew(p)
      PROVE  UNCHANGED <<cacheVars, manager, criConsumer, k8sConsumer, reaper>>
  BY <1>6 DEF Move, PickNew, goroutines
<1>7. CASE TakeCRIEvent
  BY <1>7 DEF TakeCRIEvent
<1>8. CASE TakeK8sEvent
  BY <1>8 DEF TakeK8sEvent
<1>9. CASE ReapPIDs
  BY <1>9 DEF ReapPIDs
<1> QED
  BY <1>1, <1>2, <1>3, <1>4, <1>5, <1>6, <1>7, <1>8, <1>9
     DEF EnrichNext, Poller, CRIConsumer, K8sConsumer, Reaper

(* The exceptions of EnrichmentStops are final: a consumer or the reaper   *)
(* that needs the mutex when Stop has it ends up waiting for Stop, and     *)
(* Stop for it (Manager.Stop, RegisterContainer, HandlePodAdded).          *)
THEOREM StopTrapsConsumers == EnrichSpec => MutexTraps
<1>1. [EnrichNext]_enrichVars =>
        [manager = "stopping" =>
           /\ UNCHANGED cacheVars
           /\ criConsumer.at \in {"start", "stop"} => manager' = "stopping" /\ UNCHANGED criConsumer
           /\ k8sConsumer.at = "added" => manager' = "stopping" /\ UNCHANGED k8sConsumer
           /\ reaper = "prune" => manager' = "stopping" /\ UNCHANGED reaper]_enrichVars
  BY MutexStep
<1> QED BY <1>1, PTL DEF EnrichSpec, MutexTraps
=============================================================================
