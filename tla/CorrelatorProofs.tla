-------------------------- MODULE CorrelatorProofs --------------------------
(***************************************************************************)
(* Proofs about the correlator: correlations fire on evidence of their own *)
(* window, once for a window, and the table stays within its limit, for    *)
(* any rules, spans, signals and sources and any length of the table.      *)
(***************************************************************************)
EXTENDS Correlator, FiniteSetTheorems, TLAPS

(* x and w are of one rule and group, and of one window.                   *)
Kin(x, w) == x.rule = w.rule /\ x.group = w.group
Twin(x, w) == Kin(x, w) /\ x.start = w.start

Gone(x) == \E w \in lost : Twin(x, w)

TableInv == IsFiniteSet(windows) /\ TableBounded

(* A call visits only rules that list its signal.                          *)
CallInv == \A c \in call : \A r \in c.rest : c.name \in SignalsOf[r]

(* What a window holds, arrived since it opened, and belongs to it.        *)
WindowInv ==
  \A w \in windows :
    /\ w.start <= now
    /\ \A s \in w.seen : /\ s.name \in SignalsOf[w.rule]
                         /\ GroupOf[w.rule][s.source] = w.group
                         /\ w.start <= s.at /\ s.at <= now

(* The window of a result is over, lost, or in the table and has fired;    *)
(* and a window in the table opened after the one of a result was over,    *)
(* unless that was lost, or is the one.                                    *)
ResultInv ==
  \A x \in results :
    /\ x.start <= now
    /\ \/ x.start + Span[x.rule] < now
       \/ Gone(x)
       \/ \E w \in windows : Twin(x, w) /\ w.fired
RefireInv ==
  \A x \in results, w \in windows : Kin(x, w) =>
    /\ x.start <= w.start
    /\ x.start + Span[x.rule] < w.start \/ Gone(x) \/ (x.start = w.start /\ w.fired)

CorrelatorInv ==
  /\ CorrelatorTypeOK /\ TableInv /\ CallInv /\ WindowInv
  /\ ResultInv /\ RefireInv
  /\ FiredOnEvidence /\ NoRefire /\ CompleteMeansFired

-----------------------------------------------------------------------------

(* At the start there is nothing.                                          *)
LEMMA CorrelatorInitInv == CorrelatorInit => CorrelatorInv
<1> SUFFICES ASSUME CorrelatorInit PROVE CorrelatorInv
  OBVIOUS
<1> USE CorrelatorAssumption DEF CorrelatorInit
<1>1. IsFiniteSet({}) /\ Cardinality({}) = 0
  BY FS_EmptySet
<1>2. CorrelatorTypeOK
  BY <1>1 DEF CorrelatorTypeOK
<1>3. TableInv
  BY <1>1 DEF TableInv, TableBounded
<1> QED
  BY <1>2, <1>3 DEF CorrelatorInv, CallInv, WindowInv, ResultInv, RefireInv,
                    FiredOnEvidence, NoRefire, CompleteMeansFired

(* Windows leave the table only when they have expired or are noted as     *)
(* lost, and nothing fires.                                                *)
LEMMA WindowsLeave ==
  ASSUME CorrelatorInv, CorrelatorTypeOK', CallInv', now' = now, results' = results,
         windows' \subseteq windows, lost \subseteq lost',
         \A w \in windows : w \in windows' \/ IsExpired(w) \/ w \in lost'
  PROVE  CorrelatorInv'
<1> USE CorrelatorAssumption DEF CorrelatorInv
<1>1. TableInv'
  <2>1. IsFiniteSet(windows') /\ Cardinality(windows') <= Cardinality(windows)
    BY FS_Subset DEF TableInv
  <2>2. Cardinality(windows') \in Nat /\ Cardinality(windows) \in Nat
    BY <2>1, FS_CardinalityType DEF TableInv
  <2> QED
    BY <2>1, <2>2 DEF TableInv, TableBounded
<1>2. WindowInv'
  BY DEF WindowInv
<1>3. \A x : Gone(x) => Gone(x)'
  BY DEF Gone, Twin, Kin
<1>4. ResultInv'
  <2> SUFFICES ASSUME NEW x \in results
               PROVE  /\ x.start <= now
                      /\ \/ x.start + Span[x.rule] < now
                         \/ Gone(x)'
                         \/ \E w \in windows' : Twin(x, w) /\ w.fired
    BY DEF ResultInv, Twin, Kin
  <2>1. x.start <= now
    BY DEF ResultInv
  <2>2. ASSUME NEW w \in windows, Twin(x, w), w.fired
        PROVE  \/ x.start + Span[x.rule] < now
               \/ Gone(x)'
               \/ \E v \in windows' : Twin(x, v) /\ v.fired
    <3>1. CASE w \in windows'
      BY <2>2, <3>1
    <3>2. CASE w \in lost'
      BY <2>2, <3>2 DEF Gone, Twin, Kin
    <3>3. CASE IsExpired(w)
      <4>1. x.start \in Nat /\ Span[x.rule] \in Nat /\ now \in Nat
        BY DEF CorrelatorTypeOK, Result
      <4> QED
        BY <2>2, <3>3, <4>1 DEF IsExpired, Twin, Kin
    <3> QED
      BY <3>1, <3>2, <3>3
  <2> QED
    BY <1>3, <2>1, <2>2 DEF ResultInv
<1>5. RefireInv'
  BY <1>3 DEF RefireInv, Kin
<1>6. FiredOnEvidence'
  BY DEF FiredOnEvidence, Matches, NamesIn
<1>7. NoRefire'
  BY DEF NoRefire
<1>8. CompleteMeansFired'
  BY DEF CompleteMeansFired, Matches, NamesIn
<1> QED
  BY <1>1, <1>2, <1>4, <1>5, <1>6, <1>7, <1>8

(* The clock moves on.                                                     *)
LEMMA TickKeeps == CorrelatorInv /\ Tick => CorrelatorInv'
<1> SUFFICES ASSUME CorrelatorInv, Tick PROVE CorrelatorInv'
  OBVIOUS
<1> USE CorrelatorAssumption DEF CorrelatorInv, Tick
<1>1. now \in Nat /\ now' = now + 1
  BY DEF CorrelatorTypeOK
<1>2. CorrelatorTypeOK'
  BY DEF CorrelatorTypeOK
<1>3. TableInv' /\ CallInv'
  BY DEF TableInv, TableBounded, CallInv
<1>4. WindowInv'
  <2>1. \A w \in windows : w.start \in Nat /\ \A s \in w.seen : s.at \in Nat
    BY DEF CorrelatorTypeOK, WindowType, Seen
  <2> QED
    BY <1>1, <2>1 DEF WindowInv
<1>5. \A x : Gone(x)' <=> Gone(x)
  BY DEF Gone, Twin, Kin
<1>6. ResultInv'
  <2>1. \A x \in results : x.start \in Nat /\ Span[x.rule] \in Nat
    BY DEF CorrelatorTypeOK, Result
  <2> QED
    BY <1>1, <1>5, <2>1 DEF ResultInv, Twin, Kin
<1>7. RefireInv'
  BY <1>5 DEF RefireInv, Kin
<1>8. FiredOnEvidence' /\ NoRefire' /\ CompleteMeansFired'
  BY DEF FiredOnEvidence, NoRefire, CompleteMeansFired, Matches, NamesIn
<1> QED
  BY <1>2, <1>3, <1>4, <1>6, <1>7, <1>8

-----------------------------------------------------------------------------

(* One visit of a rule, r, in a call c, that finds or opens the window     *)
(* found and may evict others.                                             *)
LEMMA VisitKeeps ==
  ASSUME CorrelatorInv, NEW c \in call, NEW r \in c.rest, Visit(c, r)
  PROVE  CorrelatorInv'
<1> USE CorrelatorAssumption DEF CorrelatorInv
<1> DEFINE g == GroupOf[r][c.source]
           s == [name |-> c.name, source |-> c.source, at |-> now]
           open == {w \in At(r, g) : ~IsExpired(w)}
<1>1. PICK evicted \in (IF open = {} THEN Evictable ELSE {{}}),
           found \in (IF open = {} THEN {Fresh(r, g)} ELSE open) :
        LET w == With(found, s)
            fires == ~w.fired /\ Matches(r, w.seen)
        IN  /\ windows' = (windows \ (evicted \cup At(r, g)))
                            \cup {[w EXCEPT !.fired = @ \/ fires]}
            /\ lost' = lost \cup {v \in evicted : ~IsExpired(v)}
            /\ results' = IF fires
                          THEN results \cup {[rule |-> r, group |-> g, start |-> w.start,
                                              at |-> now, seen |-> w.seen]}
                          ELSE results
            /\ call' = IF fires THEN {} ELSE {[c EXCEPT !.rest = @ \ {r}]}
            /\ UNCHANGED <<now, active, calls>>
  BY DEF Visit
<1> DEFINE seen == {x \in found.seen : x.name # s.name} \cup {s}
           fires == ~found.fired /\ Matches(r, seen)
           new == [rule |-> r, group |-> g, start |-> found.start, seen |-> seen,
                   fired |-> found.fired \/ fires]
           fresh == [rule |-> r, group |-> g, start |-> found.start, at |-> now, seen |-> seen]
<1>2. c \in Call /\ r \in Rules /\ c.name \in SignalsOf[r] /\ c.name \in Names
      /\ c.source \in Sources /\ g \in Groups /\ now \in Nat /\ s \in Seen
  BY DEF CorrelatorTypeOK, Call, CallInv, Groups, Seen
<1>3. /\ found \in WindowType /\ found.rule = r /\ found.group = g
      /\ found.start <= now /\ ~IsExpired(found)
      /\ \A x \in found.seen : /\ x.name \in SignalsOf[r] /\ GroupOf[r][x.source] = g
                               /\ found.start <= x.at /\ x.at <= now
      /\ found.fired <=> (found.seen # {} /\ Matches(r, found.seen))
  <2>1. CASE open = {}
    <3>1. found = [rule |-> r, group |-> g, start |-> now, seen |-> {}, fired |-> FALSE]
      BY <2>1 DEF Fresh
    <3>2. Span[r] \in Nat
      BY <1>2
    <3> QED
      BY <1>2, <3>1, <3>2 DEF WindowType, IsExpired
  <2>2. CASE open # {}
    <3>1. found \in windows /\ found.rule = r /\ found.group = g /\ ~IsExpired(found)
      BY <2>2 DEF At
    <3>2. found.fired => found.seen # {}
      <4>1. SignalsOf[r] # {}
        BY <1>2
      <4> QED
        BY <3>1, <4>1 DEF CompleteMeansFired, Matches, NamesIn
    <3> QED
      BY <1>2, <3>1, <3>2 DEF CorrelatorTypeOK, WindowInv, CompleteMeansFired
  <2> QED
    BY <2>1, <2>2
<1>4. With(found, s) = [found EXCEPT !.seen = seen]
  BY <1>3 DEF With, WindowType
<1>5. /\ With(found, s).fired = found.fired /\ With(found, s).seen = seen
      /\ With(found, s).start = found.start
      /\ [With(found, s) EXCEPT !.fired = @ \/ fires] = new
  <2>1. found.fired \in BOOLEAN /\ fires \in BOOLEAN
    BY <1>3 DEF WindowType
  <2> HIDE DEF seen, fires, g
  <2> QED
    BY <1>3, <1>4, <2>1 DEF WindowType
<1>6. /\ windows' = (windows \ (evicted \cup At(r, g))) \cup {new}
      /\ lost' = lost \cup {v \in evicted : ~IsExpired(v)}
      /\ results' = IF fires THEN results \cup {fresh} ELSE results
      /\ call' = IF fires THEN {} ELSE {[c EXCEPT !.rest = @ \ {r}]}
      /\ UNCHANGED <<now, active, calls>>
  BY <1>1, <1>5
<1>7. evicted \subseteq windows /\ (open # {} => evicted = {})
  BY DEF Evictable
<1>8. \A w \in windows : w \in At(r, g) <=> (w.rule = r /\ w.group = g)
  BY DEF At
<1>9. /\ seen \subseteq Seen /\ s \in seen
      /\ \A x \in seen : /\ x.name \in SignalsOf[r] /\ GroupOf[r][x.source] = g
                         /\ found.start <= x.at /\ x.at <= now
  BY <1>2, <1>3 DEF WindowType, Seen
<1>10. new \in WindowType /\ fresh \in Result
  BY <1>2, <1>3, <1>9 DEF WindowType, Result
<1> HIDE DEF g, s, open, seen, fires, new, fresh
<1>11. new.rule = r /\ new.group = g /\ new.start = found.start /\ new.seen = seen
       /\ (new.fired <=> found.fired \/ fires)
       /\ fresh.rule = r /\ fresh.group = g /\ fresh.start = found.start
       /\ fresh.at = now /\ fresh.seen = seen
  BY DEF new, fresh
<1>12. Matches(r, found.seen) => Matches(r, seen)
  <2>1. NamesIn(found.seen) \subseteq NamesIn(seen)
    BY DEF NamesIn, seen
  <2> QED
    BY <1>9, <2>1 DEF Matches
<1>13. new.fired <=> Matches(r, seen)
  BY <1>3, <1>11, <1>12 DEF fires
<1>14. \A w \in windows' : w = new \/ (w \in windows /\ ~(w.rule = r /\ w.group = g))
  BY <1>6, <1>8
<1>15. CorrelatorTypeOK'
  <2>1. windows' \subseteq WindowType /\ lost' \subseteq WindowType /\ results' \subseteq Result
    BY <1>6, <1>7, <1>10 DEF CorrelatorTypeOK
  <2>2. [c EXCEPT !.rest = @ \ {r}] \in Call
    BY <1>2 DEF Call
  <2>3. call' \subseteq Call /\ Cardinality(call') <= 1
    <3>1. CASE fires
      BY <1>6, <3>1, FS_EmptySet
    <3>2. CASE ~fires
      <4>1. call' = {[c EXCEPT !.rest = @ \ {r}]}
        BY <1>6, <3>2
      <4>2. Cardinality({[c EXCEPT !.rest = @ \ {r}]}) = 1
        BY FS_Singleton
      <4> QED
        BY <2>2, <4>1, <4>2
    <3> QED
      BY <3>1, <3>2
  <2> QED
    BY <1>6, <2>1, <2>3 DEF CorrelatorTypeOK
<1>16. TableInv'
  <2> DEFINE rest == windows \ (evicted \cup At(r, g))
  <2>1. IsFiniteSet(windows) /\ Cardinality(windows) \in Nat
        /\ Cardinality(windows) <= MaxWindows
    BY FS_CardinalityType DEF TableInv, TableBounded
  <2>2. IsFiniteSet(rest) /\ Cardinality(rest) \in Nat
    BY <2>1, FS_Subset, FS_CardinalityType
  <2>3. IsFiniteSet(windows') /\ Cardinality(windows') <= Cardinality(rest) + 1
    <3>1. windows' = rest \cup {new}
      BY <1>6
    <3> HIDE DEF rest
    <3>2. /\ IsFiniteSet(rest \cup {new})
          /\ Cardinality(rest \cup {new}) =
               IF new \in rest THEN Cardinality(rest) ELSE Cardinality(rest) + 1
      BY <2>2, FS_AddElement
    <3> QED
      BY <2>2, <3>1, <3>2
  <2>4. Cardinality(rest) < MaxWindows
    <3>1. ASSUME NEW w \in windows, w \notin rest
          PROVE  Cardinality(rest) < Cardinality(windows)
      <4>1. rest \subseteq windows /\ rest # windows
        BY <3>1
      <4> QED
        BY <2>1, <2>2, <4>1, FS_Subset
    <3>2. CASE open # {}
      <4>1. PICK w \in windows : w \in At(r, g)
        BY <3>2 DEF open, At
      <4>2. w \notin rest
        BY <4>1
      <4>3. Cardinality(rest) < Cardinality(windows)
        BY <3>1, <4>2
      <4> QED
        BY <2>1, <2>2, <4>3
    <3>3. CASE open = {} /\ Cardinality(windows) >= MaxWindows
      <4>1. PICK w \in windows : evicted = {w}
        BY <3>3 DEF Evictable
      <4>2. w \notin rest
        BY <4>1
      <4>3. Cardinality(rest) < Cardinality(windows)
        BY <3>1, <4>2
      <4> QED
        BY <2>1, <2>2, <4>3
    <3>4. CASE ~(Cardinality(windows) >= MaxWindows)
      <4>1. Cardinality(rest) <= Cardinality(windows)
        BY <2>1, FS_Subset
      <4> QED
        BY <2>1, <2>2, <3>4, <4>1
    <3> QED
      BY <3>2, <3>3, <3>4
  <2>5. Cardinality(windows') <= MaxWindows
    BY <2>2, <2>3, <2>4, FS_CardinalityType
  <2>6. \A v, w \in windows' : v.rule = w.rule /\ v.group = w.group => v = w
    BY <1>11, <1>14 DEF TableInv, TableBounded
  <2> QED
    BY <2>3, <2>5, <2>6 DEF TableInv, TableBounded
<1>17. CallInv'
  <2>1. \A q \in c.rest \ {r} : c.name \in SignalsOf[q]
    BY DEF CallInv
  <2>2. CASE fires
    BY <1>6, <2>2 DEF CallInv
  <2>3. CASE ~fires
    <3>1. call' = {[c EXCEPT !.rest = @ \ {r}]}
      BY <1>6, <2>3
    <3>2. [c EXCEPT !.rest = @ \ {r}].name = c.name
          /\ [c EXCEPT !.rest = @ \ {r}].rest = c.rest \ {r}
      BY <1>2 DEF Call
    <3> QED
      BY <2>1, <3>1, <3>2 DEF CallInv
  <2> QED
    BY <2>2, <2>3
<1>18. WindowInv'
  BY <1>3, <1>6, <1>9, <1>11, <1>14 DEF WindowInv
<1>19. /\ \A x : Gone(x) => Gone(x)'
       /\ \A x, w : w \in evicted /\ ~IsExpired(w) /\ Twin(x, w) => Gone(x)'
  BY <1>6 DEF Gone, Twin, Kin
<1>20. \A x \in results' : x \in results \/ (fires /\ x = fresh)
  BY <1>6
<1>21. \A x \in results : x.start \in Nat /\ Span[x.rule] \in Nat
  BY DEF CorrelatorTypeOK, Result
<1>22. ASSUME NEW x \in results, x.rule = r, x.group = g
       PROVE  /\ x.start <= found.start
              /\ \/ x.start + Span[x.rule] < found.start
                 \/ Gone(x)'
                 \/ x.start = found.start /\ found.fired
  <2>1. CASE open # {}
    <3>1. found \in windows /\ Kin(x, found)
      BY <1>3, <1>22, <2>1 DEF open, At, Kin
    <3> QED
      BY <1>19, <3>1 DEF RefireInv
  <2>2. CASE open = {}
    <3>1. found.start = now
      BY <2>2 DEF Fresh
    <3>2. ASSUME NEW w \in windows, Twin(x, w) PROVE x.start + Span[x.rule] < now
      <4>1. IsExpired(w)
        BY <1>8, <1>22, <2>2, <3>2 DEF open, Twin, Kin
      <4> QED
        BY <1>2, <1>21, <3>2, <4>1 DEF IsExpired, Twin, Kin
    <3> QED
      BY <1>19, <3>1, <3>2 DEF ResultInv
  <2> QED
    BY <2>1, <2>2
<1>23. ResultInv'
  <2>1. ASSUME NEW x \in results
        PROVE  \/ x.start + Span[x.rule] < now
               \/ Gone(x)'
               \/ \E v \in windows' : Twin(x, v) /\ v.fired
    <3>1. CASE x.rule = r /\ x.group = g
      <4>1. CASE x.start = found.start /\ found.fired
        BY <1>6, <1>11, <3>1, <4>1 DEF Twin, Kin
      <4>2. CASE x.start + Span[x.rule] < found.start
        BY <1>2, <1>3, <1>21, <4>2 DEF WindowType
      <4> QED
        BY <1>22, <3>1, <4>1, <4>2
    <3>2. CASE ~(x.rule = r /\ x.group = g)
      <4>1. ASSUME NEW w \in windows, Twin(x, w), w.fired
            PROVE  \/ x.start + Span[x.rule] < now
                   \/ Gone(x)'
                   \/ \E v \in windows' : Twin(x, v) /\ v.fired
        <5>1. CASE w \in windows'
          BY <4>1, <5>1
        <5>2. CASE w \notin windows'
          <6>1. w \in evicted
            BY <1>6, <1>8, <3>2, <4>1, <5>2 DEF Twin, Kin
          <6>2. CASE IsExpired(w)
            BY <1>2, <1>21, <4>1, <6>2 DEF IsExpired, Twin, Kin
          <6> QED
            BY <1>19, <4>1, <6>1, <6>2
        <5> QED
          BY <5>1, <5>2
      <4> QED
        BY <1>19, <4>1 DEF ResultInv
    <3> QED
      BY <3>1, <3>2
  <2>2. fires => fresh.start <= now /\ Twin(fresh, new) /\ new.fired /\ new \in windows'
    BY <1>3, <1>6, <1>11 DEF Twin, Kin
  <2> SUFFICES ASSUME NEW x \in results'
               PROVE  /\ x.start <= now
                      /\ \/ x.start + Span[x.rule] < now
                         \/ Gone(x)'
                         \/ \E v \in windows' : Twin(x, v) /\ v.fired
    BY <1>6 DEF ResultInv, Twin, Kin
  <2> QED
    BY <1>20, <2>1, <2>2 DEF ResultInv
<1>24. RefireInv'
  <2> SUFFICES ASSUME NEW x \in results', NEW w \in windows', Kin(x, w)
               PROVE  /\ x.start <= w.start
                      /\ x.start + Span[x.rule] < w.start \/ Gone(x)'
                         \/ (x.start = w.start /\ w.fired)
    BY DEF RefireInv, Kin
  <2>1. CASE w = new /\ x \in results
    BY <1>11, <1>22, <2>1 DEF Kin
  <2>2. CASE w = new /\ fires /\ x = fresh
    BY <1>3, <1>11, <2>2 DEF WindowType
  <2>3. CASE w # new
    <3>1. w \in windows /\ x # fresh
      BY <1>11, <1>14, <2>3 DEF Kin
    <3>2. x \in results
      BY <1>20, <3>1
    <3> QED
      BY <1>19, <3>1, <3>2 DEF RefireInv
  <2> QED
    BY <1>20, <2>1, <2>2, <2>3
<1>25. FiredOnEvidence'
  <2>1. fires => Matches(r, seen) /\ (Logic[r] = "all" => NamesIn(seen) = SignalsOf[r])
    BY <1>9 DEF fires, Matches, NamesIn
  <2>2. \A y \in seen : now - y.at \in 0..Span[r]
    <3>1. Span[r] \in Nat /\ found.start \in Nat /\ ~(now - found.start > Span[r])
      BY <1>2, <1>3 DEF WindowType, IsExpired
    <3>2. \A y \in seen : y.at \in Nat /\ found.start <= y.at /\ y.at <= now
      BY <1>9 DEF Seen
    <3> QED
      BY <1>2, <3>1, <3>2
  <2> SUFFICES ASSUME NEW x \in results'
               PROVE  /\ Matches(x.rule, x.seen)
                      /\ Logic[x.rule] = "all" => NamesIn(x.seen) = SignalsOf[x.rule]
                      /\ \A y \in x.seen : /\ GroupOf[x.rule][y.source] = x.group
                                           /\ x.at - y.at \in 0 .. Span[x.rule]
    BY DEF FiredOnEvidence, Matches, NamesIn
  <2>3. CASE x \in results
    BY <2>3 DEF FiredOnEvidence
  <2>4. CASE fires /\ x = fresh
    BY <1>9, <1>11, <2>1, <2>2, <2>4
  <2> QED
    BY <1>20, <2>3, <2>4
<1>26. NoRefire'
  <2> SUFFICES ASSUME NEW x \in results', NEW y \in results', x # y, Kin(x, y),
                      x.start <= y.start
               PROVE  x.start + Span[x.rule] < y.start \/ Gone(x)'
    BY DEF NoRefire, Gone, Twin, Kin
  <2>1. CASE x \in results /\ y \in results
    BY <1>19, <2>1 DEF NoRefire, Gone, Twin, Kin
  <2>2. CASE x \in results /\ fires /\ y = fresh
    <3>1. ~found.fired /\ x.rule = r /\ x.group = g /\ y.start = found.start
      BY <1>11, <2>2 DEF fires, Kin
    <3> QED
      BY <1>22, <2>2, <3>1
  <2>3. CASE y \in results /\ fires /\ x = fresh
    <3>1. ~found.fired /\ y.rule = r /\ y.group = g /\ x.start = found.start
      BY <1>11, <2>3 DEF fires, Kin
    <3>2. y.start <= found.start
          /\ (y.start + Span[y.rule] < found.start \/ Gone(y)')
      BY <1>22, <2>3, <3>1
    <3>3. y.start = found.start /\ found.start \in Nat /\ Span[y.rule] \in Nat
      BY <1>3, <1>21, <2>3, <3>1, <3>2 DEF WindowType
    <3>4. Gone(y)'
      BY <3>2, <3>3
    <3> QED
      BY <3>1, <3>3, <3>4 DEF Gone, Twin, Kin
  <2> QED
    BY <1>20, <2>1, <2>2, <2>3
<1>27. CompleteMeansFired'
  <2> SUFFICES ASSUME NEW w \in windows'
               PROVE  /\ w.fired <=> Matches(w.rule, w.seen)
                      /\ w.fired => \E x \in results' : x.rule = w.rule /\ x.group = w.group
                                                          /\ x.start = w.start
    BY DEF CompleteMeansFired, Matches, NamesIn
  <2>1. results \subseteq results'
    BY <1>6
  <2>2. CASE w = new
    <3>1. CASE fires
      BY <1>6, <1>11, <1>13, <2>2, <3>1
    <3>2. CASE found.fired
      <4>1. found \in windows
        <5>1. open # {}
          BY <3>2 DEF Fresh
        <5> QED
          BY <5>1 DEF open, At
      <4>2. \E x \in results : x.rule = r /\ x.group = g /\ x.start = found.start
        BY <1>3, <3>2, <4>1 DEF CompleteMeansFired
      <4> QED
        BY <1>11, <1>13, <2>1, <2>2, <4>2
    <3> QED
      BY <1>11, <1>13, <2>2, <3>1, <3>2
  <2>3. CASE w # new
    BY <1>14, <2>1, <2>3 DEF CompleteMeansFired
  <2> QED
    BY <2>2, <2>3
<1> QED
  BY <1>15, <1>16, <1>17, <1>18, <1>23, <1>24, <1>25, <1>26, <1>27

-----------------------------------------------------------------------------

(* Every step of the correlator keeps its invariant.                       *)
LEMMA CorrelatorNextInv == CorrelatorInv /\ [CorrelatorNext]_correlatorVars => CorrelatorInv'
<1> SUFFICES ASSUME CorrelatorInv, [CorrelatorNext]_correlatorVars PROVE CorrelatorInv'
  OBVIOUS
<1> USE CorrelatorAssumption
<1>1. ASSUME NEW n \in Names, NEW s \in Sources, ProcessSignal(n, s) PROVE CorrelatorInv'
  <2> DEFINE c == [name |-> n, source |-> s, rest |-> {r \in active : n \in SignalsOf[r]}]
  <2>1. c \in Call /\ \A r \in c.rest : c.name \in SignalsOf[r]
    BY DEF Call, CorrelatorInv, CorrelatorTypeOK
  <2>2. call' = {c}
    BY <1>1 DEF ProcessSignal
  <2> HIDE DEF c
  <2>3. call' \subseteq Call /\ Cardinality(call') <= 1 /\ CallInv'
    <3>1. Cardinality({c}) = 1
      BY FS_Singleton
    <3> QED
      BY <2>1, <2>2, <3>1 DEF CallInv
  <2>4. calls' \in 0..MaxSignals
    BY <1>1 DEF ProcessSignal, CorrelatorInv, CorrelatorTypeOK
  <2>5. CorrelatorTypeOK'
    BY <1>1, <2>3, <2>4 DEF ProcessSignal, CorrelatorInv, CorrelatorTypeOK
  <2> QED
    BY <1>1, <2>3, <2>5, WindowsLeave DEF ProcessSignal
<1>2. ASSUME NEW c \in call, NEW r \in c.rest, Visit(c, r) PROVE CorrelatorInv'
  BY <1>2, VisitKeeps
<1>3. CASE Return
  <2>1. CorrelatorTypeOK' /\ CallInv'
    BY <1>3, FS_EmptySet DEF Return, CorrelatorInv, CorrelatorTypeOK, CallInv
  <2> QED
    BY <1>3, <2>1, WindowsLeave DEF Return
<1>4. ASSUME NEW r \in Rules, AddRule(r) PROVE CorrelatorInv'
  <2>1. CorrelatorTypeOK' /\ CallInv'
    BY <1>4 DEF AddRule, CorrelatorInv, CorrelatorTypeOK, CallInv
  <2> QED
    BY <1>4, <2>1, WindowsLeave DEF AddRule
<1>5. ASSUME NEW r \in Rules, RemoveRule(r) PROVE CorrelatorInv'
  <2>1. CorrelatorTypeOK' /\ CallInv'
    BY <1>5 DEF RemoveRule, CorrelatorInv, CorrelatorTypeOK, CallInv
  <2> QED
    BY <1>5, <2>1, WindowsLeave DEF RemoveRule
<1>6. CASE Purge
  <2>1. CorrelatorTypeOK' /\ CallInv'
    BY <1>6 DEF Purge, CorrelatorInv, CorrelatorTypeOK, CallInv
  <2> QED
    BY <1>6, <2>1, WindowsLeave DEF Purge
<1>7. CASE Tick
  BY <1>7, TickKeeps
<1>8. CASE UNCHANGED correlatorVars
  <2>1. CorrelatorTypeOK' /\ CallInv'
    BY <1>8 DEF correlatorVars, CorrelatorInv, CorrelatorTypeOK, CallInv
  <2> QED
    BY <1>8, <2>1, WindowsLeave DEF correlatorVars
<1> QED
  BY <1>1, <1>2, <1>3, <1>4, <1>5, <1>6, <1>7, <1>8 DEF CorrelatorNext

(* The invariant of the correlator holds in every state.                   *)
THEOREM CorrelatorInvHolds == CorrelatorSpec => []CorrelatorInv
<1>1. CorrelatorInit => CorrelatorInv
  BY CorrelatorInitInv
<1>2. CorrelatorInv /\ [CorrelatorNext]_correlatorVars => CorrelatorInv'
  BY CorrelatorNextInv
<1> QED
  BY <1>1, <1>2, PTL DEF CorrelatorSpec

(* The correlator is well typed and its table bounded, although a window   *)
(* is evicted only when one is about to be opened, and the eldest, which   *)
(* may be the one that is replaced anyway (evictEldestWindow).             *)
THEOREM TableStaysBounded == CorrelatorSpec => [](CorrelatorTypeOK /\ TableBounded)
<1>1. CorrelatorInv => CorrelatorTypeOK /\ TableBounded
  BY DEF CorrelatorInv, TableInv
<1> QED
  BY <1>1, CorrelatorInvHolds, PTL

(* A correlation fires only on evidence of its own group and window.       *)
THEOREM EvidenceHolds == CorrelatorSpec => []FiredOnEvidence
<1>1. CorrelatorInv => FiredOnEvidence
  BY DEF CorrelatorInv
<1> QED
  BY <1>1, CorrelatorInvHolds, PTL

(* A rule fires again for a group only after the window of its last        *)
(* correlation is over, or was lost.                                       *)
THEOREM FiresOnceAWindow == CorrelatorSpec => []NoRefire
<1>1. CorrelatorInv => NoRefire
  BY DEF CorrelatorInv
<1> QED
  BY <1>1, CorrelatorInvHolds, PTL

(* No window that is complete stays silent.                                *)
THEOREM CompleteFires == CorrelatorSpec => []CompleteMeansFired
<1>1. CorrelatorInv => CompleteMeansFired
  BY DEF CorrelatorInv
<1> QED
  BY <1>1, CorrelatorInvHolds, PTL
-----------------------------------------------------------------------------
(* What a call misses.  SignalReachesAllRules fails, for a rule that fires *)
(* ends the call; this is all that can keep a signal from a rule as long   *)
(* as the table has room.                                                  *)

Listing(c) == {r \in active : c.name \in SignalsOf[r]}

(* The window of rule r for the group of the call's source has its signal. *)
Has(r, c) ==
  \E w \in windows : /\ w.rule = r /\ w.group = GroupOf[r][c.source]
                     /\ \E s \in w.seen : s.name = c.name /\ s.source = c.source

NearlyFull == Cardinality(windows) >= MaxWindows - 1

(* The rules that a call has visited without firing hold its signal, but   *)
(* for a table that is full, whose eldest window may be one of theirs.     *)
VisitedInv == \A c \in call : \A r \in Listing(c) : r \in c.rest \/ Has(r, c) \/ NearlyFull

(* To put an element in the place of at most one makes no set smaller.     *)
LEMMA ReplaceKeepsSize ==
  ASSUME NEW S, IsFiniteSet(S), NEW A, \A a, b \in A : a = b, A \subseteq S,
         NEW x, x \notin S \ A
  PROVE  Cardinality((S \ A) \cup {x}) >= Cardinality(S)
<1>1. Cardinality(S) \in Nat
  BY FS_CardinalityType
<1>2. CASE A = {}
  <2>1. (S \ A) \cup {x} = S \cup {x} /\ x \notin S
    BY <1>2
  <2>2. Cardinality(S \cup {x}) = Cardinality(S) + 1
    BY <2>1, FS_AddElement
  <2> QED
    BY <1>1, <2>1, <2>2
<1>3. CASE A # {}
  <2>1. PICK a \in A : A = {a}
    BY <1>3
  <2>2. IsFiniteSet(S \ {a}) /\ Cardinality(S \ {a}) = Cardinality(S) - 1
    BY <2>1, FS_RemoveElement
  <2>3. x \notin S \ {a} /\ (S \ A) \cup {x} = (S \ {a}) \cup {x}
    BY <2>1
  <2>4. Cardinality((S \ A) \cup {x}) = Cardinality(S \ {a}) + 1
    <3> DEFINE rest == S \ {a}
    <3>1. IsFiniteSet(rest) /\ x \notin rest
      BY <2>2, <2>3
    <3> HIDE DEF rest
    <3>2. Cardinality(rest \cup {x}) = Cardinality(rest) + 1
      BY <3>1, FS_AddElement
    <3> QED
      BY <2>3, <3>2 DEF rest
  <2> QED
    BY <1>1, <2>2, <2>4
<1> QED
  BY <1>2, <1>3

(* A visit that does not fire puts the signal in the window of its rule;   *)
(* the window of another rule goes only when the table is full, and the    *)
(* table is nearly full then as long as the call lasts.                    *)
LEMMA VisitReaches ==
  ASSUME CorrelatorInv, VisitedInv, NEW c \in call, NEW r \in c.rest, Visit(c, r)
  PROVE  VisitedInv'
<1> USE CorrelatorAssumption
<1> DEFINE g == GroupOf[r][c.source]
           s == [name |-> c.name, source |-> c.source, at |-> now]
           open == {w \in At(r, g) : ~IsExpired(w)}
<1>1. PICK evicted \in (IF open = {} THEN Evictable ELSE {{}}),
           found \in (IF open = {} THEN {Fresh(r, g)} ELSE open) :
        LET w == With(found, s)
            fires == ~w.fired /\ Matches(r, w.seen)
        IN  /\ windows' = (windows \ (evicted \cup At(r, g)))
                            \cup {[w EXCEPT !.fired = @ \/ fires]}
            /\ call' = IF fires THEN {} ELSE {[c EXCEPT !.rest = @ \ {r}]}
            /\ active' = active
  BY DEF Visit
<1>2. c \in Call /\ r \in Rules
  BY DEF CorrelatorInv, CorrelatorTypeOK, Call
<1>3. DOMAIN found = {"rule", "group", "start", "seen", "fired"}
      /\ found = [q \in DOMAIN found |-> found[q]]
      /\ found.rule = r /\ found.group = g
  BY DEF Fresh, At, CorrelatorInv, CorrelatorTypeOK, WindowType
<1>4. PICK new : /\ windows' = (windows \ (evicted \cup At(r, g))) \cup {new}
                 /\ new.rule = r /\ new.group = g /\ s \in new.seen
  <2> DEFINE w == With(found, s)
             set == [w EXCEPT !.fired = @ \/ (~w.fired /\ Matches(r, w.seen))]
  <2>1. w.rule = r /\ w.group = g /\ s \in w.seen
        /\ DOMAIN w = {"rule", "group", "start", "seen", "fired"}
    BY <1>3 DEF With
  <2>2. set.rule = w.rule /\ set.group = w.group /\ set.seen = w.seen
    BY <2>1
  <2>3. windows' = (windows \ (evicted \cup At(r, g))) \cup {set}
    BY <1>1
  <2> HIDE DEF w, set
  <2> QED
    BY <2>1, <2>2, <2>3
<1>5. /\ call' = {} \/ call' = {[c EXCEPT !.rest = @ \ {r}]}
      /\ active' = active
  BY <1>1
<1>6. evicted = {} \/ (Cardinality(windows) >= MaxWindows /\ \E w \in windows : evicted = {w})
  BY <1>1 DEF Evictable
<1>7. evicted # {} \/ NearlyFull => NearlyFull'
  <2> DEFINE left == windows \ evicted
             mine == At(r, g) \ evicted
  <2>1. IsFiniteSet(windows) /\ IsFiniteSet(windows')
    BY VisitKeeps DEF CorrelatorInv, TableInv
  <2>2. Cardinality(windows) \in Nat /\ Cardinality(windows') \in Nat
    BY <2>1, FS_CardinalityType
  <2>3. IsFiniteSet(left)
        /\ Cardinality(left) = IF evicted = {} THEN Cardinality(windows)
                                               ELSE Cardinality(windows) - 1
    <3>1. CASE evicted = {}
      BY <2>1, <3>1, \A S : S \ {} = S
    <3>2. ASSUME NEW w \in windows, evicted = {w}
          PROVE  IsFiniteSet(windows \ {w}) /\ Cardinality(windows \ {w}) = Cardinality(windows) - 1
      BY <2>1, FS_RemoveElement
    <3> QED
      BY <1>6, <3>1, <3>2
  <2>4. windows' = (left \ mine) \cup {new} /\ mine \subseteq left
    BY <1>4 DEF At
  <2>5. (\A a, b \in mine : a = b) /\ new \notin left \ mine
    BY <1>4 DEF At, CorrelatorInv, TableInv, TableBounded
  <2> HIDE DEF left, mine
  <2>6. Cardinality(windows') >= Cardinality(left)
    BY <2>3, <2>4, <2>5, ReplaceKeepsSize
  <2> QED
    BY <1>6, <2>2, <2>3, <2>6 DEF NearlyFull
<1> HIDE DEF g, s, open
<1>8. ASSUME NEW q \in Listing(c), q \notin c.rest \ {r}
      PROVE  Has(q, c)' \/ NearlyFull'
  <2>1. CASE q = r
    <3>1. new \in windows' /\ s.name = c.name /\ s.source = c.source
      BY <1>4 DEF s
    <3> QED
      BY <1>4, <2>1, <3>1 DEF Has, g
  <2>2. CASE q # r
    <3>1. Has(q, c) \/ NearlyFull
      BY <1>8, <2>2 DEF VisitedInv
    <3>2. ASSUME NEW w \in windows, w.rule = q, w \notin windows' PROVE NearlyFull'
      <4>1. w \in evicted
        BY <1>4, <2>2, <3>2 DEF At
      <4> QED
        BY <1>7, <4>1
    <3> QED
      BY <1>7, <3>1, <3>2 DEF Has
  <2> QED
    BY <2>1, <2>2
<1>9. CASE call' = {}
  BY <1>9 DEF VisitedInv
<1>10. CASE call' = {[c EXCEPT !.rest = @ \ {r}]}
  <2> DEFINE d == [c EXCEPT !.rest = @ \ {r}]
  <2>1. d.name = c.name /\ d.source = c.source /\ d.rest = c.rest \ {r}
    BY <1>2 DEF Call
  <2>2. call' = {d}
    BY <1>10
  <2> HIDE DEF d
  <2>3. \A q : Has(q, c)' <=> Has(q, d)'
    BY <2>1 DEF Has
  <2>4. Listing(d)' = Listing(c)
    BY <1>5, <2>1 DEF Listing
  <2> QED
    BY <1>8, <2>1, <2>2, <2>3, <2>4 DEF VisitedInv
<1> QED
  BY <1>5, <1>9, <1>10

(* Every step of the correlator keeps it.                                  *)
LEMMA VisitedNextInv ==
  CorrelatorInv /\ VisitedInv /\ [CorrelatorNext]_correlatorVars => VisitedInv'
<1> SUFFICES ASSUME CorrelatorInv, VisitedInv, [CorrelatorNext]_correlatorVars PROVE VisitedInv'
  OBVIOUS
<1>1. ASSUME NEW n \in Names, NEW s \in Sources, ProcessSignal(n, s) PROVE VisitedInv'
  <2>1. \A c \in call' : \A r \in Listing(c)' : r \in c.rest
    BY <1>1 DEF ProcessSignal, Listing
  <2> QED
    BY <2>1 DEF VisitedInv
<1>2. ASSUME NEW c \in call, NEW r \in c.rest, Visit(c, r) PROVE VisitedInv'
  BY <1>2, VisitReaches
<1>3. CASE call' = {}
  BY <1>3 DEF VisitedInv
<1>4. CASE UNCHANGED <<active, windows, call>>
  <2>1. \A c : Listing(c)' = Listing(c)
    BY <1>4 DEF Listing
  <2>2. \A c, r : Has(r, c)' <=> Has(r, c)
    BY <1>4 DEF Has
  <2> QED
    BY <1>4, <2>1, <2>2 DEF VisitedInv, NearlyFull
<1>5. Return \/ (\E r \in Rules : AddRule(r) \/ RemoveRule(r)) \/ Purge => call' = {}
  BY DEF Return, AddRule, RemoveRule, Purge
<1>6. Tick \/ UNCHANGED correlatorVars => UNCHANGED <<active, windows, call>>
  BY DEF Tick, correlatorVars
<1> QED
  BY <1>1, <1>2, <1>3, <1>4, <1>5, <1>6 DEF CorrelatorNext

(* A call that has no rule left, and returns without firing.               *)
MissesNothing ==
  \A c \in call : c.rest = {} => \A r \in Listing(c) : Has(r, c) \/ NearlyFull

(* A call that returns without firing has put its signal in the window of  *)
(* every rule that lists it, or the table is nearly full: the return from  *)
(* the loop when a rule fires is the one other way to miss a signal.       *)
THEOREM OnlyFiringMisses == CorrelatorSpec => []MissesNothing
<1>1. CorrelatorInit => VisitedInv
  BY DEF CorrelatorInit, VisitedInv
<1>2. CorrelatorInv /\ VisitedInv /\ [CorrelatorNext]_correlatorVars => VisitedInv'
  BY VisitedNextInv
<1>3. VisitedInv => MissesNothing
  BY DEF VisitedInv, MissesNothing
<1> QED
  BY <1>1, <1>2, <1>3, CorrelatorInvHolds, PTL DEF CorrelatorSpec
=============================================================================
