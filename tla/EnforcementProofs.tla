------------------------- MODULE EnforcementProofs -------------------------
(***************************************************************************)
(* Proofs about Enforcement for any number of jobs, workers, PIDs, pods    *)
(* and mode changes: the budget of its rate limiter, its invariants and    *)
(* the draining of simulate mode.                                          *)
(***************************************************************************)
EXTENDS Enforcement, FiniteSetTheorems, TLAPS

-----------------------------------------------------------------------------
(* Why the fixed-window limiter never grants more than 2 * MaxKills - 1    *)
(* requests of a key in any interval of one window's length.               *)
(*                                                                         *)
(* The argument: each grant belongs to the window whose counter admitted   *)
(* it (win, the end of that window).  A window has at most MaxKills        *)
(* grants, one of them at its very start, and the windows of a key are     *)
(* disjoint.  An interval of the length of a window meets at most two of   *)
(* them, and if it meets two it misses the start of the first.             *)

InWindow(G, k, w) == {g \in G : g.key = k /\ g.win = w}

(* Each grant lies in its window, and no request is granted twice.         *)
GrantsInTheirWindow ==
  \A g \in grants : g.win <= g.at + Window /\ g.at <= g.win /\ g.at <= now

(* Windows of one key do not overlap: the later one starts, at             *)
(* h.win - Window, after the earlier one has ended.                        *)
WindowsDisjoint ==
  \A g, h \in grants : g.key = h.key /\ g.win < h.win => g.win + Window < h.win

(* The first grant of a window is made when the window starts.             *)
WindowsOpened ==
  \A g \in grants : \E o \in grants :
    o.key = g.key /\ o.win = g.win /\ o.at + Window = o.win

(* A live counter counts the grants of the newest window of its key; a key *)
(* without a counter has only windows that are over.                       *)
CountersCount ==
  \A k \in Keys :
    /\ counters[k].count <= MaxKills
    /\ counters[k].count > 0 =>
         /\ Cardinality(InWindow(grants, k, counters[k].resetAt)) = counters[k].count
         /\ \A g \in grants : g.key = k => g.win <= counters[k].resetAt
    /\ counters[k].count = 0 => \A g \in grants : g.key = k => g.win < now

(* No window grants more than MaxKills.                                    *)
WindowBudget ==
  \A k \in Keys, w \in Nat : Cardinality(InWindow(grants, k, w)) <= MaxKills

(* The inductive invariant.                                                *)
RateInv ==
  /\ RateTypeOK
  /\ IsFiniteSet(grants)
  /\ GrantsInTheirWindow
  /\ WindowsDisjoint
  /\ WindowsOpened
  /\ CountersCount
  /\ WindowBudget

-----------------------------------------------------------------------------

(* A window's grants are finitely many.                                    *)
LEMMA InWindowFinite ==
  ASSUME IsFiniteSet(grants), NEW k, NEW w
  PROVE  /\ IsFiniteSet(InWindow(grants, k, w))
         /\ Cardinality(InWindow(grants, k, w)) \in Nat
<1>1. InWindow(grants, k, w) \in SUBSET grants
  BY DEF InWindow
<1>2. IsFiniteSet(InWindow(grants, k, w))
  BY <1>1, FS_Subset
<1>3. QED
  BY <1>2, FS_CardinalityType

(* A union has at most as many elements as its parts together.             *)
LEMMA UnionBound ==
  ASSUME NEW A, NEW B, IsFiniteSet(A), IsFiniteSet(B)
  PROVE  /\ IsFiniteSet(A \cup B)
         /\ Cardinality(A \cup B) <= Cardinality(A) + Cardinality(B)
<1>1. IsFiniteSet(A \cup B)
      /\ Cardinality(A \cup B) = Cardinality(A) + Cardinality(B) - Cardinality(A \cap B)
  BY FS_Union
<1>2. Cardinality(A \cap B) \in Nat /\ Cardinality(A) \in Nat /\ Cardinality(B) \in Nat
  BY FS_Intersection, FS_CardinalityType
<1>3. QED
  BY <1>1, <1>2

(* Initially nothing is granted and there is no counter.                   *)
LEMMA RateInitInv == RateInit => RateInv
<1>1. SUFFICES ASSUME RateInit PROVE RateInv
  OBVIOUS
<1>2. RateTypeOK
  BY <1>1 DEF RateInit, RateTypeOK, NoCounter
<1>3. IsFiniteSet(grants) /\ grants = {}
  BY <1>1, FS_EmptySet DEF RateInit
<1>4. GrantsInTheirWindow /\ WindowsDisjoint /\ WindowsOpened
  BY <1>3 DEF GrantsInTheirWindow, WindowsDisjoint, WindowsOpened
<1>5. CountersCount
  BY <1>1, <1>3, RateAssumption DEF RateInit, NoCounter, CountersCount
<1>6. WindowBudget
  BY <1>3, FS_EmptySet, RateAssumption DEF WindowBudget, InWindow
<1>7. QED
  BY <1>2, <1>3, <1>4, <1>5, <1>6 DEF RateInv

(* A grant joins the newest window of its key, or opens a new one after it.*)
LEMMA AllowInv ==
  ASSUME RateInv, NEW r \in Requests, NEW k \in Keys, Allow(r, k)
  PROVE  RateInv'
<1> DEFINE c == Counted(k)
           g0 == [req |-> r, key |-> k, at |-> now, win |-> c.resetAt]
<1>1. /\ now \in Nat /\ Window \in Nat /\ MaxKills \in Nat \ {0}
      /\ counters[k].count \in Nat /\ counters[k].resetAt \in Nat
      /\ grants \subseteq Grant /\ IsFiniteSet(grants)
  BY RateAssumption DEF RateInv, RateTypeOK
<1>2. now' = now /\ grants' = grants \cup {g0} /\ counters' = [counters EXCEPT ![k] = c]
  BY DEF Allow
<1>3. g0 \notin grants
  BY DEF Allow
<1>4. /\ Opens(k) => c.count = 1 /\ c.resetAt = now + Window
      /\ ~Opens(k) => /\ c.count = counters[k].count + 1
                      /\ c.resetAt = counters[k].resetAt
                      /\ counters[k].count > 0 /\ now <= counters[k].resetAt
                      /\ counters[k].count < MaxKills
  BY <1>1 DEF Counted, Opens, Expired, Allow, WithinBudget, RateInv, RateTypeOK
<1>5. c \in [count : Nat, resetAt : Nat]
  BY <1>1 DEF Counted, RateInv, RateTypeOK
<1>6. g0 \in Grant
  BY <1>1, <1>5 DEF Grant
<1>7. RateTypeOK'
  BY <1>1, <1>2, <1>5, <1>6 DEF RateInv, RateTypeOK
<1>8. IsFiniteSet(grants')
  BY <1>1, <1>2, FS_AddElement
<1>9. Opens(k) => \A g \in grants : g.key = k => g.win < now
  <2>1. ASSUME Opens(k), NEW g \in grants, g.key = k
        PROVE  g.win < now
    <3>1. g.win \in Nat
      BY <1>1 DEF Grant
    <3>2. CASE counters[k].count = 0
      BY <2>1, <3>2 DEF RateInv, CountersCount
    <3>3. CASE counters[k].count > 0
      BY <1>1, <2>1, <3>1, <3>3 DEF RateInv, CountersCount, Opens, Expired
    <3>4. QED
      BY <1>1, <3>2, <3>3
  <2>2. QED
    BY <2>1
<1>10. ~Opens(k) => \E g \in grants : g.key = k /\ g.win = counters[k].resetAt
  <2>1. SUFFICES ASSUME ~Opens(k)
                 PROVE  InWindow(grants, k, counters[k].resetAt) # {}
    BY DEF InWindow
  <2>2. Cardinality(InWindow(grants, k, counters[k].resetAt)) # 0
    BY <1>1, <1>4, <2>1 DEF RateInv, CountersCount
  <2>3. QED
    BY <2>2, FS_EmptySet
<1>11. /\ \A g \in grants : g.key = k => g.win <= c.resetAt
       /\ c.resetAt <= now + Window /\ now <= c.resetAt
  <2>1. CASE Opens(k)
    BY <1>1, <1>4, <1>9, <2>1 DEF Grant
  <2>2. CASE ~Opens(k)
    <3>1. PICK g \in grants : g.key = k /\ g.win = counters[k].resetAt
      BY <1>10, <2>2
    <3>2. g.win <= g.at + Window /\ g.at <= now /\ g.at \in Nat
      BY <1>1, <3>1 DEF RateInv, GrantsInTheirWindow, Grant
    <3>3. c.resetAt <= now + Window
      BY <1>1, <1>4, <2>2, <3>1, <3>2
    <3>4. \A h \in grants : h.key = k => h.win <= c.resetAt
      BY <1>4, <2>2 DEF RateInv, CountersCount
    <3>5. QED
      BY <1>4, <2>2, <3>3, <3>4
  <2>3. QED
    BY <2>1, <2>2
<1>12. GrantsInTheirWindow'
  BY <1>1, <1>2, <1>5, <1>11 DEF RateInv, GrantsInTheirWindow
<1>13. \A g \in grants : g.key = k /\ g.win < c.resetAt => g.win + Window < c.resetAt
  <2>1. SUFFICES ASSUME NEW g \in grants, g.key = k, g.win < c.resetAt
                 PROVE  g.win + Window < c.resetAt
    OBVIOUS
  <2>2. g.win \in Nat
    BY <1>1 DEF Grant
  <2>3. CASE Opens(k)
    BY <1>1, <1>4, <1>9, <2>1, <2>2, <2>3
  <2>4. CASE ~Opens(k)
    BY <1>4, <1>10, <2>1, <2>4 DEF RateInv, WindowsDisjoint
  <2>5. QED
    BY <2>3, <2>4
<1>14. WindowsDisjoint'
  <2>1. SUFFICES ASSUME NEW g \in grants', NEW h \in grants', g.key = h.key, g.win < h.win
                 PROVE  g.win + Window < h.win
    BY DEF WindowsDisjoint
  <2>2. g \in Grant /\ h \in Grant
    BY <1>7 DEF RateTypeOK
  <2>3. CASE g \in grants /\ h \in grants
    BY <2>1, <2>3 DEF RateInv, WindowsDisjoint
  <2>4. CASE g \in grants /\ h = g0
    BY <1>13, <2>1, <2>4
  <2>5. CASE g = g0 /\ h \in grants
    BY <1>5, <1>11, <2>1, <2>2, <2>5 DEF Grant
  <2>6. CASE g = g0 /\ h = g0
    BY <1>5, <2>1, <2>6
  <2>7. QED
    BY <1>2, <2>3, <2>4, <2>5, <2>6
<1>15. WindowsOpened'
  <2>1. SUFFICES ASSUME NEW g \in grants'
                 PROVE  \E o \in grants' : o.key = g.key /\ o.win = g.win
                                           /\ o.at + Window = o.win
    BY DEF WindowsOpened
  <2>2. CASE g \in grants
    BY <1>2, <2>2 DEF RateInv, WindowsOpened
  <2>3. CASE g = g0 /\ Opens(k)
    BY <1>2, <1>4, <2>3
  <2>4. CASE g = g0 /\ ~Opens(k)
    BY <1>2, <1>4, <1>10, <2>4 DEF RateInv, WindowsOpened
  <2>5. QED
    BY <1>2, <2>2, <2>3, <2>4
<1>16. \A k2, w : InWindow(grants', k2, w) =
         IF k2 = k /\ w = c.resetAt THEN InWindow(grants, k2, w) \cup {g0}
                                    ELSE InWindow(grants, k2, w)
  BY <1>2 DEF InWindow
<1>17. Cardinality(InWindow(grants', k, c.resetAt)) = c.count
  <2>1. g0 \notin InWindow(grants, k, c.resetAt) /\ IsFiniteSet(InWindow(grants, k, c.resetAt))
    <3>1. g0 \notin InWindow(grants, k, c.resetAt)
      BY <1>3 DEF InWindow
    <3>2. IsFiniteSet(InWindow(grants, k, c.resetAt))
      BY <1>1, InWindowFinite
    <3>3. QED
      BY <3>1, <3>2
  <2>2. Cardinality(InWindow(grants', k, c.resetAt)) = Cardinality(InWindow(grants, k, c.resetAt)) + 1
    BY <1>16, <2>1, FS_AddElement
  <2>3. CASE Opens(k)
    <3>1. \A g \in grants : g.key = k => g.win # c.resetAt
      BY <1>1, <1>4, <1>9, <2>3 DEF Grant
    <3>2. InWindow(grants, k, c.resetAt) = {}
      BY <3>1 DEF InWindow
    <3>3. QED
      BY <1>4, <2>2, <2>3, <3>2, FS_EmptySet
  <2>4. CASE ~Opens(k)
    BY <1>1, <1>4, <2>2, <2>4 DEF RateInv, CountersCount
  <2>5. QED
    BY <2>3, <2>4
<1>18. c.count <= MaxKills /\ c.count > 0
  BY <1>1, <1>4, <1>5
<1>19. CountersCount'
  <2>1. SUFFICES ASSUME NEW k2 \in Keys
                 PROVE  /\ counters'[k2].count <= MaxKills
                        /\ counters'[k2].count > 0 =>
                             /\ Cardinality(InWindow(grants', k2, counters'[k2].resetAt))
                                   = counters'[k2].count
                             /\ \A g \in grants' : g.key = k2 => g.win <= counters'[k2].resetAt
                        /\ counters'[k2].count = 0 =>
                             \A g \in grants' : g.key = k2 => g.win < now'
    BY DEF CountersCount, InWindow
  <2>2. CASE k2 = k
    <3>1. counters'[k2] = c
      BY <1>2, <2>2 DEF RateInv, RateTypeOK
    <3>2. \A g \in grants' : g.key = k => g.win <= c.resetAt
      BY <1>2, <1>5, <1>11
    <3>3. QED
      BY <1>5, <1>17, <1>18, <2>2, <3>1, <3>2
  <2>3. CASE k2 # k
    <3>1. counters'[k2] = counters[k2]
      BY <1>2, <2>3 DEF RateInv, RateTypeOK
    <3>2. \A g \in grants' : g.key = k2 => g \in grants
      BY <1>2, <2>3
    <3>3. InWindow(grants', k2, counters'[k2].resetAt) = InWindow(grants, k2, counters[k2].resetAt)
      BY <1>16, <2>3, <3>1
    <3>4. QED
      BY <1>2, <3>1, <3>2, <3>3 DEF RateInv, CountersCount
  <2>4. QED
    BY <2>2, <2>3
<1>20. WindowBudget'
  <2>1. SUFFICES ASSUME NEW k2 \in Keys, NEW w \in Nat
                 PROVE  Cardinality(InWindow(grants', k2, w)) <= MaxKills
    BY DEF WindowBudget, InWindow
  <2>2. CASE k2 = k /\ w = c.resetAt
    BY <1>17, <1>18, <2>2
  <2>3. CASE ~(k2 = k /\ w = c.resetAt)
    BY <1>16, <2>1, <2>3 DEF RateInv, WindowBudget
  <2>4. QED
    BY <2>2, <2>3
<1>21. QED
  BY <1>7, <1>8, <1>12, <1>14, <1>15, <1>19, <1>20 DEF RateInv

(* Deleting expired counters and the passing of time change no grant; a    *)
(* counter is deleted only when its window is over.                        *)
LEMMA ElapseInv ==
  ASSUME RateInv, Cleanup \/ Tick
  PROVE  RateInv'
<1>1. /\ now \in Nat /\ now' \in Nat /\ now <= now' /\ grants' = grants
      /\ grants \subseteq Grant /\ MaxKills \in Nat \ {0}
  BY RateAssumption DEF RateInv, RateTypeOK, Cleanup, Tick
<1>2. \A k \in Keys : \/ counters'[k] = counters[k]
                       \/ /\ Expired(k)
                          /\ counters'[k] = NoCounter
  BY DEF RateInv, RateTypeOK, Cleanup, Tick
<1>3. RateTypeOK'
  BY <1>1 DEF RateInv, RateTypeOK, Cleanup, Tick, NoCounter
<1>4. /\ IsFiniteSet(grants)' /\ WindowsDisjoint' /\ WindowsOpened' /\ WindowBudget'
  BY <1>1 DEF RateInv, WindowsDisjoint, WindowsOpened, WindowBudget, InWindow
<1>5. GrantsInTheirWindow'
  BY <1>1, RateAssumption DEF RateInv, GrantsInTheirWindow, Grant
<1>6. CountersCount'
  <2>1. SUFFICES ASSUME NEW k \in Keys
                 PROVE  /\ counters'[k].count <= MaxKills
                        /\ counters'[k].count > 0 =>
                             /\ Cardinality(InWindow(grants, k, counters'[k].resetAt))
                                   = counters'[k].count
                             /\ \A g \in grants : g.key = k => g.win <= counters'[k].resetAt
                        /\ counters'[k].count = 0 =>
                             \A g \in grants : g.key = k => g.win < now'
    BY <1>1 DEF CountersCount, InWindow
  <2>2. CASE counters'[k] = counters[k]
    BY <1>1, <2>2 DEF RateInv, CountersCount, Grant
  <2>3. CASE Expired(k) /\ counters'[k] = NoCounter
    <3>1. counters[k].resetAt \in Nat /\ counters[k].resetAt < now /\ counters[k].count > 0
      BY <1>1, <2>3 DEF RateInv, RateTypeOK, Expired
    <3>2. \A g \in grants : g.key = k => g.win < now'
      BY <1>1, <3>1 DEF RateInv, CountersCount, Grant
    <3>3. QED
      BY <1>1, <2>3, <3>2 DEF NoCounter
  <2>4. QED
    BY <1>2, <2>2, <2>3
<1>7. QED
  BY <1>1, <1>3, <1>4, <1>5, <1>6 DEF RateInv

(* The invariant is inductive.                                             *)
LEMMA RateStep == RateInv /\ [RateNext]_rateVars => RateInv'
<1>1. ASSUME RateInv, RateNext PROVE RateInv'
  BY <1>1, AllowInv, ElapseInv DEF RateNext
<1>2. ASSUME RateInv, UNCHANGED rateVars PROVE RateInv'
  BY <1>2 DEF rateVars, RateInv, RateTypeOK, GrantsInTheirWindow, WindowsDisjoint,
              WindowsOpened, CountersCount, WindowBudget, InWindow
<1>3. QED
  BY <1>1, <1>2

-----------------------------------------------------------------------------

(* An interval of one window's length cannot contain more grants than two  *)
(* windows admit, and not the opening grant of the earlier one.            *)
LEMMA IntervalBudget == RateInv => SlidingBudget
<1> SUFFICES ASSUME RateInv, NEW k \in Keys, NEW t \in 0 .. now
             PROVE  Cardinality(GrantsIn(k, t, t + Window)) <= 2 * MaxKills - 1
  BY DEF SlidingBudget
<1> DEFINE S == GrantsIn(k, t, t + Window)
           Win(w) == InWindow(grants, k, w)
<1>1. /\ Window \in Nat /\ MaxKills \in Nat \ {0} /\ t \in Nat
      /\ grants \subseteq Grant /\ IsFiniteSet(grants)
  BY RateAssumption DEF RateInv, RateTypeOK
<1>2. \A w : IsFiniteSet(Win(w)) /\ Cardinality(Win(w)) \in Nat
  BY <1>1, InWindowFinite
<1>3. \A w \in Nat : Cardinality(Win(w)) <= MaxKills
  BY DEF RateInv, WindowBudget
<1>4. S \subseteq grants
  BY DEF GrantsIn
<1>5. CASE \A g, h \in S : g.win = h.win
  <2>1. CASE S = {}
    BY <1>1, <2>1, FS_EmptySet
  <2>2. CASE S # {}
    <3>1. PICK g \in S : TRUE
      BY <2>2
    <3>2. S \subseteq Win(g.win) /\ g.win \in Nat
      BY <1>1, <1>4, <1>5, <3>1 DEF GrantsIn, InWindow, Grant
    <3>3. Cardinality(S) <= Cardinality(Win(g.win)) /\ Cardinality(S) \in Nat
      BY <1>2, <3>2, FS_Subset, FS_CardinalityType
    <3>4. Cardinality(Win(g.win)) <= MaxKills /\ Cardinality(Win(g.win)) \in Nat
      BY <1>2, <1>3, <3>2
    <3>5. QED
      BY <1>1, <3>3, <3>4
  <2>3. QED
    BY <2>1, <2>2
<1>6. CASE \E g, h \in S : g.win # h.win
  <2>1. PICK g \in S, h \in S : g.win < h.win
    <3>1. PICK a \in S, b \in S : a.win # b.win
      BY <1>6
    <3>2. a.win \in Nat /\ b.win \in Nat
      BY <1>1, <1>4 DEF Grant
    <3>3. a.win < b.win \/ b.win < a.win
      BY <3>1, <3>2
    <3>4. QED
      BY <3>1, <3>3
  <2>2. \A x \in S : /\ x \in grants /\ x.key = k /\ t <= x.at /\ x.at <= t + Window
                     /\ x.at \in Nat /\ x.win \in Nat
                     /\ x.at <= x.win /\ x.win <= x.at + Window
    BY <1>1, <1>4 DEF GrantsIn, Grant, RateInv, GrantsInTheirWindow
  <2>3. \A x, y \in S : x.win < y.win => x.win + Window < y.win
    BY <2>2 DEF RateInv, WindowsDisjoint
  <2>4. \A x \in S : x.win = g.win \/ x.win = h.win
    <3>1. SUFFICES ASSUME NEW x \in S, x.win # g.win, x.win # h.win PROVE FALSE
      OBVIOUS
    <3>2. t <= g.win /\ h.win <= t + Window + Window /\ t <= x.win
            /\ x.win <= t + Window + Window
      BY <1>1, <2>2
    <3>3. CASE x.win < g.win
      BY <1>1, <2>1, <2>2, <2>3, <3>2, <3>3
    <3>4. CASE g.win < x.win /\ x.win < h.win
      BY <1>1, <2>1, <2>2, <2>3, <3>2, <3>4
    <3>5. CASE h.win < x.win
      BY <1>1, <2>1, <2>2, <2>3, <3>2, <3>5
    <3>6. QED
      BY <2>2, <3>1, <3>3, <3>4, <3>5
  <2>5. PICK o \in grants : o.key = k /\ o.win = g.win /\ o.at + Window = o.win
    BY <2>2 DEF RateInv, WindowsOpened
  <2>6. o \in Win(g.win) /\ o \notin S
    <3>1. o.at \in Nat
      BY <1>1 DEF Grant
    <3>2. o.at < t
      BY <1>1, <2>1, <2>2, <2>3, <2>5, <3>1
    <3>3. QED
      BY <1>1, <2>5, <3>1, <3>2 DEF InWindow, GrantsIn
  <2>7. S \subseteq (Win(g.win) \ {o}) \cup Win(h.win)
    BY <2>2, <2>4, <2>6 DEF InWindow
  <2>8. /\ IsFiniteSet(Win(g.win) \ {o})
        /\ Cardinality(Win(g.win) \ {o}) = Cardinality(Win(g.win)) - 1
    BY <1>2, <2>6, FS_RemoveElement
  <2>9. /\ IsFiniteSet((Win(g.win) \ {o}) \cup Win(h.win))
        /\ Cardinality((Win(g.win) \ {o}) \cup Win(h.win))
             <= Cardinality(Win(g.win) \ {o}) + Cardinality(Win(h.win))
    BY <1>2, <2>8, UnionBound
  <2>10. Cardinality(S) <= Cardinality((Win(g.win) \ {o}) \cup Win(h.win))
         /\ Cardinality(S) \in Nat
    BY <2>7, <2>9, FS_Subset, FS_CardinalityType
  <2>11. Cardinality(Win(g.win)) <= MaxKills /\ Cardinality(Win(h.win)) <= MaxKills
    BY <1>3, <2>2
  <2>12. Cardinality(Win(g.win)) \in Nat /\ Cardinality(Win(h.win)) \in Nat
         /\ Cardinality((Win(g.win) \ {o}) \cup Win(h.win)) \in Nat
    BY <1>2, <2>9, FS_CardinalityType
  <2>13. QED
    BY <1>1, <2>8, <2>9, <2>10, <2>11, <2>12
<1>7. QED
  BY <1>5, <1>6

(* The limiter keeps its budget over every interval of one window's length *)
(* (RateLimiter.Allow, cleanup).                                           *)
THEOREM RateSlidingBudget == RateSpec => []SlidingBudget
<1>1. RateSpec => []RateInv
  BY RateInitInv, RateStep, PTL DEF RateSpec
<1>2. QED
  BY <1>1, IntervalBudget, PTL

-----------------------------------------------------------------------------
(* The enforcement path.                                                   *)

(* What the type of Events says of an event.                               *)
LEMMA EventFields ==
  ASSUME NEW e \in Events
  PROVE  /\ e.pid \in Pids /\ e.ppid \in Pids /\ e.ns \in Namespaces /\ e.key \in Keys
         /\ e.attributed \in BOOLEAN /\ e.action \in Actions
  BY EnforcementAssumption DEF Event

(* The rate limiter's variables move only as the limiter moves them.       *)
LEMMA StepIsRateStep == TypeOK /\ [Next]_vars => [RateNext]_rateVars
<1>1. ASSUME TypeOK, NEW j \in Jobs, Permit(j) PROVE RateNext
  <2>1. event[j].key \in Keys
    BY <1>1, EventFields DEF TypeOK
  <2>2. Allow(j, event[j].key)
    BY <1>1 DEF Permit
  <2>3. QED
    BY <2>1, <2>2 DEF RateNext, Jobs
<1>2. QED
  BY <1>1 DEF Next, JobStep, Kernel, Elapse, RateNext, Submit, Route, Gate, RateLimited,
     Term, Wake, Kill, Confirm, Record, SetMode, SetModeOfActor, ApplyPolicy, Exit, Reap,
     Spawn, vars

-----------------------------------------------------------------------------
(* Types *)

StateTypeOK ==
  /\ pmode \in Modes /\ rmode \in Modes
  /\ setting \in Modes \cup {"none"}
  /\ graceful \in BOOLEAN
  /\ pc \in [Threads -> [Jobs -> Steps]]
  /\ event \in [Jobs -> Events]
  /\ reason \in [Threads -> [Jobs -> Reasons]]
  /\ audit \subseteq AuditRecord
  /\ proc \in [Pids -> Process]
  /\ seen \in [Jobs -> 0 .. MaxGen]
  /\ hits \in [Threads -> [Jobs -> SUBSET Hit]]
  /\ enforcing \in [Jobs -> BOOLEAN]

(* Each action keeps the types of the variables outside the limiter.       *)
LEMMA TypeStep == StateTypeOK /\ [Next]_vars => StateTypeOK'
<1> SUFFICES ASSUME StateTypeOK, [Next]_vars PROVE StateTypeOK'
  OBVIOUS
<1> USE DEF StateTypeOK
<1>1. ASSUME NEW j \in Jobs, Submit(j) PROVE StateTypeOK'
  <2>1. PICK e \in Events : \E from \in 0 .. proc[e.pid].gen :
          /\ event' = [event EXCEPT ![j] = e]
          /\ seen' = [seen EXCEPT ![j] = from]
    BY <1>1 DEF Submit
  <2>2. proc[e.pid].gen \in 0 .. MaxGen
    BY EventFields DEF Process
  <2>3. 0 .. proc[e.pid].gen \subseteq 0 .. MaxGen
    BY <2>2, EnforcementAssumption
  <2>4. event' \in [Jobs -> Events] /\ seen' \in [Jobs -> 0 .. MaxGen]
    BY <2>1, <2>3
  <2>5. QED
    BY <1>1, <2>4 DEF Submit, Threads, Steps
<1>2. ASSUME NEW j \in Jobs, Route(j) PROVE StateTypeOK'
  <2>1. PICK s \in Steps : pc' = [pc EXCEPT !["enforce"][j] = s]
    BY <1>2 DEF Route, Steps
  <2>2. QED
    BY <1>2, <2>1 DEF Route, Threads, Steps
<1>3. ASSUME NEW j \in Jobs, Gate(j) PROVE StateTypeOK'
  <2>1. Refusal(event[j], rmode) \in Reasons
    BY DEF Refusal, Reasons
  <2>2. PICK s \in Steps : pc' = [pc EXCEPT !["enforce"][j] = s]
    BY <1>3 DEF Gate, Steps
  <2>3. QED
    BY <1>3, <2>1, <2>2 DEF Gate, Threads, Steps
<1>4. ASSUME NEW j \in Jobs, RateLimited(j) PROVE StateTypeOK'
  BY <1>4 DEF RateLimited, Threads, Steps, Reasons
<1>5. ASSUME NEW j \in Jobs, Permit(j) PROVE StateTypeOK'
  BY <1>5 DEF Permit, Threads, Steps, Reasons
<1>6. ASSUME NEW j \in Jobs, Term(j) PROVE StateTypeOK'
  <2>1. proc[Pid(j)] \in Process
    BY EventFields DEF Pid
  <2>2. [sig |-> "TERM", gen |-> proc[Pid(j)].gen, ns |-> proc[Pid(j)].ns] \in Hit
    BY <2>1 DEF Hit, Process
  <2>3. hits' \in [Threads -> [Jobs -> SUBSET Hit]]
    BY <1>6, <2>2 DEF Term, Deliver, Threads
  <2>4. QED
    BY <1>6, <2>3 DEF Term, Threads, Steps, Reasons
<1>7. ASSUME NEW j \in Jobs, Wake(j) PROVE StateTypeOK'
  BY <1>7 DEF Wake, Threads, Steps
<1>8. ASSUME NEW j \in Jobs, NEW t \in Threads, Kill(t, j) PROVE StateTypeOK'
  <2>1. proc[Pid(j)] \in Process /\ Pid(j) \in Pids
    BY EventFields DEF Pid
  <2>2. [sig |-> "KILL", gen |-> proc[Pid(j)].gen, ns |-> proc[Pid(j)].ns] \in Hit
    BY <2>1 DEF Hit, Process
  <2>3. hits' \in [Threads -> [Jobs -> SUBSET Hit]]
    <3>1. CASE UNCHANGED hits
      BY <3>1
    <3>2. CASE Deliver(t, j, "KILL")
      BY <2>2, <3>2 DEF Deliver
    <3>3. QED
      BY <1>8, <3>1, <3>2 DEF Kill
  <2>4. proc' \in [Pids -> Process]
    BY <1>8, <2>1 DEF Kill, Becomes, Process
  <2>5. PICK s \in Steps : pc' = [pc EXCEPT ![t][j] = s]
    BY <1>8 DEF Kill, Steps
  <2>6. reason' \in [Threads -> [Jobs -> Reasons]]
    <3>1. CASE UNCHANGED reason
      BY <3>1
    <3>2. CASE reason' = [reason EXCEPT ![t][j] = "kill_failed"]
      BY <3>2 DEF Reasons
    <3>3. QED
      BY <1>8, <3>1, <3>2 DEF Kill
  <2>7. QED
    BY <1>8, <2>3, <2>4, <2>5, <2>6 DEF Kill
<1>9. ASSUME NEW j \in Jobs, NEW t \in Threads, Confirm(t, j) PROVE StateTypeOK'
  BY <1>9 DEF Confirm, Steps, Reasons
<1>10. ASSUME NEW j \in Jobs, NEW t \in Threads, Record(t, j) PROVE StateTypeOK'
  BY <1>10 DEF Record, Steps, AuditRecord
<1>11. ASSUME NEW m \in Modes, SetMode(m) PROVE StateTypeOK'
  BY <1>11 DEF SetMode, jobVars
<1>12. ASSUME SetModeOfActor PROVE StateTypeOK'
  BY <1>12 DEF SetModeOfActor, jobVars
<1>13. ASSUME NEW m \in PolicyModes, ApplyPolicy(m) PROVE StateTypeOK'
  BY <1>13, EnforcementAssumption DEF ApplyPolicy, jobVars
<1>14. ASSUME NEW p \in Pids, Exit(p) \/ Reap(p) PROVE StateTypeOK'
  BY <1>14 DEF Exit, Reap, Becomes, jobVars, Process
<1>15. ASSUME NEW p \in Pids, Spawn(p) PROVE StateTypeOK'
  <2>1. proc' \in [Pids -> Process]
    BY <1>15, EnforcementAssumption DEF Spawn, Process
  <2>2. QED
    BY <1>15, <2>1 DEF Spawn, jobVars
<1>16. ASSUME Elapse PROVE StateTypeOK'
  BY <1>16 DEF Elapse, jobVars
<1>17. ASSUME UNCHANGED vars PROVE StateTypeOK'
  BY <1>17 DEF vars, jobVars
<1>18. QED
  BY <1>1, <1>2, <1>3, <1>4, <1>5, <1>6, <1>7, <1>8, <1>9, <1>10, <1>11, <1>12, <1>13,
     <1>14, <1>15, <1>16, <1>17 DEF Next, JobStep, Kernel

-----------------------------------------------------------------------------
(* The safety protocol *)

(* Job j may signal: every rule has let it through.                        *)
Licensed(j) ==
  /\ Cleared(event[j]) /\ event[j].ns # NoNamespace
  /\ \E g \in grants : g.req = j /\ g.key = event[j].key
  /\ enforcing[j]

(* What the rules that are behind a job have established: a job at the     *)
(* gate was routed in enforce mode, one at the limiter is cleared, one     *)
(* that is about to signal, or has signalled, is licensed; and a job that  *)
(* has not begun has done nothing.                                         *)
ProtocolOf(j) ==
  /\ pc["enforce"][j] # "grace"
  /\ pc["escalate"][j] \in {"idle", "grace", "kill", "confirm", "record", "done"}
  /\ pc["enforce"][j] = "idle" =>
       pc["escalate"][j] = "idle" /\ hits["enforce"][j] = {} /\ hits["escalate"][j] = {}
  /\ pc["escalate"][j] # "idle" => pc["enforce"][j] \in {"record", "done"}
  /\ pc["enforce"][j] # "idle" /\ pmode = "enforce" => enforcing[j]
  /\ pc["enforce"][j] = "gate" =>
       event[j].action = "enforce" /\ event[j].attributed /\ enforcing[j]
  /\ pc["enforce"][j] = "allow" => Cleared(event[j]) /\ enforcing[j]
  /\ pc["enforce"][j] \in {"term", "kill", "confirm"} => Licensed(j)
  /\ pc["escalate"][j] # "idle" => Licensed(j)
  /\ hits["enforce"][j] # {} \/ hits["escalate"][j] # {} => Licensed(j)

ProtocolInv == \A j \in Jobs : ProtocolOf(j)

(* What an action leaves alone about job i.                                *)
Untouched(i) ==
  /\ pc'["enforce"][i] = pc["enforce"][i] /\ pc'["escalate"][i] = pc["escalate"][i]
  /\ hits'["enforce"][i] = hits["enforce"][i] /\ hits'["escalate"][i] = hits["escalate"][i]
  /\ reason'["enforce"][i] = reason["enforce"][i]
  /\ reason'["escalate"][i] = reason["escalate"][i]
  /\ \A a : a.job = i => (a \in audit' <=> a \in audit)
  /\ event'[i] = event[i]

(* A job that an action does not touch keeps what it has established.      *)
LEMMA ProtocolFrame ==
  ASSUME NEW i \in Jobs, ProtocolOf(i), Untouched(i), grants \subseteq grants',
         enforcing[i] => enforcing'[i],
         pc["enforce"][i] # "idle" /\ pmode' = "enforce" => pmode = "enforce" \/ enforcing'[i]
  PROVE  ProtocolOf(i)'
<1>1. Licensed(i) => Licensed(i)'
  BY DEF Licensed, Untouched, Cleared
<1>2. Cleared(event[i]) => Cleared(event'[i])
  BY DEF Untouched
<1>3. QED
  BY <1>1, <1>2 DEF ProtocolOf, Untouched, Cleared

(* A step of one job touches no other job, and no job's event.             *)
LEMMA OthersUntouched ==
  ASSUME StateTypeOK, NEW j \in Jobs, JobStep(j)
  PROVE  /\ \A i \in Jobs : i # j => Untouched(i)
         /\ grants \subseteq grants'
         /\ event' = event /\ enforcing' = enforcing /\ pmode' = pmode
<1> DEFINE Goal == /\ \A i \in Jobs : i # j => Untouched(i)
                   /\ grants \subseteq grants'
                   /\ event' = event /\ enforcing' = enforcing /\ pmode' = pmode
<1> USE DEF StateTypeOK, Untouched
<1>1. ASSUME Route(j) PROVE Goal
  <2>1. PICK s : pc' = [pc EXCEPT !["enforce"][j] = s]
    BY <1>1 DEF Route
  <2>2. QED
    BY <1>1, <2>1 DEF Route, rateVars, Threads
<1>2. ASSUME Gate(j) PROVE Goal
  <2>1. PICK s : pc' = [pc EXCEPT !["enforce"][j] = s]
    BY <1>2 DEF Gate
  <2>2. QED
    BY <1>2, <2>1 DEF Gate, rateVars, Threads
<1>3. ASSUME RateLimited(j) PROVE Goal
  BY <1>3 DEF RateLimited, rateVars, Threads
<1>4. ASSUME Permit(j) PROVE Goal
  <2>1. PICK s : pc' = [pc EXCEPT !["enforce"][j] = s]
    BY <1>4 DEF Permit
  <2>2. grants \subseteq grants'
    BY <1>4 DEF Permit, Allow
  <2>3. QED
    BY <1>4, <2>1, <2>2 DEF Permit, Threads
<1>5. ASSUME Term(j) PROVE Goal
  <2>1. /\ grants' = grants /\ event' = event /\ enforcing' = enforcing /\ pmode' = pmode
        /\ audit' = audit
    BY <1>5 DEF Term, rateVars
  <2>2. CASE /\ Deliver("enforce", j, "TERM")
             /\ reason' = [reason EXCEPT !["enforce"][j] = "sigterm_delivered"]
             /\ pc' = [pc EXCEPT !["enforce"][j] = "record", !["escalate"][j] = "grace"]
    BY <2>1, <2>2 DEF Deliver, Threads
  <2>3. CASE UNCHANGED <<hits, reason>> /\ pc' = [pc EXCEPT !["enforce"][j] = "kill"]
    BY <2>1, <2>3 DEF Threads
  <2>4. QED
    BY <1>5, <2>2, <2>3 DEF Term
<1>6. ASSUME Wake(j) PROVE Goal
  <2>1. PICK s : pc' = [pc EXCEPT !["escalate"][j] = s]
    BY <1>6 DEF Wake
  <2>2. QED
    BY <1>6, <2>1 DEF Wake, rateVars, Threads
<1>7. ASSUME NEW t \in Threads, Kill(t, j) PROVE Goal
  <2>1. /\ grants' = grants /\ event' = event /\ enforcing' = enforcing /\ pmode' = pmode
        /\ audit' = audit
    BY <1>7 DEF Kill, rateVars
  <2>2. PICK s : pc' = [pc EXCEPT ![t][j] = s]
    BY <1>7 DEF Kill
  <2>3. CASE Deliver(t, j, "KILL") /\ UNCHANGED reason
    BY <2>1, <2>2, <2>3 DEF Deliver, Threads
  <2>4. CASE UNCHANGED hits /\ reason' = [reason EXCEPT ![t][j] = "kill_failed"]
    BY <2>1, <2>2, <2>4 DEF Threads
  <2>5. QED
    BY <1>7, <2>3, <2>4 DEF Kill
<1>8. ASSUME NEW t \in Threads, Confirm(t, j) PROVE Goal
  BY <1>8 DEF Confirm, rateVars, Threads
<1>9. ASSUME NEW t \in Threads, Record(t, j) PROVE Goal
  BY <1>9 DEF Record, rateVars, Threads
<1>10. QED
  BY <1>1, <1>2, <1>3, <1>4, <1>5, <1>6, <1>7, <1>8, <1>9 DEF JobStep

(* So does a step outside the jobs, which changes pc, hits and events of   *)
(* none.                                                                   *)
Outside ==
  \/ \E m \in Modes : SetMode(m)
  \/ \E m \in PolicyModes : ApplyPolicy(m)
  \/ SetModeOfActor
  \/ Kernel
  \/ Elapse
  \/ UNCHANGED vars

LEMMA OutsideFrame == Outside => UNCHANGED jobVars /\ grants' = grants
  BY DEF Outside, Kernel, Elapse, SetMode, ApplyPolicy, SetModeOfActor, Exit, Reap, Spawn,
         vars, rateVars, Cleanup, Tick

LEMMA NextSplit ==
  [Next]_vars <=> Outside \/ \E j \in Jobs : Submit(j) \/ JobStep(j)
  BY DEF Next, Outside

(* Every step keeps what the protocol has established.                     *)
LEMMA ProtocolStep ==
  StateTypeOK /\ ProtocolInv /\ [Next]_vars => ProtocolInv'
<1> SUFFICES ASSUME StateTypeOK, ProtocolInv, [Next]_vars, NEW i \in Jobs
             PROVE  ProtocolOf(i)'
  BY DEF ProtocolInv
<1>0. ProtocolOf(i)
  BY DEF ProtocolInv
<1>1. ASSUME NEW j \in Jobs, Submit(j) PROVE ProtocolOf(i)'
  <2>1. grants' = grants /\ hits' = hits /\ pmode' = pmode
    BY <1>1 DEF Submit, rateVars
  <2>2. CASE i = j
    BY <1>0, <1>1, <2>1, <2>2 DEF Submit, ProtocolOf, StateTypeOK, Threads
  <2>3. CASE i # j
    <3>1. Untouched(i) /\ enforcing'[i] = enforcing[i]
      BY <1>1, <2>1, <2>3 DEF Submit, Untouched, StateTypeOK, Threads
    <3>2. QED
      BY <1>0, <2>1, <3>1, ProtocolFrame
  <2>4. QED
    BY <2>2, <2>3
<1>2. ASSUME NEW j \in Jobs, i # j, JobStep(j) PROVE ProtocolOf(i)'
  <2>1. Untouched(i) /\ grants \subseteq grants' /\ enforcing' = enforcing /\ pmode' = pmode
    BY <1>2, OthersUntouched
  <2>2. QED
    BY <1>0, <2>1, ProtocolFrame
<1>3. ASSUME JobStep(i) PROVE ProtocolOf(i)'
  <2>1. /\ grants \subseteq grants' /\ event' = event /\ enforcing' = enforcing
        /\ pmode' = pmode
    BY <1>3, OthersUntouched
  <2>2. Licensed(i) => Licensed(i)'
    BY <2>1 DEF Licensed, Cleared
  <2>3. event[i] \in Events
    BY DEF StateTypeOK
  <2> USE <1>0, <2>1, <2>2 DEF ProtocolOf, StateTypeOK, Threads
  <2>4. ASSUME Route(i) PROVE ProtocolOf(i)'
    <3>1. PICK s \in {"gate", "done"} :
            /\ s = "gate" => Routed(event[i], pmode) = "enforce"
            /\ pc' = [pc EXCEPT !["enforce"][i] = s]
      BY <2>4 DEF Route
    <3>2. s = "gate" => event[i].action = "enforce" /\ event[i].attributed
                         /\ pmode = "enforce"
      BY <2>3, <3>1, EventFields DEF Routed, Modes, Actions
    <3>3. QED
      BY <2>4, <3>1, <3>2 DEF Route
  <2>5. ASSUME Gate(i) PROVE ProtocolOf(i)'
    <3>1. PICK s \in {"allow", "record"} :
            /\ s = "allow" => Refusal(event[i], rmode) = "none"
            /\ pc' = [pc EXCEPT !["enforce"][i] = s]
      BY <2>5 DEF Gate
    <3>2. s = "allow" => event[i].attributed /\ event[i].ns \notin Protected
                          /\ event[i].pid \notin Untouchable \cup {Agent}
                          /\ event[i].ppid # Agent
      BY <2>3, <3>1, EventFields DEF Refusal
    <3>3. QED
      BY <2>5, <3>1, <3>2 DEF Gate, Cleared
  <2>6. ASSUME RateLimited(i) PROVE ProtocolOf(i)'
    BY <2>6 DEF RateLimited
  <2>7. ASSUME Permit(i) PROVE ProtocolOf(i)'
    <3>1. PICK s \in {"record", "term", "kill"} :
            /\ s # "record" => event[i].ns # NoNamespace
            /\ pc' = [pc EXCEPT !["enforce"][i] = s]
      BY <2>7 DEF Permit
    <3>2. \E g \in grants' : g.req = i /\ g.key = event[i].key
      <4>1. [req |-> i, key |-> event[i].key, at |-> now,
             win |-> Counted(event[i].key).resetAt] \in grants'
        BY <2>7 DEF Permit, Allow
      <4>2. QED
        BY <4>1
    <3>3. s # "record" => Licensed(i)'
      BY <2>7, <3>1, <3>2 DEF Permit, Licensed
    <3>4. QED
      BY <2>7, <3>1, <3>3 DEF Permit
  <2>8. ASSUME Term(i) PROVE ProtocolOf(i)'
    <3>1. CASE Deliver("enforce", i, "TERM")
               /\ pc' = [pc EXCEPT !["enforce"][i] = "record", !["escalate"][i] = "grace"]
      BY <2>8, <3>1 DEF Term, Deliver
    <3>2. CASE UNCHANGED hits /\ pc' = [pc EXCEPT !["enforce"][i] = "kill"]
      BY <2>8, <3>2 DEF Term
    <3>3. QED
      BY <2>8, <3>1, <3>2 DEF Term
  <2>9. ASSUME Wake(i) PROVE ProtocolOf(i)'
    <3>1. PICK s \in {"kill", "done"} : pc' = [pc EXCEPT !["escalate"][i] = s]
      BY <2>9 DEF Wake
    <3>2. QED
      BY <2>9, <3>1 DEF Wake
  <2>10. ASSUME NEW t \in Threads, Kill(t, i) PROVE ProtocolOf(i)'
    <3>1. Licensed(i)
      BY <2>10 DEF Kill
    <3>2. PICK s \in {"confirm", "record"} : pc' = [pc EXCEPT ![t][i] = s]
      BY <2>10 DEF Kill
    <3>3. QED
      BY <2>10, <3>1, <3>2 DEF Kill
  <2>11. ASSUME NEW t \in Threads, Confirm(t, i) \/ Record(t, i) PROVE ProtocolOf(i)'
    <3>1. PICK s \in {"record", "done"} : pc' = [pc EXCEPT ![t][i] = s]
      BY <2>11 DEF Confirm, Record
    <3>2. UNCHANGED hits /\ pc[t][i] \in {"confirm", "record"}
      BY <2>11 DEF Confirm, Record
    <3>3. QED
      BY <3>1, <3>2
  <2>12. QED
    BY <1>3, <2>4, <2>5, <2>6, <2>7, <2>8, <2>9, <2>10, <2>11 DEF JobStep
<1>4. ASSUME Outside PROVE ProtocolOf(i)'
  <2>1. Untouched(i) /\ grants' = grants
    BY <1>4, OutsideFrame DEF jobVars, Untouched
  <2>2. /\ enforcing[i] => enforcing'[i]
        /\ pmode' = "enforce" => pmode = "enforce" \/ enforcing'[i]
    <3>1. CASE \E m \in Modes : SetMode(m)
      BY <3>1 DEF SetMode
    <3>2. CASE enforcing' = enforcing /\ pmode' = pmode
      BY <3>2
    <3>3. QED
      BY <1>4, <3>1, <3>2 DEF Outside, ApplyPolicy, SetModeOfActor, Kernel, Exit, Reap,
                              Spawn, Elapse, vars
  <2>3. QED
    BY <1>0, <2>1, <2>2, ProtocolFrame
<1>5. QED
  BY <1>1, <1>2, <1>3, <1>4, NextSplit

-----------------------------------------------------------------------------
(* The audit log and what it says of kills *)

(* No process that has been hit by h is running any more.                  *)
Dead(j, h) == proc[Pid(j)].gen = h.gen => proc[Pid(j)].st = "gone"

(* A thread that has signalled is between its signal and its record, and   *)
(* knows how its kill went; only a thread that is done has a record, one   *)
(* at most.                                                                *)
AuditOf(t, j) ==
  /\ pc[t][j] = "confirm" => hits[t][j] # {}
  /\ hits[t][j] # {} => pc[t][j] \in {"confirm", "record", "done"}
  /\ pc[t][j] = "record" /\ hits[t][j] # {} =>
       reason[t][j] \in {"sigterm_delivered", "killed", "kill_failed"}
  /\ pc[t][j] = "record" /\ reason[t][j] = "killed" =>
       hits[t][j] # {} /\ \A h \in hits[t][j] : Dead(j, h)
  /\ \A h \in hits[t][j] : h.gen <= proc[Pid(j)].gen
  /\ pc[t][j] = "done" /\ hits[t][j] # {} =>
       \E a \in audit : a.by = t /\ a.job = j
  /\ \A a \in audit : a.by = t /\ a.job = j =>
       /\ pc[t][j] = "done"
       /\ hits[t][j] # {} => a.reason \in {"sigterm_delivered", "killed", "kill_failed"}
       /\ a.reason = "killed" => hits[t][j] # {} /\ \A h \in hits[t][j] : Dead(j, h)
       /\ \A b \in audit : b.by = t /\ b.job = j => b = a

AuditInv == \A t \in Threads, i \in Jobs : AuditOf(t, i)

(* A PID's process never comes back: the next one has a higher generation. *)
LEMMA ProcForward ==
  ASSUME StateTypeOK, [Next]_vars, NEW p \in Pids
  PROVE  /\ proc[p].gen \in Nat /\ proc'[p].gen \in Nat
         /\ proc[p].gen <= proc'[p].gen
         /\ proc'[p].gen = proc[p].gen =>
              /\ proc'[p].ns = proc[p].ns
              /\ proc[p].st = "gone" => proc'[p].st = "gone"
<1> DEFINE Goal == /\ proc[p].gen <= proc'[p].gen
                   /\ proc'[p].gen = proc[p].gen =>
                        /\ proc'[p].ns = proc[p].ns
                        /\ proc[p].st = "gone" => proc'[p].st = "gone"
<1>1. proc[p] \in Process /\ proc'[p] \in Process
  BY TypeStep DEF StateTypeOK
<1>2. proc[p].gen \in Nat /\ proc'[p].gen \in Nat
  BY <1>1 DEF Process
<1>3. ASSUME UNCHANGED proc PROVE Goal
  BY <1>2, <1>3
<1>4. ASSUME NEW q \in Pids, proc[q].st # "gone",
             Becomes(q, "zombie") \/ Becomes(q, "gone")
      PROVE  Goal
  <2>1. PICK s \in {"zombie", "gone"} :
          proc' = [proc EXCEPT ![q] = [gen |-> proc[q].gen, st |-> s, ns |-> proc[q].ns]]
    BY <1>4 DEF Becomes
  <2>2. CASE p = q
    BY <1>2, <1>4, <2>1, <2>2 DEF StateTypeOK
  <2>3. CASE p # q
    BY <1>2, <2>1, <2>3 DEF StateTypeOK
  <2>4. QED
    BY <2>2, <2>3
<1>5. ASSUME NEW t \in Threads, NEW j \in Jobs, Kill(t, j) PROVE Goal
  <2>1. Pid(j) \in Pids
    BY EventFields DEF Pid, StateTypeOK
  <2>2. QED
    BY <1>3, <1>4, <1>5, <2>1 DEF Kill, Exists
<1>6. ASSUME NEW q \in Pids, Exit(q) \/ Reap(q) PROVE Goal
  BY <1>4, <1>6 DEF Exit, Reap
<1>7. ASSUME NEW q \in Pids, Spawn(q) PROVE Goal
  BY <1>1, <1>2, <1>7 DEF Spawn, StateTypeOK, Process
<1>8. Goal
  BY <1>3, <1>5, <1>6, <1>7 DEF Next, JobStep, Kernel, Elapse, Submit, Route, Gate,
     RateLimited, Permit, Term, Wake, Confirm, Record, SetMode, SetModeOfActor, ApplyPolicy,
     jobVars, vars
<1>9. QED
  BY <1>2, <1>8

(* A thread that an action does not touch keeps its place in the audit.    *)
Same(t, i) ==
  /\ pc'[t][i] = pc[t][i] /\ hits'[t][i] = hits[t][i] /\ reason'[t][i] = reason[t][i]
  /\ event'[i] = event[i]
  /\ \A a : a.by = t /\ a.job = i => (a \in audit' <=> a \in audit)

LEMMA AuditFrame ==
  ASSUME StateTypeOK, [Next]_vars, NEW t \in Threads, NEW i \in Jobs, AuditOf(t, i),
         Same(t, i)
  PROVE  AuditOf(t, i)'
<1>1. /\ pc'[t][i] = pc[t][i] /\ hits'[t][i] = hits[t][i] /\ reason'[t][i] = reason[t][i]
      /\ event'[i] = event[i]
      /\ \A a : a.by = t /\ a.job = i => (a \in audit' <=> a \in audit)
  BY DEF Same
<1>2. Pid(i)' = Pid(i) /\ Pid(i) \in Pids
  BY <1>1, EventFields DEF Pid, StateTypeOK
<1>3. \A h \in hits[t][i] : h.gen \in Nat
  BY EnforcementAssumption DEF StateTypeOK, Hit
<1>4. \A h \in hits[t][i] : /\ h.gen <= proc'[Pid(i)].gen
                            /\ Dead(i, h) => Dead(i, h)'
  BY <1>2, <1>3, ProcForward DEF AuditOf, Dead
<1>5. (\A h \in hits[t][i] : Dead(i, h)) => \A h \in hits'[t][i] : Dead(i, h)'
  BY <1>1, <1>4
<1>6. /\ pc'[t][i] = "confirm" => hits'[t][i] # {}
      /\ hits'[t][i] # {} => pc'[t][i] \in {"confirm", "record", "done"}
      /\ pc'[t][i] = "record" /\ hits'[t][i] # {} =>
           reason'[t][i] \in {"sigterm_delivered", "killed", "kill_failed"}
      /\ pc'[t][i] = "record" /\ reason'[t][i] = "killed" =>
           hits'[t][i] # {} /\ \A h \in hits'[t][i] : Dead(i, h)'
      /\ \A h \in hits'[t][i] : h.gen <= proc'[Pid(i)].gen
  BY <1>1, <1>4, <1>5 DEF AuditOf
<1>7. pc'[t][i] = "done" /\ hits'[t][i] # {} =>
        \E a \in audit' : a.by = t /\ a.job = i
  BY <1>1 DEF AuditOf
<1>8. ASSUME NEW a \in audit', a.by = t, a.job = i
      PROVE  /\ pc'[t][i] = "done"
             /\ hits'[t][i] # {} => a.reason \in {"sigterm_delivered", "killed", "kill_failed"}
             /\ a.reason = "killed" => hits'[t][i] # {} /\ \A h \in hits'[t][i] : Dead(i, h)'
             /\ \A b \in audit' : b.by = t /\ b.job = i => b = a
  BY <1>1, <1>5, <1>8 DEF AuditOf
<1>9. QED
  BY <1>2, <1>6, <1>7, <1>8 DEF AuditOf

(* A thread that has signalled nothing and has no record has nothing to    *)
(* account for, wherever it goes.                                          *)
LEMMA AuditFresh ==
  ASSUME NEW t \in Threads, NEW i \in Jobs, AuditOf(t, i), pc[t][i] \notin {"record", "done"},
         hits[t][i] = {}, hits' = hits, audit' = audit,
         pc'[t][i] # "confirm", pc'[t][i] = "record" => reason'[t][i] # "killed"
  PROVE  AuditOf(t, i)'
<1>1. hits'[t][i] = {}
  OBVIOUS
<1>2. \A a \in audit' : ~(a.by = t /\ a.job = i)
  BY DEF AuditOf
<1>3. QED
  BY <1>1, <1>2 DEF AuditOf

(* Every step keeps the audit in order.                                    *)
LEMMA AuditStep ==
  StateTypeOK /\ ProtocolInv /\ AuditInv /\ [Next]_vars => AuditInv'
<1> SUFFICES ASSUME StateTypeOK, ProtocolInv, AuditInv, [Next]_vars,
                    NEW t \in Threads, NEW i \in Jobs
             PROVE  AuditOf(t, i)'
  BY DEF AuditInv
<1>0. AuditOf(t, i) /\ ProtocolOf(i)
  BY DEF AuditInv, ProtocolInv
<1>1. ASSUME Same(t, i) PROVE AuditOf(t, i)'
  BY <1>0, <1>1, AuditFrame
<1>2. ASSUME Untouched(i) PROVE AuditOf(t, i)'
  BY <1>1, <1>2 DEF Untouched, Same, Threads
<1>3. ASSUME hits' = hits, audit' = audit, pc[t][i] \notin {"confirm", "record", "done"},
             pc'[t][i] # "confirm", pc'[t][i] = "record" => reason'[t][i] # "killed"
      PROVE  AuditOf(t, i)'
  BY <1>0, <1>3, AuditFresh DEF AuditOf
<1>4. ASSUME NEW j \in Jobs, Submit(j) PROVE AuditOf(t, i)'
  <2>1. hits' = hits /\ audit' = audit /\ reason' = reason
    BY <1>4 DEF Submit
  <2>2. CASE i = j
    <3>1. /\ pc[t][i] = "idle" /\ pc'[t][i] \in {"idle", "route"}
      BY <1>0, <1>4, <2>2 DEF Submit, ProtocolOf, StateTypeOK, Threads
    <3>2. QED
      BY <1>3, <2>1, <3>1
  <2>3. CASE i # j
    <3>1. Same(t, i)
      BY <1>4, <2>1, <2>3 DEF Submit, Same, StateTypeOK, Threads
    <3>2. QED
      BY <1>1, <3>1
  <2>4. QED
    BY <2>2, <2>3
<1>5. ASSUME NEW j \in Jobs, i # j, JobStep(j) PROVE AuditOf(t, i)'
  BY <1>2, <1>5, OthersUntouched
<1>6. ASSUME JobStep(i) PROVE AuditOf(t, i)'
  <2>1. event' = event
    BY <1>6, OthersUntouched
  <2> USE DEF StateTypeOK
  <2>2. ASSUME Route(i) \/ Gate(i) \/ RateLimited(i) \/ Permit(i) PROVE AuditOf(t, i)'
    <3>1. hits' = hits /\ audit' = audit
      BY <2>2 DEF Route, Gate, RateLimited, Permit
    <3>2. PICK s \in {"done", "allow", "record", "term", "kill", "gate"} :
            pc' = [pc EXCEPT !["enforce"][i] = s]
      BY <2>2 DEF Route, Gate, RateLimited, Permit
    <3> DEFINE Told == /\ reason'["escalate"][i] = reason["escalate"][i]
                       /\ pc'["enforce"][i] = "record" => reason'["enforce"][i] # "killed"
    <3>3. Told
      <4>1. ASSUME Route(i) PROVE Told
        <5>1. \E r \in {"gate", "done"} : pc' = [pc EXCEPT !["enforce"][i] = r]
          BY <4>1 DEF Route
        <5>2. pc'["enforce"][i] # "record"
          BY <5>1 DEF Threads
        <5>3. QED
          BY <4>1, <5>2 DEF Route
      <4>2. ASSUME Gate(i) PROVE Told
        <5>1. Refusal(event[i], rmode) # "killed"
          BY DEF Refusal
        <5>2. QED
          BY <4>2, <5>1 DEF Gate, Threads
      <4>3. ASSUME RateLimited(i) PROVE Told
        BY <4>3 DEF RateLimited, Threads
      <4>4. ASSUME Permit(i) PROVE Told
        BY <4>4 DEF Permit, Threads
      <4>5. QED
        BY <2>2, <4>1, <4>2, <4>3, <4>4
    <3>4. pc["enforce"][i] \in {"route", "gate", "allow"}
      BY <2>2 DEF Route, Gate, RateLimited, Permit
    <3>5. CASE t = "enforce"
      <4>1. pc'[t][i] = s
        BY <3>2, <3>5
      <4>2. QED
        BY <1>3, <3>1, <3>3, <3>4, <3>5, <4>1
    <3>6. CASE t = "escalate"
      <4>1. pc'[t][i] = pc[t][i] /\ reason'[t][i] = reason[t][i]
        BY <3>2, <3>3, <3>6
      <4>2. QED
        BY <1>1, <2>1, <3>1, <4>1 DEF Same
    <3>7. QED
      BY <3>5, <3>6 DEF Threads
  <2>3. ASSUME Term(i) PROVE AuditOf(t, i)'
    <3>1. /\ audit' = audit /\ pc["enforce"][i] = "term" /\ proc' = proc
          /\ pc["escalate"][i] = "idle"
      BY <1>0, <2>3 DEF Term, ProtocolOf
    <3>2. hits[t][i] = {} /\ \A a \in audit : ~(a.by = t /\ a.job = i)
      BY <1>0, <3>1 DEF AuditOf, Threads
    <3>3. CASE UNCHANGED <<hits, reason>> /\ pc' = [pc EXCEPT !["enforce"][i] = "kill"]
      BY <1>3, <3>1, <3>3 DEF Threads
    <3>4. CASE /\ Deliver("enforce", i, "TERM")
               /\ reason' = [reason EXCEPT !["enforce"][i] = "sigterm_delivered"]
               /\ pc' = [pc EXCEPT !["enforce"][i] = "record", !["escalate"][i] = "grace"]
      <4> DEFINE h0 == [sig |-> "TERM", gen |-> proc[Pid(i)].gen, ns |-> proc[Pid(i)].ns]
      <4>1. CASE t = "enforce"
        <5>1. hits'[t][i] = {h0} /\ reason'[t][i] = "sigterm_delivered" /\ pc'[t][i] = "record"
          BY <3>2, <3>4, <4>1 DEF Deliver, Threads
        <5>2. proc[Pid(i)].gen <= proc[Pid(i)].gen
          BY EventFields, EnforcementAssumption DEF Pid, Process
        <5>3. Pid(i)' = Pid(i)
          BY <2>1 DEF Pid
        <5>4. QED
          BY <3>1, <3>2, <5>1, <5>2, <5>3 DEF AuditOf
      <4>2. CASE t = "escalate"
        <5>1. hits'[t][i] = {} /\ pc'[t][i] = "grace"
          BY <3>2, <3>4, <4>2 DEF Deliver, Threads
        <5>2. QED
          BY <3>1, <3>2, <5>1 DEF AuditOf
      <4>3. QED
        BY <4>1, <4>2 DEF Threads
    <3>5. QED
      BY <2>3, <3>3, <3>4 DEF Term
  <2>4. ASSUME Wake(i) PROVE AuditOf(t, i)'
    <3>1. /\ hits' = hits /\ audit' = audit /\ reason' = reason
          /\ pc["escalate"][i] = "grace"
      BY <2>4 DEF Wake
    <3>2. PICK s \in {"kill", "done"} : pc' = [pc EXCEPT !["escalate"][i] = s]
      BY <2>4 DEF Wake
    <3>3. CASE t = "escalate"
      BY <1>3, <3>1, <3>2, <3>3
    <3>4. CASE t = "enforce"
      BY <1>1, <2>1, <3>1, <3>2, <3>4 DEF Same
    <3>5. QED
      BY <3>3, <3>4 DEF Threads
  <2>5. ASSUME NEW u \in Threads, u # t, Kill(u, i) \/ Confirm(u, i) \/ Record(u, i)
        PROVE  AuditOf(t, i)'
    <3>1. /\ pc'[t][i] = pc[t][i] /\ hits'[t][i] = hits[t][i] /\ reason'[t][i] = reason[t][i]
      BY <2>5 DEF Kill, Confirm, Record, Deliver
    <3>2. \A a : a.by = t /\ a.job = i => (a \in audit' <=> a \in audit)
      BY <2>5 DEF Kill, Confirm, Record
    <3>3. QED
      BY <1>1, <2>1, <3>1, <3>2 DEF Same
  <2>6. ASSUME Kill(t, i) PROVE AuditOf(t, i)'
    <3>1. audit' = audit /\ pc[t][i] = "kill"
      BY <2>6 DEF Kill
    <3>2. hits[t][i] = {} /\ \A a \in audit : ~(a.by = t /\ a.job = i)
      BY <1>0, <3>1 DEF AuditOf
    <3>3. CASE /\ UNCHANGED hits /\ reason' = [reason EXCEPT ![t][i] = "kill_failed"]
               /\ pc' = [pc EXCEPT ![t][i] = "record"]
      BY <1>3, <3>1, <3>3
    <3>4. CASE /\ Deliver(t, i, "KILL") /\ Becomes(Pid(i), "zombie")
               /\ pc' = [pc EXCEPT ![t][i] = "confirm"]
      <4> DEFINE h0 == [sig |-> "KILL", gen |-> proc[Pid(i)].gen, ns |-> proc[Pid(i)].ns]
      <4>1. hits'[t][i] = {h0} /\ pc'[t][i] = "confirm"
        BY <3>2, <3>4 DEF Deliver
      <4>2. Pid(i)' = Pid(i) /\ Pid(i) \in Pids
        BY <2>1, EventFields DEF Pid
      <4>3. proc'[Pid(i)].gen = proc[Pid(i)].gen /\ proc[Pid(i)].gen \in Nat
        BY <3>4, <4>2, EnforcementAssumption DEF Becomes, Process
      <4>4. QED
        BY <3>1, <3>2, <4>1, <4>2, <4>3 DEF AuditOf
    <3>5. QED
      BY <2>6, <3>3, <3>4 DEF Kill
  <2>7. ASSUME Confirm(t, i) PROVE AuditOf(t, i)'
    <3>1. /\ hits' = hits /\ audit' = audit /\ proc' = proc
          /\ pc[t][i] = "confirm" /\ pc'[t][i] = "record"
          /\ reason'[t][i] = IF Exists(Pid(i)) THEN "kill_failed" ELSE "killed"
      BY <2>7 DEF Confirm
    <3>2. /\ hits[t][i] # {} /\ \A a \in audit : ~(a.by = t /\ a.job = i)
          /\ \A h \in hits[t][i] : h.gen <= proc[Pid(i)].gen
      BY <1>0, <3>1 DEF AuditOf
    <3>3. reason'[t][i] = "killed" => \A h \in hits'[t][i] : Dead(i, h)'
      BY <2>1, <3>1 DEF Dead, Pid, Exists
    <3>4. reason'[t][i] \in {"sigterm_delivered", "killed", "kill_failed"}
      BY <3>1
    <3>5. Pid(i)' = Pid(i)
      BY <2>1 DEF Pid
    <3>6. QED
      BY <3>1, <3>2, <3>3, <3>4, <3>5 DEF AuditOf
  <2>8. ASSUME Record(t, i) PROVE AuditOf(t, i)'
    <3> DEFINE a0 == [by |-> t, job |-> i, reason |-> reason[t][i]]
    <3>1. /\ hits' = hits /\ audit' = audit \cup {a0} /\ proc' = proc
          /\ pc[t][i] = "record" /\ pc'[t][i] = "done"
      BY <2>8 DEF Record
    <3>2. \A a \in audit' : a.by = t /\ a.job = i => a = a0
      BY <1>0, <3>1 DEF AuditOf
    <3>3. /\ hits[t][i] # {} =>
               reason[t][i] \in {"sigterm_delivered", "killed", "kill_failed"}
          /\ reason[t][i] = "killed" => hits[t][i] # {} /\ \A h \in hits[t][i] : Dead(i, h)
          /\ \A h \in hits[t][i] : h.gen <= proc[Pid(i)].gen
      BY <1>0, <3>1 DEF AuditOf
    <3>4. Pid(i)' = Pid(i) /\ \A h : Dead(i, h)' <=> Dead(i, h)
      BY <2>1, <3>1 DEF Pid, Dead
    <3>5. a0 \in audit' /\ a0.by = t /\ a0.job = i /\ a0.reason = reason[t][i]
      BY <3>1
    <3>6. QED
      BY <3>1, <3>2, <3>3, <3>4, <3>5 DEF AuditOf
  <2>9. QED
    BY <1>6, <2>2, <2>3, <2>4, <2>5, <2>6, <2>7, <2>8 DEF JobStep
<1>7. ASSUME Outside PROVE AuditOf(t, i)'
  BY <1>1, <1>7, OutsideFrame DEF jobVars, Same
<1>8. QED
  BY <1>4, <1>5, <1>6, <1>7, NextSplit

-----------------------------------------------------------------------------
(* Victims *)

(* While the PID belongs to the process that the event is attributed to,   *)
(* the event carries a label of its namespace; and so it was when a        *)
(* process was hit under that generation of the PID.                       *)
VictimOf(j) ==
  /\ pc["enforce"][j] # "idle" =>
       /\ seen[j] <= proc[Pid(j)].gen
       /\ proc[Pid(j)].gen = seen[j] => event[j].ns \in Labels[proc[Pid(j)].ns]
  /\ \A t \in Threads : \A h \in hits[t][j] : h.gen = seen[j] => event[j].ns \in Labels[h.ns]

VictimInv == \A j \in Jobs : VictimOf(j)

(* Every step keeps that.                                                  *)
LEMMA VictimStep ==
  StateTypeOK /\ ProtocolInv /\ VictimInv /\ [Next]_vars => VictimInv'
<1> SUFFICES ASSUME StateTypeOK, ProtocolInv, VictimInv, [Next]_vars, NEW i \in Jobs
             PROVE  VictimOf(i)'
  BY DEF VictimInv
<1>0. /\ VictimOf(i) /\ ProtocolOf(i) /\ Pid(i) \in Pids /\ seen[i] \in Nat
  BY EventFields, EnforcementAssumption DEF VictimInv, ProtocolInv, Pid, StateTypeOK
<1>1. /\ proc[Pid(i)].gen \in Nat /\ proc'[Pid(i)].gen \in Nat
      /\ proc[Pid(i)].gen <= proc'[Pid(i)].gen
      /\ proc'[Pid(i)].gen = proc[Pid(i)].gen => proc'[Pid(i)].ns = proc[Pid(i)].ns
  BY <1>0, ProcForward
<1>2. ASSUME event'[i] = event[i], seen'[i] = seen[i],
             pc["enforce"][i] = "idle" => pc'["enforce"][i] = "idle"
      PROVE  /\ Pid(i)' = Pid(i)
             /\ pc'["enforce"][i] # "idle" =>
                  /\ seen'[i] <= proc'[Pid(i)].gen
                  /\ proc'[Pid(i)].gen = seen'[i] =>
                       event'[i].ns \in Labels[proc'[Pid(i)].ns]
  BY <1>0, <1>1, <1>2 DEF VictimOf, Pid
<1>3. ASSUME event'[i] = event[i], seen'[i] = seen[i],
             pc["enforce"][i] = "idle" => pc'["enforce"][i] = "idle",
             \A t \in Threads : hits'[t][i] = hits[t][i]
      PROVE  VictimOf(i)'
  BY <1>0, <1>2, <1>3 DEF VictimOf
<1>4. ASSUME NEW j \in Jobs, Submit(j) PROVE VictimOf(i)'
  <2>1. hits' = hits /\ proc' = proc
    BY <1>4 DEF Submit
  <2>2. CASE i = j
    <3>1. PICK e \in Events : \E from \in 0 .. proc[e.pid].gen :
            /\ from = proc[e.pid].gen => e.ns \in Labels[proc[e.pid].ns]
            /\ event' = [event EXCEPT ![i] = e]
            /\ seen' = [seen EXCEPT ![i] = from]
      BY <1>4, <2>2 DEF Submit
    <3>2. /\ event'[i] = e
          /\ seen'[i] = proc[e.pid].gen => e.ns \in Labels[proc[e.pid].ns]
          /\ seen'[i] \in 0 .. proc[e.pid].gen
      BY <3>1 DEF StateTypeOK
    <3>3. \A t \in Threads : hits'[t][i] = {}
      BY <1>0, <1>4, <2>1, <2>2 DEF Submit, ProtocolOf, Threads
    <3>4. seen'[i] <= proc[e.pid].gen
      <4>1. proc[e.pid].gen \in Nat
        BY EventFields, EnforcementAssumption DEF StateTypeOK, Process
      <4>2. QED
        BY <3>2, <4>1
    <3>5. Pid(i)' = e.pid
      BY <3>2 DEF Pid
    <3>6. QED
      BY <2>1, <3>1, <3>2, <3>3, <3>4, <3>5 DEF VictimOf
  <2>3. CASE i # j
    <3>1. event'[i] = event[i] /\ seen'[i] = seen[i] /\ pc'["enforce"][i] = pc["enforce"][i]
      BY <1>4, <2>3 DEF Submit, StateTypeOK, Threads
    <3>2. QED
      BY <1>3, <2>1, <3>1
  <2>4. QED
    BY <2>2, <2>3
<1>5. ASSUME NEW j \in Jobs, JobStep(j) PROVE seen' = seen /\ event' = event
  BY <1>5, OthersUntouched DEF JobStep, Route, Gate, RateLimited, Permit, Term, Wake, Kill,
     Confirm, Record
<1>6. ASSUME NEW j \in Jobs, i # j, JobStep(j) PROVE VictimOf(i)'
  <2>1. Untouched(i)
    BY <1>6, OthersUntouched
  <2>2. QED
    BY <1>3, <1>5, <1>6, <2>1 DEF Untouched, Threads
<1>7. ASSUME JobStep(i), UNCHANGED hits PROVE VictimOf(i)'
  <2>1. pc["enforce"][i] # "idle"
    BY <1>0, <1>7 DEF JobStep, Route, Gate, RateLimited, Permit, Term, Wake, Kill, Confirm,
       Record, ProtocolOf, Threads
  <2>2. QED
    BY <1>3, <1>5, <1>7, <2>1
<1>8. ASSUME NEW t \in Threads, NEW sig, Term(i) \/ Kill(t, i), Deliver(t, i, sig),
             pc[t][i] \in {"term", "kill"}
      PROVE  VictimOf(i)'
  <2> DEFINE h0 == [sig |-> sig, gen |-> proc[Pid(i)].gen, ns |-> proc[Pid(i)].ns]
  <2>1. \A u \in Threads : \A h \in hits'[u][i] : h = h0 \/ h \in hits[u][i]
    BY <1>8 DEF Deliver, StateTypeOK
  <2>2. event[i].ns # NoNamespace /\ pc["enforce"][i] # "idle"
    BY <1>0, <1>8 DEF ProtocolOf, Licensed, Threads
  <2>3. h0.gen = seen[i] => event[i].ns \in Labels[h0.ns]
    BY <1>0, <2>2 DEF VictimOf
  <2>4. seen' = seen /\ event' = event
    BY <1>5, <1>8 DEF JobStep
  <2>5. QED
    BY <1>0, <1>2, <2>1, <2>2, <2>3, <2>4 DEF VictimOf
<1>9. ASSUME JobStep(i) PROVE VictimOf(i)'
  <2>1. ASSUME Term(i) PROVE VictimOf(i)'
    BY <1>7, <1>8, <1>9, <2>1 DEF Term, Threads
  <2>2. ASSUME NEW t \in Threads, Kill(t, i) PROVE VictimOf(i)'
    BY <1>7, <1>8, <1>9, <2>2 DEF Kill
  <2>3. QED
    BY <1>7, <1>9, <2>1, <2>2 DEF JobStep, Route, Gate, RateLimited, Permit, Wake, Confirm,
       Record
<1>10. ASSUME Outside PROVE VictimOf(i)'
  BY <1>3, <1>10, OutsideFrame DEF jobVars
<1>11. QED
  BY <1>4, <1>6, <1>9, <1>10, NextSplit

-----------------------------------------------------------------------------
(* The invariant, and what follows from it *)

IInv == StateTypeOK /\ RateInv /\ ProtocolInv /\ AuditInv /\ VictimInv

LEMMA InitInv == Init => IInv
<1> SUFFICES ASSUME Init PROVE IInv
  OBVIOUS
<1>1. RateInv
  BY RateInitInv DEF Init
<1>2. StateTypeOK
  <2>1. proc \in [Pids -> Process] /\ (CHOOSE e \in Events : TRUE) \in Events
    BY EnforcementAssumption DEF Init
  <2>2. QED
    BY <2>1, EnforcementAssumption DEF Init, StateTypeOK, Modes, Threads, Steps, Reasons
<1>3. ProtocolInv
  BY DEF Init, ProtocolInv, ProtocolOf, Threads
<1>4. AuditInv
  BY DEF Init, AuditInv, AuditOf
<1>5. VictimInv
  BY DEF Init, VictimInv, VictimOf, Threads
<1>6. QED
  BY <1>1, <1>2, <1>3, <1>4, <1>5 DEF IInv

LEMMA TypeParts == StateTypeOK /\ RateInv => TypeOK
  BY DEF StateTypeOK, RateInv, TypeOK

LEMMA InvStep == IInv /\ [Next]_vars => IInv'
<1> SUFFICES ASSUME IInv, [Next]_vars PROVE IInv'
  OBVIOUS
<1>1. StateTypeOK'
  BY TypeStep DEF IInv
<1>2. RateInv'
  BY StepIsRateStep, TypeParts, RateStep DEF IInv
<1>3. ProtocolInv' /\ AuditInv' /\ VictimInv'
  BY ProtocolStep, AuditStep, VictimStep DEF IInv
<1>4. QED
  BY <1>1, <1>2, <1>3 DEF IInv

LEMMA Invariance == Spec => []IInv
  BY InitInv, InvStep, PTL DEF Spec

(* Every variable keeps its type (Pipeline, ResponseActor, RateLimiter,    *)
(* AuditLog).                                                              *)
THEOREM TypeCorrect == Spec => []TypeOK
<1>1. IInv => TypeOK
  BY TypeParts DEF IInv
<1>2. QED
  BY <1>1, Invariance, PTL

(* No signal bypasses a rule of the safety protocol (Enforce).             *)
THEOREM ProtocolHolds == Spec => []SafetyProtocol
<1>1. IInv => SafetyProtocol
  BY DEF IInv, ProtocolInv, ProtocolOf, Licensed, SafetyProtocol, Threads
<1>2. QED
  BY <1>1, Invariance, PTL

(* No signal without enforce mode (routeDecision, SetMode, ApplyPolicy).   *)
THEOREM OnlyInEnforce == Spec => []NeverOutsideEnforce
<1>1. IInv => NeverOutsideEnforce
  BY DEF IInv, ProtocolInv, ProtocolOf, Licensed, NeverOutsideEnforce, Threads
<1>2. QED
  BY <1>1, Invariance, PTL

(* A process that enrichment labels rightly, of a protected namespace or   *)
(* of none, is hit only through PID reuse (rules 3 and 7, sendSIGTERM,     *)
(* sendSIGKILL).                                                           *)
THEOREM VictimsOnlyByReuse == Spec => []WrongVictimOnlyByReuse
<1>1. ASSUME IInv, NEW t \in Threads, NEW j \in Jobs, NEW h \in hits[t][j],
             Labels[h.ns] \subseteq Protected \cup {NoNamespace}, h.gen = seen[j]
      PROVE  FALSE
  <2>1. Cleared(event[j]) /\ event[j].ns # NoNamespace
    BY <1>1 DEF IInv, ProtocolInv, ProtocolOf, Licensed, Threads
  <2>2. event[j].ns \in Labels[h.ns]
    BY <1>1 DEF IInv, VictimInv, VictimOf
  <2>3. QED
    BY <1>1, <2>1, <2>2 DEF Cleared
<1>2. IInv => WrongVictimOnlyByReuse
  BY <1>1 DEF WrongVictimOnlyByReuse
<1>3. QED
  BY <1>2, Invariance, PTL

(* "killed" in the audit log is the truth (sendSIGKILL, Record).           *)
THEOREM KilledIsTrue == Spec => []KilledIsGone
<1>1. ASSUME IInv, NEW a \in audit, a.reason = "killed"
      PROVE  /\ hits[a.by][a.job] # {}
             /\ \A h \in hits[a.by][a.job] : Dead(a.job, h)
  <2>1. a.by \in Threads /\ a.job \in Jobs
    BY <1>1 DEF IInv, StateTypeOK, AuditRecord
  <2>2. QED
    BY <1>1, <2>1 DEF IInv, AuditInv, AuditOf
<1>2. IInv => KilledIsGone
  BY <1>1 DEF KilledIsGone, Dead
<1>3. QED
  BY <1>2, Invariance, PTL

(* Every signal is recorded, once (Enforce, executeGracefulKill, Record).  *)
THEOREM SignalsAudited == Spec => []EverySignalAudited
<1>1. ASSUME IInv, NEW t \in Threads, NEW j \in Jobs
      PROVE  LET mine == {a \in audit : a.by = t /\ a.job = j} IN
             /\ \A a, b \in mine : a = b
             /\ hits[t][j] # {} /\ mine = {} => pc[t][j] \in {"confirm", "record"}
             /\ hits[t][j] # {} =>
                  \A a \in mine : a.reason \in {"sigterm_delivered", "killed", "kill_failed"}
  <2>1. AuditOf(t, j)
    BY <1>1 DEF IInv, AuditInv
  <2>2. QED
    BY <2>1 DEF AuditOf
<1>2. IInv => EverySignalAudited
  BY <1>1 DEF EverySignalAudited
<1>3. QED
  BY <1>2, Invariance, PTL

(* The budget of kills per pod survives the pipeline's concurrency         *)
(* (RateLimiter.Allow under Enforce).                                      *)
THEOREM BudgetHolds == Spec => []SlidingBudget
<1>1. IInv => SlidingBudget
  BY IntervalBudget DEF IInv
<1>2. QED
  BY <1>1, Invariance, PTL

(* In simulate mode no new job comes near a signal (rule 2, SetMode).      *)
THEOREM SimulateModeDrains == Spec => SimulateDrains
<1>1. ASSUME StateTypeOK, [Next]_vars, rmode = "simulate", NEW i \in InFlight'
      PROVE  i \in InFlight
  <2>1. i \in Jobs
    BY <1>1 DEF InFlight
  <2>2. ASSUME Untouched(i) PROVE i \in InFlight
    BY <1>1, <2>2 DEF InFlight, Untouched
  <2>3. ASSUME NEW j \in Jobs, Submit(j) PROVE i \in InFlight
    <3>1. CASE i = j
      BY <1>1, <2>1, <2>3, <3>1 DEF Submit, InFlight, StateTypeOK, Threads
    <3>2. CASE i # j
      BY <1>1, <2>1, <2>3, <3>2 DEF Submit, InFlight, StateTypeOK, Threads
    <3>3. QED
      BY <3>1, <3>2
  <2>4. ASSUME NEW j \in Jobs, i # j, JobStep(j) PROVE i \in InFlight
    BY <1>1, <2>1, <2>2, <2>4, OthersUntouched
  <2>5. ASSUME JobStep(i), i \notin InFlight PROVE FALSE
    <3> USE <1>1, <2>1, <2>5 DEF InFlight, StateTypeOK, Threads
    <3>1. ASSUME Route(i) PROVE FALSE
      <4>1. PICK s \in {"gate", "done"} : pc' = [pc EXCEPT !["enforce"][i] = s]
        BY <3>1 DEF Route
      <4>2. QED
        BY <4>1
    <3>2. ASSUME Gate(i) PROVE FALSE
      <4>1. Refusal(event[i], rmode) # "none"
        BY DEF Refusal
      <4>2. pc' = [pc EXCEPT !["enforce"][i] = "record"]
        BY <3>2, <4>1 DEF Gate
      <4>3. QED
        BY <4>2
    <3>3. ASSUME NEW t \in Threads, Confirm(t, i) \/ Record(t, i) PROVE FALSE
      <4>1. PICK s \in {"record", "done"} : pc' = [pc EXCEPT ![t][i] = s]
        BY <3>3 DEF Confirm, Record
      <4>2. QED
        BY <4>1
    <3>4. QED
      BY <3>1, <3>2, <3>3 DEF JobStep, RateLimited, Permit, Term, Wake, Kill
  <2>6. ASSUME Outside PROVE i \in InFlight
    BY <1>1, <2>6, OutsideFrame DEF jobVars, InFlight
  <2>7. QED
    BY <1>1, <2>3, <2>4, <2>5, <2>6, NextSplit
<1>2. IInv /\ [Next]_vars => [rmode = "simulate" => InFlight' \subseteq InFlight]_vars
  BY <1>1 DEF IInv
<1>3. QED
  BY <1>2, Invariance, PTL DEF Spec, SimulateDrains

(* The enforcement path uses the limiter as the limiter expects it: what   *)
(* is proved of RateLimiter alone holds of it here (Allow, cleanup).       *)
THEOREM EnforcementRunsLimiter == Spec => RateSpec
<1>1. Init => RateInit
  BY DEF Init
<1>2. TypeOK /\ [Next]_vars => [RateNext]_rateVars
  BY StepIsRateStep
<1>3. QED
  BY <1>1, <1>2, TypeCorrect, PTL DEF Spec, RateSpec

-----------------------------------------------------------------------------
(* SIGTERM, and SIGKILL after it *)

(* The process that h names has its PID still, and runs.                   *)
Survives(j, h) == proc[Pid(j)].gen = h.gen /\ proc[Pid(j)].st = "alive"

(* A graceful kill is carried through: each thread of a job signals at     *)
(* most once; the escalation sends SIGKILL, and only after SIGTERM; and a  *)
(* process that got SIGTERM and runs on is one whose escalation is under   *)
(* way.  (executeGracefulKill; what TermIsFinal says of the end.)          *)
TermThenKill ==
  \A j \in Jobs :
    /\ \A t \in Threads : \A h, k \in hits[t][j] : h = k
    /\ \A k \in hits["escalate"][j] :
         k.sig = "KILL" /\ \E h \in hits["enforce"][j] : h.sig = "TERM" /\ h.gen <= k.gen
    /\ \A h \in hits["enforce"][j] :
         h.sig = "TERM" => pc["escalate"][j] \in {"grace", "kill"} \/ ~Survives(j, h)

(* That, and what the escalation goroutine was started for.                *)
FollowOf(j) ==
  /\ \A t \in Threads : \A h, k \in hits[t][j] : h = k
  /\ \A k \in hits["escalate"][j] :
       k.sig = "KILL" /\ \E h \in hits["enforce"][j] : h.sig = "TERM" /\ h.gen <= k.gen
  /\ \A h \in hits["enforce"][j] :
       h.sig = "TERM" => pc["escalate"][j] \in {"grace", "kill"} \/ ~Survives(j, h)
  /\ pc["escalate"][j] # "idle" => \E h \in hits["enforce"][j] : h.sig = "TERM"

FollowInv == \A j \in Jobs : FollowOf(j)

(* A process that does not run does not run again.                         *)
LEMMA ProcStaysDown ==
  ASSUME StateTypeOK, [Next]_vars, NEW p \in Pids, proc'[p].gen = proc[p].gen,
         proc[p].st # "alive"
  PROVE  proc'[p].st # "alive"
<1>1. proc[p] \in Process /\ proc[p].gen \in Nat
  BY EnforcementAssumption DEF StateTypeOK, Process
<1>2. ASSUME NEW q \in Pids, Becomes(q, "zombie") \/ Becomes(q, "gone")
      PROVE  proc'[p].st # "alive"
  <2>1. PICK s \in {"zombie", "gone"} :
          proc' = [proc EXCEPT ![q] = [gen |-> proc[q].gen, st |-> s, ns |-> proc[q].ns]]
    BY <1>2 DEF Becomes
  <2>2. QED
    BY <2>1 DEF StateTypeOK
<1>3. ASSUME NEW t \in Threads, NEW j \in Jobs, Kill(t, j) PROVE proc'[p].st # "alive"
  <2>1. Pid(j) \in Pids
    BY EventFields DEF Pid, StateTypeOK
  <2>2. QED
    BY <1>2, <1>3, <2>1 DEF Kill
<1>4. ASSUME NEW q \in Pids, Spawn(q) PROVE proc'[p].st # "alive"
  <2>1. CASE p = q
    <3>1. PICK ns \in Namespaces :
            proc' = [proc EXCEPT ![q] = [gen |-> @.gen + 1, st |-> "alive", ns |-> ns]]
      BY <1>4 DEF Spawn
    <3>2. proc'[p].gen = proc[p].gen + 1
      BY <2>1, <3>1 DEF StateTypeOK
    <3>3. QED
      BY <1>1, <3>2
  <2>2. CASE p # q
    <3>1. proc'[p] = proc[p]
      BY <1>4, <2>2 DEF Spawn, StateTypeOK
    <3>2. QED
      BY <3>1
  <2>3. QED
    BY <2>1, <2>2
<1>5. ASSUME NEW q \in Pids, Exit(q) \/ Reap(q) PROVE proc'[p].st # "alive"
  BY <1>2, <1>5 DEF Exit, Reap
<1>6. ASSUME UNCHANGED proc PROVE proc'[p].st # "alive"
  BY <1>6
<1>7. QED
  BY <1>3, <1>4, <1>5, <1>6 DEF Next, JobStep, Kernel, Elapse, Submit, Route, Gate,
     RateLimited, Permit, Term, Wake, Confirm, Record, SetMode, SetModeOfActor, ApplyPolicy,
     jobVars, vars

(* What was hit and does not survive is gone for good.                     *)
LEMMA StaysDown ==
  ASSUME StateTypeOK, [Next]_vars, NEW t \in Threads, NEW i \in Jobs, AuditOf(t, i),
         event'[i] = event[i], NEW h \in hits[t][i], ~Survives(i, h)
  PROVE  ~Survives(i, h)'
<1>1. Pid(i)' = Pid(i) /\ Pid(i) \in Pids
  BY EventFields DEF Pid, StateTypeOK
<1>2. h.gen \in Nat /\ h.gen <= proc[Pid(i)].gen
  BY EnforcementAssumption DEF StateTypeOK, Hit, AuditOf
<1>3. /\ proc[Pid(i)].gen \in Nat /\ proc'[Pid(i)].gen \in Nat
      /\ proc[Pid(i)].gen <= proc'[Pid(i)].gen
  BY <1>1, ProcForward
<1>4. CASE proc'[Pid(i)].gen = proc[Pid(i)].gen
  BY <1>1, <1>4, ProcStaysDown DEF Survives
<1>5. CASE proc'[Pid(i)].gen # proc[Pid(i)].gen
  <2>1. proc'[Pid(i)].gen # h.gen
    BY <1>2, <1>3, <1>5
  <2>2. QED
    BY <1>1, <2>1 DEF Survives
<1>6. QED
  BY <1>4, <1>5

(* A step that signals nothing for job i, and leaves its escalation where  *)
(* it is or where it is not about to kill.                                 *)
LEMMA FollowFrame ==
  ASSUME StateTypeOK, [Next]_vars, NEW i \in Jobs, FollowOf(i), AuditOf("enforce", i),
         event'[i] = event[i], \A t \in Threads : hits'[t][i] = hits[t][i],
         \/ pc'["escalate"][i] = pc["escalate"][i]
         \/ /\ pc["escalate"][i] # "idle"
            /\ pc["escalate"][i] \notin {"grace", "kill"} \/ pc'["escalate"][i] \in {"grace", "kill"}
  PROVE  FollowOf(i)'
<1>1. "enforce" \in Threads /\ "escalate" \in Threads
  BY DEF Threads
<1>2. ASSUME NEW h \in hits["enforce"][i], ~Survives(i, h) PROVE ~Survives(i, h)'
  BY <1>1, <1>2, StaysDown
<1>3. \A h \in hits'["enforce"][i] :
        h.sig = "TERM" => pc'["escalate"][i] \in {"grace", "kill"} \/ ~Survives(i, h)'
  BY <1>1, <1>2 DEF FollowOf
<1>4. QED
  BY <1>1, <1>3 DEF FollowOf

LEMMA TermFollows ==
  ASSUME StateTypeOK, NEW i \in Jobs, FollowOf(i), ProtocolOf(i), AuditOf("enforce", i),
         Term(i), Exists(Pid(i)), Deliver("enforce", i, "TERM"),
         pc' = [pc EXCEPT !["enforce"][i] = "record", !["escalate"][i] = "grace"]
  PROVE  FollowOf(i)'
<1>1. PICK h0 : h0 = [sig |-> "TERM", gen |-> proc[Pid(i)].gen, ns |-> proc[Pid(i)].ns]
  OBVIOUS
<1>2. hits["enforce"][i] = {} /\ hits["escalate"][i] = {}
  BY DEF AuditOf, FollowOf, Term
<1>3. hits'["enforce"][i] = {h0} /\ hits'["escalate"][i] = {}
  BY <1>1, <1>2 DEF Deliver, StateTypeOK, Threads
<1>4. pc'["escalate"][i] = "grace"
  BY DEF StateTypeOK, Threads
<1>5. h0.sig = "TERM"
  BY <1>1
<1>6. QED
  BY <1>3, <1>4, <1>5 DEF FollowOf, Threads

LEMMA KillFollows ==
  ASSUME StateTypeOK, [Next]_vars, NEW i \in Jobs, FollowOf(i), ProtocolOf(i),
         \A t \in Threads : AuditOf(t, i), NEW t \in Threads, Kill(t, i)
  PROVE  FollowOf(i)'
<1>1. event' = event /\ Pid(i)' = Pid(i) /\ Pid(i) \in Pids /\ pc[t][i] = "kill"
  BY EventFields DEF Kill, Pid, StateTypeOK
<1>2. hits[t][i] = {}
  BY <1>1 DEF AuditOf
<1>3. PICK s \in {"confirm", "record"} : pc' = [pc EXCEPT ![t][i] = s]
  BY DEF Kill
<1>4. proc'[Pid(i)].st # "alive"
  <2>1. CASE Becomes(Pid(i), "zombie")
    BY <1>1, <2>1 DEF Becomes, StateTypeOK
  <2>2. CASE ~Exists(Pid(i)) /\ UNCHANGED proc
    BY <2>2 DEF Exists
  <2>3. QED
    BY <2>1, <2>2 DEF Kill
<1>5. \A h : ~Survives(i, h)'
  BY <1>1, <1>4 DEF Survives
<1>6. PICK h0 : h0 = [sig |-> "KILL", gen |-> proc[Pid(i)].gen, ns |-> proc[Pid(i)].ns]
  OBVIOUS
<1>7. hits' = hits \/ hits' = [hits EXCEPT ![t][i] = @ \cup {h0}]
  BY <1>6 DEF Kill, Deliver
<1>8. /\ hits'[t][i] \subseteq {h0}
      /\ \A u \in Threads : u # t => hits'[u][i] = hits[u][i]
  BY <1>2, <1>7 DEF StateTypeOK
<1>9. CASE t = "enforce"
  <2>1. hits'["escalate"][i] = hits["escalate"][i] /\ pc'["escalate"][i] = pc["escalate"][i]
    BY <1>3, <1>8, <1>9 DEF StateTypeOK, Threads
  <2>2. hits["escalate"][i] = {} /\ pc["escalate"][i] = "idle"
    BY <1>1, <1>2, <1>9 DEF FollowOf, ProtocolOf
  <2>3. QED
    BY <1>5, <1>8, <1>9, <2>1, <2>2 DEF FollowOf, Threads
<1>10. CASE t = "escalate"
  <2>1. hits'["enforce"][i] = hits["enforce"][i]
    BY <1>8, <1>10 DEF Threads
  <2>2. PICK h \in hits["enforce"][i] : h.sig = "TERM"
    BY <1>1, <1>10 DEF FollowOf
  <2>3. h.gen <= h0.gen /\ h0.sig = "KILL"
    BY <1>6, <2>2 DEF AuditOf, Threads
  <2>4. \A k \in hits'["escalate"][i] :
          k.sig = "KILL" /\ \E g \in hits'["enforce"][i] : g.sig = "TERM" /\ g.gen <= k.gen
    BY <1>8, <1>10, <2>1, <2>2, <2>3
  <2>5. QED
    BY <1>5, <1>8, <1>10, <2>1, <2>2, <2>4 DEF FollowOf, Threads
<1>11. QED
  BY <1>9, <1>10 DEF Threads

LEMMA FollowStep ==
  StateTypeOK /\ ProtocolInv /\ AuditInv /\ FollowInv /\ [Next]_vars => FollowInv'
<1> SUFFICES ASSUME StateTypeOK, ProtocolInv, AuditInv, FollowInv, [Next]_vars, NEW i \in Jobs
             PROVE  FollowOf(i)'
  BY DEF FollowInv
<1>0. /\ FollowOf(i) /\ ProtocolOf(i) /\ \A t \in Threads : AuditOf(t, i)
      /\ AuditOf("enforce", i) /\ "enforce" \in Threads /\ "escalate" \in Threads
  BY DEF FollowInv, ProtocolInv, AuditInv, Threads
<1>1. ASSUME Untouched(i) PROVE FollowOf(i)'
  BY <1>0, <1>1, FollowFrame DEF Untouched, Threads
<1>2. ASSUME NEW j \in Jobs, Submit(j) PROVE FollowOf(i)'
  <2>1. CASE i = j
    <3>1. hits["enforce"][i] = {} /\ hits["escalate"][i] = {} /\ pc["escalate"][i] = "idle"
      BY <1>0, <1>2, <2>1 DEF Submit, ProtocolOf
    <3>2. hits' = hits /\ pc'["escalate"][i] = "idle"
      BY <1>2, <2>1, <3>1 DEF Submit, StateTypeOK, Threads
    <3>3. QED
      BY <3>1, <3>2 DEF FollowOf, Threads
  <2>2. CASE i # j
    <3>1. Untouched(i)
      BY <1>2, <2>2 DEF Submit, Untouched, StateTypeOK, Threads
    <3>2. QED
      BY <1>1, <3>1
  <2>3. QED
    BY <2>1, <2>2
<1>3. ASSUME NEW j \in Jobs, i # j, JobStep(j) PROVE FollowOf(i)'
  BY <1>1, <1>3, OthersUntouched
<1>4. ASSUME JobStep(i), UNCHANGED hits, NEW t \in Threads, NEW s, pc[t][i] # "idle",
             pc' = [pc EXCEPT ![t][i] = s],
             t = "escalate" => pc[t][i] \notin {"grace", "kill"} \/ s \in {"grace", "kill"}
      PROVE  FollowOf(i)'
  <2>1. event'[i] = event[i]
    BY <1>4, OthersUntouched
  <2>2. /\ t # "escalate" => pc'["escalate"][i] = pc["escalate"][i]
        /\ t = "escalate" => pc'["escalate"][i] = s
    BY <1>0, <1>4 DEF StateTypeOK
  <2>3. QED
    BY <1>0, <1>4, <2>1, <2>2, FollowFrame
<1>5. ASSUME JobStep(i), Route(i) \/ Gate(i) \/ RateLimited(i) \/ Permit(i) PROVE FollowOf(i)'
  <2>1. UNCHANGED hits /\ pc["enforce"][i] # "idle"
    BY <1>5 DEF Route, Gate, RateLimited, Permit
  <2>2. PICK s : pc' = [pc EXCEPT !["enforce"][i] = s]
    BY <1>5 DEF Route, Gate, RateLimited, Permit
  <2>3. QED
    BY <1>0, <1>4, <1>5, <2>1, <2>2
<1>6. ASSUME JobStep(i), Term(i) PROVE FollowOf(i)'
  <2>1. CASE Exists(event[i].pid)
    <3>1. /\ Exists(Pid(i)) /\ Deliver("enforce", i, "TERM")
          /\ pc' = [pc EXCEPT !["enforce"][i] = "record", !["escalate"][i] = "grace"]
      BY <1>6, <2>1 DEF Term, Pid
    <3>2. QED
      BY <1>0, <1>6, <3>1, TermFollows
  <2>2. CASE ~Exists(event[i].pid)
    <3>1. UNCHANGED hits /\ pc["enforce"][i] # "idle" /\ pc' = [pc EXCEPT !["enforce"][i] = "kill"]
      BY <1>6, <2>2 DEF Term
    <3>2. QED
      BY <1>0, <1>4, <1>6, <3>1
  <2>3. QED
    BY <2>1, <2>2
<1>7. ASSUME JobStep(i), Wake(i) PROVE FollowOf(i)'
  <2>1. UNCHANGED <<hits, proc, event>> /\ pc["escalate"][i] = "grace"
        /\ pc' = [pc EXCEPT !["escalate"][i] = IF Exists(event[i].pid) THEN "kill" ELSE "done"]
    BY <1>7 DEF Wake
  <2>2. CASE Exists(event[i].pid)
    BY <1>0, <1>4, <1>7, <2>1, <2>2
  <2>3. CASE ~Exists(event[i].pid)
    <3>1. \A h : ~Survives(i, h)'
      BY <2>1, <2>3 DEF Survives, Exists, Pid
    <3>2. \E h \in hits'["enforce"][i] : h.sig = "TERM"
      BY <1>0, <2>1 DEF FollowOf
    <3>3. QED
      BY <1>0, <2>1, <3>1, <3>2 DEF FollowOf
  <2>4. QED
    BY <2>2, <2>3
<1>8. ASSUME NEW t \in Threads, Kill(t, i) PROVE FollowOf(i)'
  BY <1>0, <1>8, KillFollows
<1>9. ASSUME JobStep(i), NEW t \in Threads, Confirm(t, i) \/ Record(t, i) PROVE FollowOf(i)'
  <2>1. UNCHANGED hits /\ pc[t][i] \in {"confirm", "record"}
    BY <1>9 DEF Confirm, Record
  <2>2. PICK s : pc' = [pc EXCEPT ![t][i] = s]
    BY <1>9 DEF Confirm, Record
  <2>3. QED
    BY <1>4, <1>9, <2>1, <2>2
<1>10. ASSUME Outside PROVE FollowOf(i)'
  BY <1>1, <1>10, OutsideFrame DEF jobVars, Untouched
<1>11. QED
  BY <1>2, <1>3, <1>5, <1>6, <1>7, <1>8, <1>9, <1>10, NextSplit DEF JobStep

(* Whatever the modes do meanwhile, SIGTERM is followed up until the       *)
(* process is down, and no thread signals twice (executeGracefulKill).     *)
THEOREM TermIsFollowed == Spec => []TermThenKill
<1>1. Init => FollowInv
  BY DEF Init, FollowInv, FollowOf, Threads
<1>2. IInv /\ FollowInv /\ [Next]_vars => FollowInv'
  BY FollowStep DEF IInv
<1>3. FollowInv => TermThenKill
  BY DEF FollowInv, FollowOf, TermThenKill
<1>4. QED
  BY <1>1, <1>2, <1>3, Invariance, PTL DEF Spec
=============================================================================
