---------------------------- MODULE RateLimiter ----------------------------
(***************************************************************************)
(* The per-pod kill budget of pkg/pipeline/response.go: RateLimiter, a     *)
(* fixed-window counter per key.  A window opens with the first request    *)
(* that finds no live counter, stays open for Window ticks and admits at   *)
(* most MaxKills requests.                                                 *)
(*                                                                         *)
(* Time is a clock in ticks; now.After(t) is now > t.  A counter that is   *)
(* not in the map is one whose count is 0: a stored counter has count 1 or *)
(* more.                                                                   *)
(***************************************************************************)
EXTENDS Integers, FiniteSets

CONSTANTS
  Requests,   \* the calls of Allow; each is made at most once
  Keys,       \* rate-limit keys, namespace/pod
  MaxKills,   \* maxPerWindow
  Window,     \* window, in ticks
  MaxTime     \* bound of the model: the clock stops here

ASSUME RateAssumption ==
  /\ IsFiniteSet(Requests)
  /\ MaxKills \in Nat \ {0}
  /\ Window \in Nat
  /\ MaxTime \in Nat

VARIABLES
  now,        \* the clock
  counters,   \* counters[k]: count and resetAt of key k
  grants      \* history: the requests that were allowed, each with its key,
              \* the time, and the resetAt of the counter that admitted it

rateVars == <<now, counters, grants>>

NoCounter == [count |-> 0, resetAt |-> 0]
Grant == [req : Requests, key : Keys, at : Nat, win : Nat]

RateTypeOK ==
  /\ now \in Nat
  /\ counters \in [Keys -> [count : Nat, resetAt : Nat]]
  /\ grants \subseteq Grant

-----------------------------------------------------------------------------

(* A mutant: the window closes one tick early.                             *)
ExpiredAtReset(k) == counters[k].count > 0 /\ now >= counters[k].resetAt

Expired(k) == counters[k].count > 0 /\ now > counters[k].resetAt

Opens(k) == counters[k].count = 0 \/ Expired(k)

WithinBudget(k) == Opens(k) \/ counters[k].count < MaxKills

(* A mutant: a new window is opened backwards.                             *)
CountedBackwards(k) ==
  IF Opens(k)
  THEN [count |-> 1, resetAt |-> now - Window]
  ELSE [count |-> counters[k].count + 1, resetAt |-> counters[k].resetAt]

(* The counter Allow leaves behind when it says yes.                       *)
Counted(k) ==
  IF Opens(k)
  THEN [count |-> 1, resetAt |-> now + Window]
  ELSE [count |-> counters[k].count + 1, resetAt |-> counters[k].resetAt]

(* Allow(k) returns true to request r.                                     *)
Allow(r, k) ==
  /\ \A g \in grants : g.req # r
  /\ WithinBudget(k)
  /\ counters' = [counters EXCEPT ![k] = Counted(k)]
  /\ grants' = grants \cup {[req |-> r, key |-> k, at |-> now,
                             win |-> Counted(k).resetAt]}
  /\ UNCHANGED now

(* The cleanup goroutine: one tick of its ticker deletes every expired     *)
(* counter under the lock.                                                 *)
Cleanup ==
  /\ \E k \in Keys : Expired(k)
  /\ counters' = [k \in Keys |-> IF Expired(k) THEN NoCounter ELSE counters[k]]
  /\ UNCHANGED <<now, grants>>

Tick ==
  /\ now < MaxTime
  /\ now' = now + 1
  /\ UNCHANGED <<counters, grants>>

RateInit ==
  /\ now = 0
  /\ counters = [k \in Keys |-> NoCounter]
  /\ grants = {}

RateNext ==
  \/ \E r \in Requests, k \in Keys : Allow(r, k)
  \/ Cleanup
  \/ Tick

RateSpec == RateInit /\ [][RateNext]_rateVars

-----------------------------------------------------------------------------

(* What the limiter really promises: whatever interval of one window's     *)
(* length is taken, a key is granted at most 2 * MaxKills - 1 times in it. *)
(* A fixed window cannot promise MaxKills: the last requests of a window   *)
(* and all those of the next may fall together; but the request that       *)
(* opened the earlier window is then outside the interval.                 *)
GrantsIn(k, lo, hi) == {g \in grants : g.key = k /\ lo <= g.at /\ g.at <= hi}

SlidingBudget ==
  \A k \in Keys : \A t \in 0 .. now :
    Cardinality(GrantsIn(k, t, t + Window)) <= 2 * MaxKills - 1
=============================================================================
