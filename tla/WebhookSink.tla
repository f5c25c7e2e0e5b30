---------------------------- MODULE WebhookSink ----------------------------
(***************************************************************************)
(* Webhook sinks (pkg/output/webhook.go): SendSingle of a sink of any      *)
(* kind, which comes down to one sendWithRetry: the circuit breaker of the *)
(* sink, the requests and their retries.  Every call runs in one of the    *)
(* slots of the manager's semaphore.                                       *)
(*                                                                         *)
(* Left out: the payload and the counters of Stats.  consecutiveFailures   *)
(* is only compared with maxFailures and stops counting there; of the time *)
(* since the last failure counts whether it exceeds circuitResetAfter.     *)
(***************************************************************************)
EXTENDS Naturals

CONSTANTS
  Sinks,
  Slots,         \* the slots of the semaphore (16 in the code)
  RetryCount,    \* the retries of a call (3 by default)
  MaxFailures    \* the failures in a row that open the circuit (5)

ASSUME SinkAssumption == RetryCount \in Nat /\ MaxFailures \in Nat \ {0}

VARIABLES
  sink,   \* sink[s]: the fields of baseWebhookSink
  post    \* post[i]: the call in slot i, or NoPost

sinkVars == <<sink, post>>

NoPost == [at |-> "idle"]
SinkState == [enabled : BOOLEAN, open : BOOLEAN, cooled : BOOLEAN, failures : 0..MaxFailures]
Post == [at : {"called", "enabled", "posting"}, sink : Sinks, retries : 0..RetryCount,
         outlived : BOOLEAN]    \* history: the circuit has opened since the call was admitted

SinkTypeOK ==
  /\ sink \in [Sinks -> SinkState]
  /\ post \in [Slots -> Post \cup {NoPost}]

-----------------------------------------------------------------------------

(* A goroutine that holds slot i calls SendSingle of s.                    *)
SendSingle(i, s) ==
  /\ post[i] = NoPost
  /\ post' = [post EXCEPT ![i] =
                [at |-> "called", sink |-> s, retries |-> 0, outlived |-> FALSE]]
  /\ UNCHANGED sink

(* The enabled flag, read without the lock: a disabled sink sends nothing. *)
CheckEnabled(i) ==
  /\ post[i].at = "called"
  /\ post' = [post EXCEPT ![i] = IF sink[@.sink].enabled THEN [@ EXCEPT !.at = "enabled"]
                                 ELSE NoPost]
  /\ UNCHANGED sink

(* The breaker refuses the call.                                           *)
Refuse(i) ==
  /\ post[i].at = "enabled"
  /\ sink[post[i].sink].open /\ ~sink[post[i].sink].cooled
  /\ post' = [post EXCEPT ![i] = NoPost]
  /\ UNCHANGED sink

(* A mutant: the circuit is probed whatever the time since its failure,    *)
(* and is left open for the answer to close.                               *)
AdmitOpen(i) ==
  /\ post[i].at = "enabled"
  /\ post' = [post EXCEPT ![i].at = "posting"]
  /\ UNCHANGED sink

(* A mutant: a circuit that half-opens counts its failures from zero.      *)
AdmitForgiven(i) ==
  /\ post[i].at = "enabled"
  /\ sink[post[i].sink].open => sink[post[i].sink].cooled
  /\ sink' = [sink EXCEPT ![post[i].sink].failures =
                 IF sink[post[i].sink].open THEN 0 ELSE @, ![post[i].sink].open = FALSE]
  /\ post' = [post EXCEPT ![i].at = "posting"]

(* The breaker lets the call pass: it is closed, or half-opens for it.     *)
Admit(i) ==
  /\ post[i].at = "enabled"
  /\ sink[post[i].sink].open => sink[post[i].sink].cooled
  /\ sink' = [sink EXCEPT ![post[i].sink].open = FALSE]
  /\ post' = [post EXCEPT ![i].at = "posting"]

(* No answer, a 5xx or a 429: after a pause the call tries again.          *)
Retry(i) ==
  /\ post[i].at = "posting" /\ post[i].retries < RetryCount
  /\ post' = [post EXCEPT ![i].retries = @ + 1]
  /\ UNCHANGED sink

(* A 2xx answers the call: the circuit is closed and the failures are      *)
(* forgotten, even if the circuit has opened since the call was admitted.  *)
Succeed(i) ==
  /\ post[i].at = "posting"
  /\ sink' = [sink EXCEPT ![post[i].sink].failures = 0, ![post[i].sink].open = FALSE]
  /\ post' = [post EXCEPT ![i] = NoPost]

(* The call fails: its retries are used up, or the answer was a 4xx that   *)
(* is not tried again.  From maxFailures on the circuit opens.             *)
Fail(i) ==
  LET s == post[i].sink
      n == IF sink[s].failures < MaxFailures THEN sink[s].failures + 1 ELSE MaxFailures
      opens == n >= MaxFailures
  IN /\ post[i].at = "posting"
     /\ sink' = [sink EXCEPT ![s].failures = n, ![s].cooled = FALSE, ![s].open = @ \/ opens]
     /\ post' = [j \in Slots |->
                   IF j = i THEN NoPost
                   ELSE IF post[j].at = "posting" /\ post[j].sink = s /\ opens
                     THEN [post[j] EXCEPT !.outlived = TRUE]
                     ELSE post[j]]

(* circuitResetAfter has passed since the last failure of s; nobody asks   *)
(* while the circuit is closed.                                            *)
Cool(s) ==
  /\ sink[s].open /\ ~sink[s].cooled
  /\ sink' = [sink EXCEPT ![s].cooled = TRUE]
  /\ UNCHANGED post

SetEnabled(s) ==
  /\ sink' = [sink EXCEPT ![s].enabled = ~@]
  /\ UNCHANGED post

SinkInit ==
  /\ sink = [s \in Sinks |-> [enabled |-> TRUE, open |-> FALSE, cooled |-> TRUE, failures |-> 0]]
  /\ post = [i \in Slots |-> NoPost]

(* A step of the call in slot i.                                           *)
CallStep(i) ==
  CheckEnabled(i) \/ Refuse(i) \/ Admit(i) \/ Retry(i) \/ Succeed(i) \/ Fail(i)

SinkNext ==
  \/ \E i \in Slots : CallStep(i) \/ \E s \in Sinks : SendSingle(i, s)
  \/ \E s \in Sinks : Cool(s) \/ SetEnabled(s)

SinkSpec == SinkInit /\ [][SinkNext]_sinkVars

-----------------------------------------------------------------------------

(* The circuit of s as its callers see it: half open when it passes calls  *)
(* although the failures that opened it have not been forgotten.           *)
Circuit(s) ==
  IF sink[s].open THEN "open"
  ELSE IF sink[s].failures >= MaxFailures THEN "half" ELSE "closed"

Posting(s) == {i \in Slots : post[i].at = "posting" /\ post[i].sink = s}

Breaker == INSTANCE CircuitBreaker WITH
  Breakers <- Sinks, Callers <- Slots,
  breaker <- [s \in Sinks |-> Circuit(s)], underWay <- [s \in Sinks |-> Posting(s)]

(* The sinks implement the circuit breaker, although the check and the     *)
(* outcome of a call are two critical sections and calls to one sink       *)
(* overlap: a half-open circuit ends open at the first failure, and no     *)
(* call passes an open circuit unless it half-opens it (sendWithRetry).    *)
RefinesBreaker == Breaker!BreakerSpec

(* webhook.go:239, "so the breaker can recover": a circuit is half open    *)
(* only while a call that may close or reopen it is under way.             *)
ProbeUnderWay == Breaker!HalfOpenIsProbed

(* An open circuit that closes by a success owes it to a call that was     *)
(* admitted before it opened: a stale answer (sendWithRetry, line 288).    *)
(* All others that close it half-open it, after the reset time.            *)
OnlyStaleAnswersClose ==
  [][\A s \in Sinks : sink[s].open /\ ~sink'[s].open =>
       \/ sink[s].cooled /\ sink'[s].failures = sink[s].failures
       \/ \E i \in Slots : post[i].at = "posting" /\ post[i].sink = s /\ post[i].outlived
                             /\ post'[i] = NoPost]_sinkVars
=============================================================================
