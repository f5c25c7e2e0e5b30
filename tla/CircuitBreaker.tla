--------------------------- MODULE CircuitBreaker ---------------------------
(***************************************************************************)
(* What the circuit breaker of a webhook sink promises its callers (the    *)
(* comments of pkg/output/webhook.go): calls pass while the circuit is     *)
(* closed; once open it lets a call pass only as a probe, and only the     *)
(* outcome of calls under way closes it again or opens it anew.            *)
(***************************************************************************)
CONSTANTS
  Breakers,   \* one circuit breaker for each destination
  Callers

VARIABLES
  breaker,    \* breaker[b]: "closed", "open" or "half" (open, and being probed)
  underWay    \* underWay[b]: the callers whose call b has admitted

breakerVars == <<breaker, underWay>>

BreakerTypeOK ==
  /\ breaker \in [Breakers -> {"closed", "open", "half"}]
  /\ underWay \in [Breakers -> SUBSET Callers]

(* A call is admitted; if the circuit was open, it is half open now.       *)
AdmitCall(b, c) ==
  /\ c \notin underWay[b]
  /\ breaker' = [breaker EXCEPT ![b] = IF @ = "open" THEN "half" ELSE @]
  /\ underWay' = [underWay EXCEPT ![b] = @ \cup {c}]

CallSucceeds(b, c) ==
  /\ c \in underWay[b]
  /\ breaker' = [breaker EXCEPT ![b] = "closed"]
  /\ underWay' = [underWay EXCEPT ![b] = @ \ {c}]

(* A failure opens the circuit, unless it was closed and the failures are  *)
(* still few.                                                              *)
CallFails(b, c) ==
  /\ c \in underWay[b]
  /\ \/ breaker' = [breaker EXCEPT ![b] = "open"]
     \/ breaker[b] = "closed" /\ UNCHANGED breaker
  /\ underWay' = [underWay EXCEPT ![b] = @ \ {c}]

BreakerInit ==
  /\ breaker = [b \in Breakers |-> "closed"]
  /\ underWay = [b \in Breakers |-> {}]

BreakerNext ==
  \E b \in Breakers, c \in Callers :
    AdmitCall(b, c) \/ CallSucceeds(b, c) \/ CallFails(b, c)

BreakerSpec == BreakerInit /\ [][BreakerNext]_breakerVars

(* webhook.go:58: without a probe "a tripped breaker never recovers": the  *)
(* circuit is half open only as long as a probe has yet to be answered.    *)
HalfOpenIsProbed == \A b \in Breakers : breaker[b] = "half" => underWay[b] # {}
=============================================================================
