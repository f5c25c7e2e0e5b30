-------------------------- MODULE AlertOutputProofs --------------------------
(***************************************************************************)
(* Proofs about the delivery of alerts: the webhook sinks implement the    *)
(* circuit breaker, also behind the manager, and each walk over the        *)
(* manager's sinks serves those that were configured, for any number of    *)
(* alerts, sinks and slots and whatever is added and removed meanwhile.    *)
(***************************************************************************)
EXTENDS AlertOutput, SequenceTheorems, TLAPS

-----------------------------------------------------------------------------
(* The sinks by themselves: their calls implement the circuit breaker.     *)

(* An open circuit has counted all its failures, and every call under way  *)
(* to it was admitted before it opened.                                    *)
OpenIsTripped == \A s \in Sinks : sink[s].open => sink[s].failures = MaxFailures
OpenIsOutlived ==
  \A i \in Slots : post[i].at = "posting" /\ sink[post[i].sink].open => post[i].outlived

SinkInvariant == SinkTypeOK /\ OpenIsTripped /\ OpenIsOutlived

-----------------------------------------------------------------------------

(* The invariant of the sinks holds at the start.                          *)
LEMMA InitInvariant == SinkInit => SinkInvariant
<1> SUFFICES ASSUME SinkInit PROVE SinkInvariant
  OBVIOUS
<1> USE SinkAssumption DEF SinkInit
<1>1. SinkTypeOK
  BY DEF SinkTypeOK, SinkState, NoPost
<1>2. OpenIsTripped /\ OpenIsOutlived
  BY DEF OpenIsTripped, OpenIsOutlived, NoPost
<1> QED
  BY <1>1, <1>2 DEF SinkInvariant

(* What a call knows of its own slot and sink.                             *)
LEMMA PostKinds ==
  ASSUME SinkTypeOK, NEW i \in Slots, post[i].at # "idle"
  PROVE  /\ post[i] \in Post /\ post[i].sink \in Sinks
         /\ sink[post[i].sink] \in SinkState
BY DEF SinkTypeOK, Post, NoPost

(* Every step of the sinks keeps their invariant.                          *)
LEMMA NextInvariant == SinkInvariant /\ [SinkNext]_sinkVars => SinkInvariant'
<1> SUFFICES ASSUME SinkInvariant, [SinkNext]_sinkVars PROVE SinkInvariant'
  OBVIOUS
<1> USE SinkAssumption DEF SinkInvariant
<1>1. ASSUME NEW i \in Slots, NEW s \in Sinks, SendSingle(i, s) PROVE SinkInvariant'
  <2>1. SinkTypeOK'
    BY <1>1 DEF SendSingle, SinkTypeOK, Post, NoPost
  <2>2. (OpenIsTripped /\ OpenIsOutlived)'
    BY <1>1 DEF SendSingle, SinkTypeOK, OpenIsTripped, OpenIsOutlived, NoPost
  <2> QED
    BY <2>1, <2>2
<1>2. ASSUME NEW i \in Slots, CheckEnabled(i) \/ Refuse(i) \/ Retry(i) PROVE SinkInvariant'
  <2>1. post[i].at # "idle"
    BY <1>2 DEF CheckEnabled, Refuse, Retry
  <2>2. post[i] \in Post
    BY <2>1, PostKinds
  <2>3. SinkTypeOK'
    BY <1>2, <2>2 DEF CheckEnabled, Refuse, Retry, SinkTypeOK, Post, NoPost
  <2>4. (OpenIsTripped /\ OpenIsOutlived)'
    BY <1>2, <2>2 DEF CheckEnabled, Refuse, Retry, SinkTypeOK, OpenIsTripped,
                      OpenIsOutlived, Post, NoPost
  <2> QED
    BY <2>3, <2>4
<1>3. ASSUME NEW i \in Slots, Admit(i) PROVE SinkInvariant'
  <2>1. post[i] \in Post /\ post[i].sink \in Sinks /\ sink[post[i].sink] \in SinkState
    BY <1>3, PostKinds DEF Admit
  <2>2. SinkTypeOK'
    BY <1>3, <2>1 DEF Admit, SinkTypeOK, SinkState, Post
  <2>3. OpenIsTripped'
    BY <1>3, <2>1 DEF Admit, SinkTypeOK, SinkState, OpenIsTripped
  <2>4. OpenIsOutlived'
    BY <1>3, <2>1 DEF Admit, SinkTypeOK, SinkState, OpenIsOutlived, Post, NoPost
  <2> QED
    BY <2>2, <2>3, <2>4
<1>4. ASSUME NEW i \in Slots, Succeed(i) PROVE SinkInvariant'
  <2>1. post[i] \in Post /\ post[i].sink \in Sinks /\ sink[post[i].sink] \in SinkState
    BY <1>4, PostKinds DEF Succeed
  <2>2. SinkTypeOK'
    BY <1>4, <2>1 DEF Succeed, SinkTypeOK, SinkState, Post
  <2>3. OpenIsTripped'
    BY <1>4, <2>1 DEF Succeed, SinkTypeOK, SinkState, OpenIsTripped
  <2>4. OpenIsOutlived'
    BY <1>4, <2>1 DEF Succeed, SinkTypeOK, SinkState, OpenIsOutlived, Post, NoPost
  <2> QED
    BY <2>2, <2>3, <2>4
<1>5. ASSUME NEW i \in Slots, Fail(i) PROVE SinkInvariant'
  <2> DEFINE s == post[i].sink
             n == IF sink[s].failures < MaxFailures THEN sink[s].failures + 1 ELSE MaxFailures
             opens == n >= MaxFailures
  <2>1. s \in Sinks /\ sink[s] \in SinkState /\ post[i].at = "posting"
    BY <1>5, PostKinds DEF Fail
  <2>2. n \in 0..MaxFailures /\ (opens => n = MaxFailures)
    BY <2>1 DEF SinkState
  <2>3. sink[s].open => opens
    BY <2>1 DEF OpenIsTripped, SinkState
  <2>4. sink' = [sink EXCEPT ![s].failures = n, ![s].cooled = FALSE, ![s].open = @ \/ opens]
    BY <1>5 DEF Fail
  <2>5. post' = [j \in Slots |->
                   IF j = i THEN NoPost
                   ELSE IF post[j].at = "posting" /\ post[j].sink = s /\ opens
                     THEN [post[j] EXCEPT !.outlived = TRUE]
                     ELSE post[j]]
    BY <1>5 DEF Fail
  <2> HIDE DEF n, opens
  <2>6. sink' \in [Sinks -> SinkState]
    <3>1. opens \in BOOLEAN
      BY DEF opens
    <3> QED
      BY <2>1, <2>2, <2>4, <3>1 DEF SinkTypeOK, SinkState
  <2>7. post' \in [Slots -> Post \cup {NoPost}]
    <3> SUFFICES ASSUME NEW j \in Slots PROVE post'[j] \in Post \cup {NoPost}
      BY <2>5
    <3>1. CASE post[j].at = "posting"
      BY <2>5, <3>1, PostKinds DEF Post
    <3>2. CASE post[j].at # "posting"
      BY <2>5, <3>2 DEF SinkTypeOK
    <3> QED
      BY <3>1, <3>2
  <2>8. OpenIsTripped'
    BY <2>1, <2>2, <2>3, <2>4 DEF SinkTypeOK, SinkState, OpenIsTripped
  <2>9. OpenIsOutlived'
    <3> SUFFICES ASSUME NEW j \in Slots, post'[j].at = "posting", sink'[post'[j].sink].open
                 PROVE  post'[j].outlived
      BY DEF OpenIsOutlived
    <3>1. j # i
      BY <2>5 DEF NoPost
    <3>2. post[j].at = "posting" /\ post'[j].sink = post[j].sink
      BY <2>5, <3>1, PostKinds DEF Post
    <3>3. post[j] \in Post /\ post[j].sink \in Sinks
      BY <3>2, PostKinds
    <3>4. CASE post[j].sink = s
      <4>1. opens
        BY <2>1, <2>3, <2>4, <3>2, <3>4 DEF SinkTypeOK, SinkState
      <4> QED
        BY <2>5, <3>1, <3>2, <3>3, <3>4, <4>1 DEF Post
    <3>5. CASE post[j].sink # s
      <4>1. sink[post[j].sink].open
        BY <2>1, <2>4, <3>2, <3>3, <3>5 DEF SinkTypeOK
      <4> QED
        BY <2>5, <3>1, <3>2, <3>5, <4>1 DEF OpenIsOutlived
    <3> QED
      BY <3>4, <3>5
  <2> QED
    BY <2>6, <2>7, <2>8, <2>9 DEF SinkTypeOK
<1>6. ASSUME NEW s \in Sinks, Cool(s) \/ SetEnabled(s) PROVE SinkInvariant'
  <2>1. SinkTypeOK'
    <3>1. sink[s] \in SinkState
      BY DEF SinkTypeOK
    <3>2. \E v \in SinkState : sink' = [sink EXCEPT ![s] = v]
      <4>1. CASE Cool(s)
        <5>1. [sink[s] EXCEPT !.cooled = TRUE] \in SinkState
          BY <3>1 DEF SinkState
        <5>2. sink' = [sink EXCEPT ![s] = [sink[s] EXCEPT !.cooled = TRUE]]
          BY <4>1 DEF Cool
        <5> QED
          BY <5>1, <5>2
      <4>2. CASE SetEnabled(s)
        <5>1. [sink[s] EXCEPT !.enabled = ~sink[s].enabled] \in SinkState
          BY <3>1 DEF SinkState
        <5>2. sink' = [sink EXCEPT ![s] = [sink[s] EXCEPT !.enabled = ~sink[s].enabled]]
          BY <4>2 DEF SetEnabled
        <5> QED
          BY <5>1, <5>2
      <4> QED
        BY <1>6, <4>1, <4>2
    <3>3. sink' \in [Sinks -> SinkState]
      BY <3>2 DEF SinkTypeOK
    <3>4. post' \in [Slots -> Post \cup {NoPost}]
      BY <1>6 DEF Cool, SetEnabled, SinkTypeOK
    <3> QED
      BY <3>3, <3>4 DEF SinkTypeOK
  <2>2. \A r \in Sinks : sink'[r].open = sink[r].open /\ sink'[r].failures = sink[r].failures
    BY <1>6 DEF Cool, SetEnabled, SinkTypeOK, SinkState
  <2>3. post' = post
    BY <1>6 DEF Cool, SetEnabled
  <2>4. OpenIsTripped'
    BY <2>2 DEF OpenIsTripped
  <2>5. OpenIsOutlived'
    BY <2>2, <2>3, PostKinds DEF OpenIsOutlived
  <2> QED
    BY <2>1, <2>4, <2>5
<1>7. CASE UNCHANGED sinkVars
  BY <1>7 DEF sinkVars, SinkTypeOK, OpenIsTripped, OpenIsOutlived
<1> QED
  BY <1>1, <1>2, <1>3, <1>4, <1>5, <1>6, <1>7 DEF SinkNext, CallStep

(* In every state of the sinks an open circuit has counted all its         *)
(* failures and knows which answers are late.                              *)
THEOREM SinksTyped == SinkSpec => []SinkInvariant
<1>1. SinkInit => SinkInvariant
  BY InitInvariant
<1>2. SinkInvariant /\ [SinkNext]_sinkVars => SinkInvariant'
  BY NextInvariant
<1> QED
  BY <1>1, <1>2, PTL DEF SinkSpec

-----------------------------------------------------------------------------

(* The sinks start with all circuits closed and no call under way.         *)
LEMMA InitRefines == SinkInit => Breaker!BreakerInit
<1> SUFFICES ASSUME SinkInit PROVE Breaker!BreakerInit
  OBVIOUS
<1>1. \A s \in Sinks : Circuit(s) = "closed"
  <2> SUFFICES ASSUME NEW s \in Sinks PROVE Circuit(s) = "closed"
    OBVIOUS
  <2>1. ~sink[s].open /\ sink[s].failures = 0
    BY DEF SinkInit
  <2>2. ~(0 >= MaxFailures)
    BY SinkAssumption
  <2> QED
    BY <2>1, <2>2 DEF Circuit
<1>2. \A s \in Sinks : Posting(s) = {}
  BY DEF SinkInit, Posting, NoPost
<1> QED
  BY <1>1, <1>2 DEF Breaker!BreakerInit

(* A step that leaves every circuit and the calls under way as they are    *)
(* is a stutter of the breaker.                                            *)
LEMMA Stutters ==
  ASSUME \A s \in Sinks : Circuit(s)' = Circuit(s) /\ Posting(s)' = Posting(s)
  PROVE  UNCHANGED Breaker!breakerVars
BY DEF Breaker!breakerVars

(* Every step of the sinks is a step of the circuit breaker or a stutter.  *)
LEMMA NextRefines ==
  SinkInvariant /\ [SinkNext]_sinkVars => [Breaker!BreakerNext]_(Breaker!breakerVars)
<1> SUFFICES ASSUME SinkInvariant, [SinkNext]_sinkVars
             PROVE  [Breaker!BreakerNext]_(Breaker!breakerVars)
  OBVIOUS
<1> USE SinkAssumption DEF SinkInvariant
<1>1. ASSUME NEW i \in Slots, NEW s \in Sinks, SendSingle(i, s)
      PROVE  UNCHANGED Breaker!breakerVars
  <2>1. \A r \in Sinks : Circuit(r)' = Circuit(r)
    BY <1>1 DEF SendSingle, Circuit
  <2>2. \A r \in Sinks : Posting(r)' = Posting(r)
    BY <1>1 DEF SendSingle, Posting, SinkTypeOK, NoPost
  <2> QED
    BY <2>1, <2>2, Stutters
<1>2. ASSUME NEW i \in Slots, CheckEnabled(i) \/ Refuse(i) \/ Retry(i)
      PROVE  UNCHANGED Breaker!breakerVars
  <2>1. post[i].at # "idle"
    BY <1>2 DEF CheckEnabled, Refuse, Retry
  <2>2. post[i] \in Post
    BY <2>1, PostKinds
  <2>3. \A r \in Sinks : Circuit(r)' = Circuit(r)
    BY <1>2 DEF CheckEnabled, Refuse, Retry, Circuit
  <2>4. \A r \in Sinks : Posting(r)' = Posting(r)
    BY <1>2, <2>2 DEF CheckEnabled, Refuse, Retry, Posting, SinkTypeOK, Post, NoPost
  <2> QED
    BY <2>3, <2>4, Stutters
<1>3. ASSUME NEW s \in Sinks, Cool(s) \/ SetEnabled(s)
      PROVE  UNCHANGED Breaker!breakerVars
  <2>1. \A r \in Sinks : Circuit(r)' = Circuit(r)
    BY <1>3 DEF Cool, SetEnabled, Circuit, SinkTypeOK, SinkState
  <2>2. \A r \in Sinks : Posting(r)' = Posting(r)
    BY <1>3 DEF Cool, SetEnabled, Posting
  <2> QED
    BY <2>1, <2>2, Stutters
<1>4. ASSUME NEW i \in Slots, Admit(i)
      PROVE  Breaker!AdmitCall(post[i].sink, i)
  <2> DEFINE s == post[i].sink
  <2>1. post[i] \in Post /\ s \in Sinks /\ sink[s] \in SinkState
    BY <1>4, PostKinds DEF Admit
  <2>2. i \notin Posting(s)
    BY <1>4 DEF Admit, Posting
  <2>3. \A r \in Sinks : Circuit(r)' = IF r = s /\ Circuit(r) = "open" THEN "half" ELSE Circuit(r)
    BY <1>4, <2>1 DEF Admit, Circuit, SinkTypeOK, SinkState, OpenIsTripped
  <2>4. \A r \in Sinks : Posting(r)' = IF r = s THEN Posting(r) \cup {i} ELSE Posting(r)
    BY <1>4, <2>1 DEF Admit, Posting, SinkTypeOK, Post
  <2> HIDE DEF s
  <2>5. Breaker!AdmitCall(s, i)
    BY <2>1, <2>2, <2>3, <2>4 DEF Breaker!AdmitCall
  <2> QED
    BY <2>5 DEF s
<1>5. ASSUME NEW i \in Slots, Succeed(i)
      PROVE  Breaker!CallSucceeds(post[i].sink, i)
  <2> DEFINE s == post[i].sink
  <2>1. post[i] \in Post /\ s \in Sinks /\ sink[s] \in SinkState
    BY <1>5, PostKinds DEF Succeed
  <2>2. i \in Posting(s)
    BY <1>5 DEF Succeed, Posting
  <2>3. \A r \in Sinks : Circuit(r)' = IF r = s THEN "closed" ELSE Circuit(r)
    BY <1>5, <2>1 DEF Succeed, Circuit, SinkTypeOK, SinkState
  <2>4. \A r \in Sinks : Posting(r)' = IF r = s THEN Posting(r) \ {i} ELSE Posting(r)
    BY <1>5, <2>1 DEF Succeed, Posting, SinkTypeOK, Post, NoPost
  <2> HIDE DEF s
  <2>5. Breaker!CallSucceeds(s, i)
    BY <2>1, <2>2, <2>3, <2>4 DEF Breaker!CallSucceeds
  <2> QED
    BY <2>5 DEF s
<1>6. ASSUME NEW i \in Slots, Fail(i)
      PROVE  Breaker!CallFails(post[i].sink, i)
  <2>0. PICK s \in Sinks : s = post[i].sink
    BY <1>6, PostKinds DEF Fail
  <2> DEFINE n == IF sink[s].failures < MaxFailures THEN sink[s].failures + 1 ELSE MaxFailures
             opens == n >= MaxFailures
  <2>1. post[i] \in Post /\ s \in Sinks /\ sink[s] \in SinkState
    BY <1>6, <2>0, PostKinds DEF Fail
  <2>2. i \in Posting(s)
    BY <1>6, <2>0 DEF Fail, Posting
  <2>3. n \in 0..MaxFailures /\ (Circuit(s) # "closed" => opens)
    BY <2>1 DEF SinkState, Circuit, OpenIsTripped
  <2>4. sink' = [sink EXCEPT ![s].failures = n, ![s].cooled = FALSE, ![s].open = @ \/ opens]
    BY <1>6, <2>0 DEF Fail
  <2>5. \A r \in Sinks : Posting(r)' = IF r = s THEN Posting(r) \ {i} ELSE Posting(r)
    <3> SUFFICES ASSUME NEW r \in Sinks, NEW j \in Slots
                 PROVE  j \in Posting(r)' <=> (j \in Posting(r) /\ ~(r = s /\ j = i))
      BY DEF Posting
    <3>1. CASE j = i
      BY <1>6, <2>0, <3>1, <2>1 DEF Fail, Posting, NoPost
    <3>2. CASE j # i /\ post[j].at = "posting"
      <4>1. post[j] \in Post
        BY <3>2, PostKinds
      <4>2. post'[j].at = post[j].at /\ post'[j].sink = post[j].sink
        BY <1>6, <3>2, <4>1 DEF Fail, Post
      <4> QED
        BY <3>2, <4>2 DEF Posting
    <3>3. CASE j # i /\ post[j].at # "posting"
      <4>1. post'[j] = post[j]
        BY <1>6, <3>3 DEF Fail
      <4> QED
        BY <3>3, <4>1 DEF Posting
    <3> QED
      BY <3>1, <3>2, <3>3
  <2>6. /\ sink'[s].failures = n
        /\ sink'[s].open <=> sink[s].open \/ opens
        /\ \A r \in Sinks \ {s} : sink'[r] = sink[r]
    <3> HIDE DEF n, opens
    <3> QED
      BY <2>1, <2>4 DEF SinkTypeOK, SinkState
  <2>7. \A r \in Sinks \ {s} : Circuit(r)' = Circuit(r)
    BY <2>6 DEF Circuit
  <2>8. CASE opens
    <3> HIDE DEF n, opens
    <3>1. Circuit(s)' = "open"
      BY <2>6, <2>8 DEF Circuit
    <3>2. \A r \in Sinks : Circuit(r)' = IF r = s THEN "open" ELSE Circuit(r)
      BY <2>7, <3>1
    <3>3. Breaker!CallFails(s, i)
      BY <2>1, <2>2, <2>5, <3>2 DEF Breaker!CallFails
    <3> QED
      BY <2>0, <3>3
  <2>9. CASE ~opens
    <3>1. Circuit(s) = "closed"
      BY <2>3, <2>9
    <3>2. ~sink'[s].open /\ ~(sink'[s].failures >= MaxFailures)
      BY <2>6, <2>9, <3>1 DEF Circuit
    <3>3. Circuit(s)' = "closed"
      BY <3>2 DEF Circuit
    <3>4. \A r \in Sinks : Circuit(r)' = Circuit(r)
      BY <2>7, <3>1, <3>3
    <3>5. Breaker!CallFails(s, i)
      BY <2>1, <2>2, <2>5, <3>1, <3>4 DEF Breaker!CallFails
    <3> QED
      BY <2>0, <3>5
  <2> QED
    BY <2>8, <2>9
<1>7. CASE UNCHANGED sinkVars
  <2>1. \A r \in Sinks : Circuit(r)' = Circuit(r)
    BY <1>7 DEF sinkVars, Circuit
  <2>2. \A r \in Sinks : Posting(r)' = Posting(r)
    BY <1>7 DEF sinkVars, Posting
  <2> QED
    BY <2>1, <2>2, Stutters
<1>8. \A i \in Slots : Admit(i) \/ Succeed(i) \/ Fail(i) => post[i].sink \in Sinks
  BY PostKinds DEF Admit, Succeed, Fail
<1> QED
  BY <1>1, <1>2, <1>3, <1>4, <1>5, <1>6, <1>7, <1>8 DEF SinkNext, CallStep, Breaker!BreakerNext

(* A half-open circuit of the abstract breaker has a call under way.       *)
LEMMA BreakerProbed ==
  /\ Breaker!BreakerInit => Breaker!HalfOpenIsProbed
  /\ Breaker!HalfOpenIsProbed /\ [Breaker!BreakerNext]_(Breaker!breakerVars)
       => Breaker!HalfOpenIsProbed'
<1>1. Breaker!BreakerInit => Breaker!HalfOpenIsProbed
  BY DEF Breaker!BreakerInit, Breaker!HalfOpenIsProbed
<1>2. Breaker!HalfOpenIsProbed /\ [Breaker!BreakerNext]_(Breaker!breakerVars)
        => Breaker!HalfOpenIsProbed'
  BY DEF Breaker!HalfOpenIsProbed, Breaker!BreakerNext, Breaker!breakerVars,
         Breaker!AdmitCall, Breaker!CallSucceeds, Breaker!CallFails
<1> QED
  BY <1>1, <1>2

(* An open circuit that closes was half-opened after its reset time, or    *)
(* by the success of a call that was admitted before it opened.            *)
LEMMA ClosesByStaleAnswer ==
  ASSUME SinkInvariant, [SinkNext]_sinkVars, NEW s \in Sinks, sink[s].open, ~sink'[s].open
  PROVE  \/ sink[s].cooled /\ sink'[s].failures = sink[s].failures
         \/ \E i \in Slots : post[i].at = "posting" /\ post[i].sink = s /\ post[i].outlived
                               /\ post'[i] = NoPost
<1> USE DEF SinkInvariant
<1>1. CASE \E i \in Slots : Admit(i)
  <2>1. PICK i \in Slots : Admit(i)
    BY <1>1
  <2>2. post[i].sink = s
    BY <2>1, PostKinds DEF Admit, SinkTypeOK, SinkState
  <2> QED
    BY <2>1, <2>2 DEF Admit, SinkTypeOK, SinkState
<1>2. CASE \E i \in Slots : Succeed(i)
  <2>1. PICK i \in Slots : Succeed(i)
    BY <1>2
  <2>2. post[i].sink = s
    BY <2>1, PostKinds DEF Succeed, SinkTypeOK, SinkState
  <2>3. post[i].at = "posting" /\ post'[i] = NoPost
    BY <2>1 DEF Succeed, SinkTypeOK
  <2> QED
    BY <2>2, <2>3 DEF OpenIsOutlived
<1>3. CASE \E i \in Slots : Fail(i)
  <2>1. PICK i \in Slots : Fail(i)
    BY <1>3
  <2>2. sink'[s].open
    BY <2>1, PostKinds DEF Fail, SinkTypeOK, SinkState
  <2> QED
    BY <2>2
<1>4. CASE \E r \in Sinks : Cool(r) \/ SetEnabled(r)
  BY <1>4 DEF Cool, SetEnabled, SinkTypeOK, SinkState
<1>5. CASE \E i \in Slots : CheckEnabled(i) \/ Refuse(i) \/ Retry(i) \/ \E r \in Sinks : SendSingle(i, r)
  BY <1>5 DEF CheckEnabled, Refuse, Retry, SendSingle
<1>6. CASE UNCHANGED sinkVars
  BY <1>6 DEF sinkVars
<1> QED
  BY <1>1, <1>2, <1>3, <1>4, <1>5, <1>6 DEF SinkNext, CallStep

(* The sinks on their own implement the circuit breaker, keep a probe      *)
(* under way while a circuit is half open, and close an open circuit by a  *)
(* success only when the answer is stale.                                  *)
THEOREM SinksRefineBreaker ==
  SinkSpec => RefinesBreaker /\ []ProbeUnderWay /\ OnlyStaleAnswersClose
<1>1. SinkInvariant /\ [SinkNext]_sinkVars =>
        [\A s \in Sinks : sink[s].open /\ ~sink'[s].open =>
           \/ sink[s].cooled /\ sink'[s].failures = sink[s].failures
           \/ \E i \in Slots : post[i].at = "posting" /\ post[i].sink = s /\ post[i].outlived
                                 /\ post'[i] = NoPost]_sinkVars
  BY ClosesByStaleAnswer
<1> QED
  BY <1>1, SinksTyped, InitRefines, NextRefines, BreakerProbed, PTL
     DEF SinkSpec, RefinesBreaker, Breaker!BreakerSpec, ProbeUnderWay, OnlyStaleAnswersClose

-----------------------------------------------------------------------------
(* The manager in front of the sinks.                                      *)

(* The arrays are sequences, and only a call spent adds one; the manager's *)
(* view lies within its array and holds sinks.                             *)
ArraysInv ==
  /\ arrays \in Seq(Seq(Sinks \cup {None}))
  /\ Len(arrays) <= spent + 1
  /\ spent \in 0..Budget
ViewInv ==
  /\ view \in [arr : Nat, len : Nat]
  /\ view.arr \in 1..Len(arrays)
  /\ view.len <= Len(arrays[view.arr])
  /\ \A k \in 1..view.len : arrays[view.arr][k] \in Sinks

(* What is true of the goroutine e of an alert: before its walk; of what   *)
(* it has handed over in all; of whom it has handed it to; and of the      *)
(* array under it, whose part it walks only a removal can change.          *)
BeforeWalk(e) == e.next = 1 /\ e.holds = None /\ e.handed = <<>>
Progress(e) ==
  /\ Len(e.copied) = e.len
  /\ e.next \in 1..(e.len + 1)
  /\ Len(e.handed) = IF e.holds = None THEN e.next - 1 ELSE e.next - 2
  /\ e.at = "done" => e.next = e.len + 1 /\ e.holds = None
Served(e) ==
  ~e.moved => /\ \A k \in 1..Len(e.handed) : e.handed[k] = e.copied[k]
              /\ e.holds # None => e.holds = e.copied[e.next - 1]
OnArray(e) ==
  e.at = "walking" =>
    /\ e.arr \in 1..Len(arrays) /\ e.len <= Len(arrays[e.arr])
    /\ \A k \in 1..e.len : arrays[e.arr][k] \in Sinks
    /\ ~e.moved => /\ \A k \in 1..e.len : arrays[e.arr][k] = e.copied[k]
                   /\ e.arr = view.arr => e.len <= view.len

SenderInv(e) ==
  /\ e \in Sender
  /\ IF e.at \in {"none", "owed"} THEN BeforeWalk(e) ELSE Progress(e) /\ Served(e)
  /\ OnArray(e)

RestInv ==
  /\ file \in [open : BOOLEAN, lines : SUBSET Emitted]
  /\ process \in {"running", "exited"}

OutputInvariant ==
  /\ SinkInvariant
  /\ ArraysInv /\ ViewInv /\ RestInv
  /\ sender \in [Emitted -> Sender]
  /\ \A a \in Emitted : SenderInv(sender[a])

-----------------------------------------------------------------------------

(* The invariant contains the types of the module.                         *)
LEMMA InvariantTyped == OutputInvariant => OutputTypeOK
<1> SUFFICES ASSUME OutputInvariant PROVE OutputTypeOK
  OBVIOUS
<1>1. /\ DOMAIN arrays = 1..Len(arrays)
      /\ \A k \in 1..Len(arrays) : arrays[k] \in Seq(Sinks \cup {None})
  BY LenProperties, ElementOfSeq DEF OutputInvariant, ArraysInv
<1>2. Len(arrays[view.arr]) \in Nat
  BY <1>1, LenProperties DEF OutputInvariant, ViewInv
<1> QED
  BY <1>1, <1>2 DEF OutputInvariant, OutputTypeOK, SinkInvariant, ArraysInv, ViewInv, RestInv

(* The invariant contains what is wanted of the walks.                     *)
LEMMA InvariantServes == OutputInvariant => EachSinkOnce
<1> SUFFICES ASSUME OutputInvariant, NEW a \in Emitted, sender[a].at = "done"
             PROVE  /\ Len(sender[a].handed) = Len(sender[a].copied)
                    /\ ~sender[a].moved => sender[a].handed = sender[a].copied
  BY DEF EachSinkOnce
<1> DEFINE e == sender[a]
<1>1. e \in Sender /\ Progress(e) /\ Served(e) /\ e.at = "done"
  BY DEF OutputInvariant, SenderInv
<1> HIDE DEF e
<1>2. e.handed \in Seq(Sinks) /\ e.copied \in Seq(Sinks) /\ e.len \in Nat
  BY <1>1 DEF Sender
<1>3. Len(e.handed) = Len(e.copied)
  BY <1>1, <1>2 DEF Progress
<1>4. ~e.moved => e.handed = e.copied
  BY <1>1, <1>2, <1>3, SeqEqual DEF Served
<1> QED
  BY <1>3, <1>4 DEF e

(* The delivery starts with nothing on its way and the configured sinks.   *)
LEMMA OutputInitInvariant == OutputInit => OutputInvariant
<1> SUFFICES ASSUME OutputInit PROVE OutputInvariant
  OBVIOUS
<1> USE OutputAssumption
<1>1. SinkInvariant
  BY InitInvariant DEF OutputInit
<1>2. /\ arrays = <<Configured>> /\ Len(arrays) = 1 /\ arrays[1] = Configured
      /\ Configured \in Seq(Sinks \cup {None})
  BY SeqMonotonic DEF OutputInit
<1>3. ArraysInv /\ RestInv
  BY <1>2 DEF OutputInit, ArraysInv, RestInv
<1>4. ViewInv
  BY <1>2, LenProperties, ElementOfSeq DEF OutputInit, ViewInv
<1>5. NoSender \in Sender
  BY EmptySeq DEF NoSender, Sender
<1>6. \A a \in Emitted : SenderInv(sender[a])
  BY <1>5 DEF OutputInit, SenderInv, BeforeWalk, OnArray, NoSender
<1> QED
  BY <1>1, <1>3, <1>4, <1>5, <1>6 DEF OutputInvariant, OutputInit

-----------------------------------------------------------------------------

(* Two shapes of step.  One goroutine moves and the sinks' slice does not. *)
LEMMA OneSenderMoves ==
  ASSUME OutputInvariant, SinkInvariant', NEW a \in Emitted, NEW e,
         sender' = [sender EXCEPT ![a] = e], SenderInv(e), RestInv',
         UNCHANGED <<arrays, view>>, spent' \in {spent, spent + 1}, spent' \in 0..Budget
  PROVE  OutputInvariant'
<1>1. ArraysInv' /\ ViewInv'
  BY LenProperties DEF OutputInvariant, ArraysInv, ViewInv
<1>2. sender' \in [Emitted -> Sender]
  BY DEF OutputInvariant, SenderInv
<1>3. ASSUME NEW b \in Emitted PROVE SenderInv(sender[b])'
  <2>1. SenderInv(sender'[b])
    BY DEF OutputInvariant
  <2> QED
    BY <2>1 DEF SenderInv, BeforeWalk, Progress, Served, OnArray
<1> QED
  BY <1>1, <1>2, <1>3 DEF OutputInvariant

(* The slice changes and the goroutines stay where they are.               *)
LEMMA SliceMoves ==
  ASSUME OutputInvariant, UNCHANGED sinkVars, RestInv', ArraysInv', ViewInv',
         sender' \in [Emitted -> Sender],
         \A b \in Emitted :
           /\ sender'[b] = sender[b] \/ sender'[b] = [sender[b] EXCEPT !.moved = TRUE]
           /\ OnArray(sender[b])'
  PROVE  OutputInvariant'
<1>1. SinkInvariant'
  BY NextInvariant DEF OutputInvariant
<1>2. ASSUME NEW b \in Emitted PROVE SenderInv(sender[b])'
  <2>1. SenderInv(sender[b])
    BY DEF OutputInvariant
  <2>2. sender'[b] \in Sender
    OBVIOUS
  <2>3. IF sender'[b].at \in {"none", "owed"} THEN BeforeWalk(sender'[b])
        ELSE Progress(sender'[b]) /\ Served(sender'[b])
    <3>1. CASE sender'[b] = sender[b]
      BY <2>1, <3>1 DEF SenderInv
    <3>2. CASE sender'[b] = [sender[b] EXCEPT !.moved = TRUE]
      BY <2>1, <3>2 DEF SenderInv, Sender, BeforeWalk, Progress, Served
    <3> QED
      BY <3>1, <3>2
  <2> QED
    BY <2>2, <2>3 DEF SenderInv, BeforeWalk, Progress, Served
<1> QED
  BY <1>1, <1>2 DEF OutputInvariant

(* A step of the sinks alone.                                              *)
LEMMA SinksMove ==
  ASSUME OutputInvariant, [SinkNext]_sinkVars, UNCHANGED <<sender, arrays, view>>,
         spent' \in {spent, spent + 1}, spent' \in 0..Budget, RestInv'
  PROVE  OutputInvariant'
<1>1. SinkInvariant'
  BY NextInvariant DEF OutputInvariant
<1>2. ArraysInv' /\ ViewInv'
  BY LenProperties DEF OutputInvariant, ArraysInv, ViewInv
<1>3. ASSUME NEW b \in Emitted PROVE SenderInv(sender[b])'
  <2>1. SenderInv(sender[b])
    BY DEF OutputInvariant
  <2> QED
    BY <2>1 DEF SenderInv, BeforeWalk, Progress, Served, OnArray
<1> QED
  BY <1>1, <1>2, <1>3 DEF OutputInvariant

-----------------------------------------------------------------------------

(* An alert is emitted: its goroutine has yet to look at the sinks.        *)
LEMMA EmitKeeps ==
  ASSUME OutputInvariant, NEW a \in Emitted, Emit(a)
  PROVE  OutputInvariant'
<1> DEFINE e == [sender[a] EXCEPT !.at = "owed"]
<1>1. SenderInv(sender[a]) /\ sender[a] \in Sender /\ sender[a].at = "none"
  BY DEF OutputInvariant, Emit, SenderInv
<1>2. SenderInv(e)
  BY <1>1 DEF SenderInv, Sender, BeforeWalk, OnArray
<1>3. SinkInvariant'
  BY NextInvariant DEF OutputInvariant, Emit
<1>4. RestInv'
  BY DEF OutputInvariant, RestInv, Emit
<1>5. spent' = spent + 1 /\ spent' \in 0..Budget
  BY OutputAssumption DEF OutputInvariant, ArraysInv, Emit
<1> QED
  BY <1>2, <1>3, <1>4, <1>5, OneSenderMoves DEF Emit

(* The walk begins on the manager's array, with all the sinks in view.     *)
LEMMA CopyViewKeeps ==
  ASSUME OutputInvariant, NEW a \in Emitted, CopyView(a)
  PROVE  OutputInvariant'
<1> DEFINE e == [sender[a] EXCEPT !.at = "walking", !.arr = view.arr, !.len = view.len,
                                  !.copied = Viewed]
<1>1. SenderInv(sender[a]) /\ sender[a] \in Sender /\ sender[a].at = "owed"
      /\ BeforeWalk(sender[a])
  BY DEF OutputInvariant, CopyView, SenderInv
<1>2. /\ view.len \in Nat
      /\ \A k \in 1..view.len : arrays[view.arr][k] \in Sinks
      /\ view.arr \in 1..Len(arrays) /\ view.len <= Len(arrays[view.arr])
  BY DEF OutputInvariant, ViewInv
<1>3. /\ Viewed \in Seq(Sinks) /\ Len(Viewed) = view.len
      /\ \A k \in 1..view.len : Viewed[k] = arrays[view.arr][k]
  BY <1>2, SubSeqProperties DEF Viewed
<1>4. view.arr \in 1..(Budget + 1)
  BY <1>2, LenProperties, OutputAssumption DEF OutputInvariant, ArraysInv
<1>5. e \in Sender
  BY <1>1, <1>2, <1>3, <1>4 DEF Sender
<1> HIDE DEF Viewed
<1>6. Progress(e) /\ Served(e) /\ OnArray(e) /\ e.at = "walking"
  BY <1>1, <1>2, <1>3, EmptySeq DEF Sender, BeforeWalk, Progress, Served, OnArray
<1>7. SenderInv(e)
  BY <1>5, <1>6 DEF SenderInv
<1>8. SinkInvariant' /\ RestInv'
  BY NextInvariant DEF OutputInvariant, RestInv, CopyView
<1>9. spent' \in 0..Budget /\ spent' = spent
  BY DEF OutputInvariant, ArraysInv, CopyView
<1> QED
  BY <1>7, <1>8, <1>9, OneSenderMoves DEF CopyView

(* The walk reads a sink, from the array it is on, or ends.                *)
LEMMA FetchKeeps ==
  ASSUME OutputInvariant, NEW a \in Emitted, Fetch(a)
  PROVE  OutputInvariant'
<1> DEFINE old == sender[a]
<1>1. old \in Sender /\ old.at = "walking" /\ old.holds = None
      /\ Progress(old) /\ Served(old) /\ OnArray(old)
  BY DEF OutputInvariant, Fetch, SenderInv
<1>2. SinkInvariant' /\ RestInv'
  BY NextInvariant DEF OutputInvariant, RestInv, Fetch
<1>3. spent' \in 0..Budget /\ spent' = spent /\ UNCHANGED <<arrays, view>>
  BY DEF OutputInvariant, ArraysInv, Fetch
<1>4. CASE old.next > old.len
  <2> DEFINE new == [old EXCEPT !.at = "done"]
  <2>1. sender' = [sender EXCEPT ![a] = new]
    BY <1>4 DEF Fetch
  <2>2. SenderInv(new)
    <3> HIDE DEF old
    <3>1. new \in Sender /\ new.at = "done" /\ old.next = old.len + 1
      BY <1>1, <1>4 DEF Sender, Progress
    <3>2. /\ new.len = old.len /\ new.next = old.next /\ new.copied = old.copied
          /\ new.handed = old.handed /\ new.holds = old.holds /\ new.moved = old.moved
      BY <1>1 DEF Sender
    <3> HIDE DEF new
    <3>3. Progress(new) /\ Served(new)
      BY <1>1, <3>1, <3>2 DEF Progress, Served
    <3>4. OnArray(new)
      BY <3>1 DEF OnArray
    <3> QED
      BY <3>1, <3>3, <3>4 DEF SenderInv
  <2> HIDE DEF new
  <2> QED
    BY <1>2, <1>3, <2>1, <2>2, OneSenderMoves
<1>5. CASE ~(old.next > old.len)
  <2> DEFINE s == arrays[old.arr][old.next]
             n == old.next + 1
             new == [old EXCEPT !.holds = s, !.next = n]
  <2>1. sender' = [sender EXCEPT ![a] = new]
    BY <1>5 DEF Fetch
  <2>2. SenderInv(new)
    <3> HIDE DEF old
    <3>1. old.next \in 1..old.len /\ old.len \in Nat
      BY <1>1, <1>5 DEF Sender, Progress
    <3>2. s \in Sinks /\ s # None /\ (~old.moved => s = old.copied[old.next])
      BY <1>1, <3>1, OutputAssumption DEF OnArray
    <3>a. n \in Nat
      BY <3>1
    <3> HIDE DEF s, n
    <3>3. /\ new \in Sender /\ new.holds = s /\ new.next = n
          /\ new.at = "walking" /\ new.len = old.len /\ new.copied = old.copied
          /\ new.handed = old.handed /\ new.arr = old.arr /\ new.moved = old.moved
      BY <1>1, <3>2, <3>a DEF Sender
    <3> HIDE DEF new
    <3>4. new.next = old.next + 1 /\ new.next - 1 = old.next /\ new.next - 2 = old.next - 1
      BY <3>1, <3>3 DEF n
    <3>5. Progress(new)
      BY <1>1, <3>1, <3>2, <3>3, <3>4 DEF Progress
    <3>6. Served(new)
      BY <1>1, <3>2, <3>3, <3>4 DEF Served
    <3>7. OnArray(new)
      BY <1>1, <3>3 DEF OnArray
    <3> QED
      BY <3>3, <3>5, <3>6, <3>7 DEF SenderInv
  <2> HIDE DEF new
  <2> QED
    BY <1>2, <1>3, <2>1, <2>2, OneSenderMoves
<1> QED
  BY <1>4, <1>5

(* The sink that was read gets the alert.                                  *)
LEMMA HandOverKeeps ==
  ASSUME OutputInvariant, NEW a \in Emitted, NEW i \in Slots, HandOver(a, i)
  PROVE  OutputInvariant'
<1> DEFINE old == sender[a]
           new == [old EXCEPT !.holds = None, !.handed = Append(old.handed, old.holds)]
<1>1. old \in Sender /\ old.holds \in Sinks /\ old.holds # None
  BY DEF OutputInvariant, HandOver, Sender
<1>2. /\ old.at \in {"walking", "done"} /\ Progress(old) /\ Served(old) /\ OnArray(old)
  BY <1>1 DEF OutputInvariant, SenderInv, BeforeWalk, Sender
<1>3. sender' = [sender EXCEPT ![a] = new]
  BY DEF HandOver
<1>4. SenderInv(new)
  <2>1. SenderInv(sender[a])
    BY DEF OutputInvariant
  <2> HIDE DEF old
  <2>2. /\ old.handed \in Seq(Sinks)
        /\ Append(old.handed, old.holds) \in Seq(Sinks)
        /\ Len(Append(old.handed, old.holds)) = Len(old.handed) + 1
        /\ \A k \in 1..Len(old.handed) : Append(old.handed, old.holds)[k] = old.handed[k]
        /\ Append(old.handed, old.holds)[Len(old.handed) + 1] = old.holds
    BY <1>1, AppendProperties DEF Sender
  <2>3. Len(old.handed) \in Nat /\ old.len \in Nat /\ old.next \in Nat
    BY <1>1, <2>2, LenProperties DEF Sender
  <2>4. /\ new \in Sender /\ new.holds = None /\ new.handed = Append(old.handed, old.holds)
        /\ new.at = old.at /\ new.len = old.len /\ new.copied = old.copied
        /\ new.next = old.next /\ new.arr = old.arr /\ new.moved = old.moved
    BY <1>1, <2>2 DEF Sender
  <2> HIDE DEF new
  <2>5. Progress(new)
    BY <1>1, <1>2, <2>2, <2>3, <2>4 DEF Progress
  <2>6. Served(new)
    BY <1>1, <1>2, <2>2, <2>3, <2>4 DEF Progress, Served
  <2>7. OnArray(new)
    BY <1>2, <2>4 DEF OnArray
  <2> QED
    BY <1>2, <2>4, <2>5, <2>6, <2>7 DEF SenderInv
<1>5. SinkInvariant' /\ RestInv'
  BY <1>1, NextInvariant DEF OutputInvariant, RestInv, HandOver, SinkNext
<1>6. spent' \in 0..Budget /\ spent' = spent
  BY DEF OutputInvariant, ArraysInv, HandOver
<1> HIDE DEF new
<1> QED
  BY <1>3, <1>4, <1>5, <1>6, OneSenderMoves DEF HandOver

-----------------------------------------------------------------------------

(* The manager's slice moves to a new array: the walks stay on the old.    *)
LEMMA NewArrayKeeps ==
  ASSUME OutputInvariant, UNCHANGED sinkVars, RestInv', UNCHANGED sender,
         NEW N \in Seq(Sinks \cup {None}), NEW m \in 0..Len(N),
         \A k \in 1..m : N[k] \in Sinks,
         arrays' = Append(arrays, N), view' = [arr |-> Len(arrays) + 1, len |-> m],
         spent' = spent + 1, spent' \in 0..Budget
  PROVE  OutputInvariant'
<1>1. /\ arrays' \in Seq(Seq(Sinks \cup {None})) /\ Len(arrays') = Len(arrays) + 1
      /\ \A n \in 1..Len(arrays) : arrays'[n] = arrays[n]
      /\ arrays'[Len(arrays) + 1] = N
      /\ Len(arrays) \in Nat /\ Len(N) \in Nat
  BY AppendProperties, LenProperties DEF OutputInvariant, ArraysInv
<1>2. ArraysInv'
  BY <1>1 DEF OutputInvariant, ArraysInv
<1>3. ViewInv'
  BY <1>1 DEF ViewInv
<1>4. ASSUME NEW b \in Emitted PROVE OnArray(sender[b])'
  <2> DEFINE e == sender[b]
  <2>1. OnArray(e) /\ e' = e
    BY DEF OutputInvariant, SenderInv
  <2> SUFFICES ASSUME e.at = "walking"
               PROVE  OnArray(e)'
    BY <2>1 DEF OnArray
  <2> HIDE DEF e
  <2>2. e.arr \in 1..Len(arrays) /\ arrays'[e.arr] = arrays[e.arr] /\ e.arr # view'.arr
    BY <1>1, <2>1 DEF OnArray
  <2>3. e.arr \in 1..Len(arrays')
    BY <1>1, <2>2
  <2> QED
    BY <2>1, <2>2, <2>3 DEF OnArray
<1>5. sender' \in [Emitted -> Sender]
  BY DEF OutputInvariant
<1> QED
  BY <1>2, <1>3, <1>4, <1>5, SliceMoves

(* Close gives the manager a new, empty slice.                             *)
LEMMA CloseEmitterKeeps == OutputInvariant /\ CloseEmitter => OutputInvariant'
<1> SUFFICES ASSUME OutputInvariant, CloseEmitter PROVE OutputInvariant'
  OBVIOUS
<1>1. PICK N \in Seq(Sinks \cup {None}) : N = <<>> /\ Len(N) = 0
  BY EmptySeq
<1>2. RestInv'
  BY DEF OutputInvariant, RestInv, CloseEmitter
<1>3. spent' = spent + 1 /\ spent' \in 0..Budget
  BY OutputAssumption DEF OutputInvariant, ArraysInv, CloseEmitter
<1>4. PICK m \in 0..Len(N) : m = 0
  BY <1>1
<1>5. /\ \A k \in 1..m : N[k] \in Sinks
      /\ arrays' = Append(arrays, N) /\ view' = [arr |-> Len(arrays) + 1, len |-> m]
      /\ UNCHANGED <<sinkVars, sender>>
  BY <1>1, <1>4 DEF CloseEmitter
<1> QED
  BY <1>2, <1>3, <1>5, NewArrayKeeps

(* The manager's own array, as the change of one of its places needs it.   *)
LEMMA ViewedArray ==
  ASSUME OutputInvariant
  PROVE  /\ arrays[view.arr] \in Seq(Sinks \cup {None})
         /\ view.arr \in 1..Len(arrays) /\ view.len \in 0..Len(arrays[view.arr])
         /\ Len(arrays[view.arr]) \in Nat /\ Len(arrays) \in Nat
         /\ DOMAIN arrays[view.arr] = 1..Len(arrays[view.arr])
         /\ Len(Viewed) = view.len
         /\ \A k \in 1..view.len : Viewed[k] = arrays[view.arr][k] /\ Viewed[k] \in Sinks
<1>1. view.arr \in 1..Len(arrays) /\ view.len \in Nat /\ view.len <= Len(arrays[view.arr])
  BY DEF OutputInvariant, ViewInv
<1>2. arrays[view.arr] \in Seq(Sinks \cup {None})
  BY <1>1, ElementOfSeq DEF OutputInvariant, ArraysInv
<1>3. Len(arrays[view.arr]) \in Nat /\ Len(arrays) \in Nat
      /\ DOMAIN arrays[view.arr] = 1..Len(arrays[view.arr])
  BY <1>2, LenProperties DEF OutputInvariant, ArraysInv
<1>4. \A k \in 1..view.len : arrays[view.arr][k] \in Sinks
  BY DEF OutputInvariant, ViewInv
<1>5. Len(Viewed) = view.len /\ \A k \in 1..view.len : Viewed[k] = arrays[view.arr][k]
  BY <1>1, <1>4, SubSeqProperties DEF Viewed
<1> QED
  BY <1>1, <1>2, <1>3, <1>4, <1>5

(* The manager's array is replaced by N, of the same length: the walks on  *)
(* it must be told what that does to them.                                 *)
LEMMA SameArrayKeeps ==
  ASSUME OutputInvariant, UNCHANGED sinkVars, RestInv',
         NEW N \in Seq(Sinks \cup {None}), Len(N) = Len(arrays[view.arr]),
         NEW m \in 0..Len(N), \A k \in 1..m : N[k] \in Sinks,
         arrays' = [arrays EXCEPT ![view.arr] = N], view' = [view EXCEPT !.len = m],
         spent' = spent + 1, spent' \in 0..Budget,
         sender' \in [Emitted -> Sender],
         \A b \in Emitted :
           /\ sender'[b] = sender[b] \/ sender'[b] = [sender[b] EXCEPT !.moved = TRUE]
           /\ sender[b].at = "walking" /\ sender[b].arr = view.arr =>
                /\ \A k \in 1..sender[b].len : N[k] \in Sinks
                /\ ~sender'[b].moved =>
                     /\ \A k \in 1..sender[b].len : N[k] = sender[b].copied[k]
                     /\ sender[b].len <= m
  PROVE  OutputInvariant'
<1>1. /\ arrays' \in Seq(Seq(Sinks \cup {None})) /\ Len(arrays') = Len(arrays)
      /\ \A n \in 1..Len(arrays) : arrays'[n] = IF n = view.arr THEN N ELSE arrays[n]
  BY ViewedArray, ExceptSeq DEF OutputInvariant, ArraysInv
<1>2. Len(N) \in Nat /\ Len(arrays) \in Nat /\ view.arr \in 1..Len(arrays)
  BY ViewedArray
<1>3. ArraysInv'
  BY <1>1, <1>2 DEF OutputInvariant, ArraysInv
<1>4. view' \in [arr : Nat, len : Nat] /\ view'.arr = view.arr /\ view'.len = m
  BY <1>2 DEF OutputInvariant, ViewInv
<1>5. ViewInv'
  BY <1>1, <1>2, <1>4 DEF ViewInv
<1>6. ASSUME NEW b \in Emitted PROVE OnArray(sender[b])'
  <2>1. PICK e \in Sender : e = sender[b]
    BY DEF OutputInvariant
  <2>2. PICK f \in Sender : f = sender'[b]
    OBVIOUS
  <2>3. OnArray(e)
    BY <2>1 DEF OutputInvariant, SenderInv
  <2>4. /\ f.at = e.at /\ f.arr = e.arr /\ f.len = e.len /\ f.copied = e.copied
        /\ ~f.moved => ~e.moved
    BY <2>1, <2>2 DEF Sender
  <2> SUFFICES ASSUME f.at = "walking"
               PROVE  /\ f.arr \in 1..Len(arrays') /\ f.len <= Len(arrays'[f.arr])
                      /\ \A k \in 1..f.len : arrays'[f.arr][k] \in Sinks
                      /\ ~f.moved => /\ \A k \in 1..f.len : arrays'[f.arr][k] = f.copied[k]
                                     /\ f.arr = view'.arr => f.len <= view'.len
    BY <2>2 DEF OnArray
  <2>5. e.arr \in 1..Len(arrays) /\ e.len <= Len(arrays[e.arr])
    BY <2>3, <2>4 DEF OnArray
  <2>6. CASE e.arr = view.arr
    <3>1. /\ \A k \in 1..e.len : N[k] \in Sinks
          /\ ~f.moved => /\ \A k \in 1..e.len : N[k] = e.copied[k]
                         /\ e.len <= m
      BY <2>1, <2>2, <2>4, <2>6
    <3> QED
      BY <1>1, <1>4, <2>4, <2>5, <2>6, <3>1
  <2>7. CASE e.arr # view.arr
    <3>1. arrays'[e.arr] = arrays[e.arr]
      BY <1>1, <2>5, <2>7
    <3> QED
      BY <1>1, <1>4, <2>3, <2>4, <2>5, <2>7, <3>1 DEF OnArray
  <2> QED
    BY <2>6, <2>7
<1> QED
  BY <1>3, <1>5, <1>6, SliceMoves

(* A sink that is added lies beyond every walk that none was removed under,*)
(* or in an array of its own.                                              *)
LEMMA AddSinkKeeps ==
  ASSUME OutputInvariant, NEW s \in Sinks, AddSink(s)
  PROVE  OutputInvariant'
<1>1. RestInv' /\ UNCHANGED <<sinkVars, sender>>
  BY DEF OutputInvariant, RestInv, AddSink
<1>2. spent' = spent + 1 /\ spent' \in 0..Budget
  BY OutputAssumption DEF OutputInvariant, ArraysInv, AddSink
<1>3. CASE view.len < Len(arrays[view.arr])
  <2> DEFINE A == arrays[view.arr]
             m == view.len + 1
             N == [A EXCEPT ![m] = s]
  <2>1. m \in 1..Len(A) /\ m \in 0..Len(A) /\ m \in Nat
    BY <1>3, ViewedArray
  <2>2. arrays' = [arrays EXCEPT ![view.arr] = N]
    BY <1>3 DEF AddSink
  <2>3. view' = [view EXCEPT !.len = m]
    BY <1>3 DEF AddSink, OutputInvariant, ViewInv
  <2>4. A \in Seq(Sinks \cup {None})
    BY ViewedArray
  <2>5. \A k \in 1..view.len : A[k] \in Sinks
    BY DEF OutputInvariant, ViewInv
  <2> HIDE DEF A
  <2>6. /\ N \in Seq(Sinks \cup {None}) /\ Len(N) = Len(A)
        /\ \A k \in 1..Len(A) : N[k] = IF k = m THEN s ELSE A[k]
    BY <2>1, <2>4, ExceptSeq
  <2> HIDE DEF N
  <2>7. \A k \in 1..m : N[k] \in Sinks
    <3> SUFFICES ASSUME NEW k \in 1..m PROVE N[k] \in Sinks
      OBVIOUS
    <3>1. k \in 1..Len(A) /\ (k # m => k \in 1..view.len)
      BY <2>1, ViewedArray
    <3> QED
      BY <2>5, <2>6, <3>1
  <2>8. ASSUME NEW b \in Emitted, sender[b].at = "walking", sender[b].arr = view.arr
        PROVE  /\ \A k \in 1..sender[b].len : N[k] \in Sinks
               /\ ~sender'[b].moved => /\ \A k \in 1..sender[b].len : N[k] = sender[b].copied[k]
                                       /\ sender[b].len <= m
    <3>1. PICK e \in Sender : e = sender[b] /\ e = sender'[b]
      BY <1>1 DEF OutputInvariant
    <3>2. e.at = "walking" /\ e.arr = view.arr /\ OnArray(e)
      BY <2>8, <3>1 DEF OutputInvariant, SenderInv
    <3>3. /\ e.len \in Nat /\ e.len <= Len(A)
          /\ \A k \in 1..e.len : A[k] \in Sinks
          /\ ~e.moved => /\ \A k \in 1..e.len : A[k] = e.copied[k]
                         /\ e.len <= view.len
      BY <3>2 DEF Sender, OnArray, A
    <3>4. Len(A) \in Nat /\ view.len \in Nat
      BY ViewedArray DEF A
    <3>5. \A k \in 1..e.len : N[k] = IF k = m THEN s ELSE A[k]
      BY <2>6, <3>3, <3>4
    <3>6. ~e.moved => e.len <= m /\ \A k \in 1..e.len : N[k] = A[k]
      BY <3>3, <3>4, <3>5
    <3> QED
      BY <3>1, <3>3, <3>5, <3>6
  <2>9. sender' \in [Emitted -> Sender] /\ \A b \in Emitted : sender'[b] = sender[b]
    BY <1>1 DEF OutputInvariant
  <2>10. Len(N) = Len(arrays[view.arr]) /\ m \in 0..Len(N)
    BY <2>1, <2>6 DEF A
  <2> HIDE DEF m
  <2> QED
    BY <1>1, <1>2, <2>2, <2>3, <2>6, <2>7, <2>8, <2>9, <2>10, SameArrayKeeps
<1>4. CASE ~(view.len < Len(arrays[view.arr]))
  <2> DEFINE room == IF view.len = 0 THEN 1 ELSE 2 * view.len
             m == view.len + 1
             N == [k \in 1..room |->
                     IF k <= view.len THEN Viewed[k] ELSE IF k = view.len + 1 THEN s ELSE None]
  <2>1. arrays' = Append(arrays, N) /\ view' = [arr |-> Len(arrays) + 1, len |-> m]
    BY <1>4 DEF AddSink
  <2>2. view.len \in Nat /\ room \in Nat /\ m \in 1..room
    BY ViewedArray
  <2>3. \A k \in 1..view.len : Viewed[k] \in Sinks
    BY ViewedArray
  <2> HIDE DEF room
  <2>4. N \in [1..room -> Sinks \cup {None}]
    BY <2>2, <2>3
  <2>5. N \in Seq(Sinks \cup {None})
    BY <2>2, <2>4, SeqDef
  <2>6. Len(N) = room
    BY <2>2, <2>5, LenProperties
  <2>7. m \in 0..Len(N) /\ \A k \in 1..m : N[k] \in Sinks
    BY <2>2, <2>3, <2>6
  <2> HIDE DEF N, m
  <2> QED
    BY <1>1, <1>2, <2>1, <2>5, <2>7, NewArrayKeeps
<1> QED
  BY <1>3, <1>4

(* A sink is removed: the walks on the array still read sinks only, and    *)
(* know that one has moved.                                                *)
LEMMA RemoveSinkKeeps ==
  ASSUME OutputInvariant, NEW s \in Sinks, RemoveSink(s)
  PROVE  OutputInvariant'
<1>1. RestInv' /\ UNCHANGED sinkVars
  BY DEF OutputInvariant, RestInv, RemoveSink
<1>2. spent' = spent + 1 /\ spent' \in 0..Budget
  BY OutputAssumption DEF OutputInvariant, ArraysInv, RemoveSink
<1>3. PICK p \in 1..view.len :
        arrays' = [arrays EXCEPT ![view.arr] =
          [j \in DOMAIN @ |-> IF j \in p..(view.len - 1) THEN @[j + 1] ELSE @[j]]]
  BY DEF RemoveSink
<1> DEFINE A == arrays[view.arr]
           m == view.len - 1
           N == [j \in DOMAIN A |-> IF j \in p..m THEN A[j + 1] ELSE A[j]]
<1>4. arrays' = [arrays EXCEPT ![view.arr] = N]
  BY <1>3
<1>5. view' = [view EXCEPT !.len = m]
  BY DEF RemoveSink, OutputInvariant, ViewInv
<1>6. /\ A \in Seq(Sinks \cup {None}) /\ Len(A) \in Nat /\ DOMAIN A = 1..Len(A)
      /\ view.len \in 1..Len(A) /\ m \in 0..Len(A)
      /\ \A j \in 1..Len(A) : A[j] \in Sinks \cup {None}
      /\ \A j \in 1..view.len : A[j] \in Sinks
  BY ViewedArray, ElementOfSeq
<1> HIDE DEF A
<1>7. \A j \in 1..Len(A) : N[j] = IF j \in p..m THEN A[j + 1] ELSE A[j]
  BY <1>6
<1>8. \A j \in p..m : j + 1 \in 1..view.len /\ j \in 1..Len(A)
  BY <1>6
<1>9. N \in [1..Len(A) -> Sinks \cup {None}]
  BY <1>6, <1>8
<1>10. N \in Seq(Sinks \cup {None})
  BY <1>6, <1>9, SeqDef
<1>11. Len(N) = Len(A)
  BY <1>6, <1>10, LenProperties
<1> HIDE DEF N
<1>12. \A j \in 1..Len(A) : A[j] \in Sinks => N[j] \in Sinks
  BY <1>6, <1>7, <1>8
<1>13. \A j \in 1..m : N[j] \in Sinks
  BY <1>6, <1>12
<1>14. sender' = [b \in Emitted |->
          IF sender[b].at = "walking" /\ sender[b].arr = view.arr
            THEN [sender[b] EXCEPT !.moved = TRUE] ELSE sender[b]]
  BY DEF RemoveSink
<1>15. sender' \in [Emitted -> Sender]
  <2>1. ASSUME NEW e \in Sender PROVE [e EXCEPT !.moved = TRUE] \in Sender
    BY DEF Sender
  <2>2. \A b \in Emitted : sender[b] \in Sender
    BY DEF OutputInvariant
  <2> QED
    BY <1>14, <2>1, <2>2
<1>16. ASSUME NEW b \in Emitted
       PROVE  sender'[b] = sender[b] \/ sender'[b] = [sender[b] EXCEPT !.moved = TRUE]
  BY <1>14
<1>17. ASSUME NEW b \in Emitted, sender[b].at = "walking", sender[b].arr = view.arr
       PROVE  sender'[b].moved /\ \A k \in 1..sender[b].len : N[k] \in Sinks
  <2>1. PICK e \in Sender : e = sender[b]
    BY DEF OutputInvariant
  <2>2. sender'[b] = [e EXCEPT !.moved = TRUE]
    BY <1>14, <1>17, <2>1
  <2>3. e.at = "walking" /\ e.arr = view.arr /\ OnArray(e)
    BY <1>17, <2>1 DEF OutputInvariant, SenderInv
  <2>4. e.len \in Nat /\ e.len <= Len(A) /\ \A k \in 1..e.len : A[k] \in Sinks
    BY <2>3 DEF Sender, OnArray, A
  <2>5. \A k \in 1..e.len : k \in 1..Len(A)
    BY <1>6, <2>4
  <2> QED
    BY <1>12, <2>1, <2>2, <2>4, <2>5 DEF Sender
<1>18. Len(N) = Len(arrays[view.arr]) /\ m \in 0..Len(N)
  BY <1>6, <1>11 DEF A
<1> HIDE DEF m
<1> QED
  BY <1>1, <1>2, <1>4, <1>5, <1>10, <1>13, <1>15, <1>16, <1>17, <1>18, SameArrayKeeps

-----------------------------------------------------------------------------

(* Whatever the manager and the emitter do, their sinks take a step of     *)
(* their own or none.                                                      *)
LEMMA StepsOfSinks == OutputInvariant /\ [OutputNext]_outputVars => [SinkNext]_sinkVars
<1> SUFFICES ASSUME OutputInvariant, [OutputNext]_outputVars PROVE [SinkNext]_sinkVars
  OBVIOUS
<1>1. ASSUME NEW a \in Emitted, NEW i \in Slots, HandOver(a, i) PROVE SinkNext
  <2>1. sender[a].holds \in Sinks
    BY <1>1 DEF OutputInvariant, HandOver, Sender
  <2> QED
    BY <1>1, <2>1 DEF HandOver, SinkNext
<1>2. ASSUME NEW i \in Slots, CallGoesOn(i) PROVE SinkNext
  BY <1>2 DEF CallGoesOn, SinkNext
<1>3. ASSUME NEW s \in Sinks, SinkCools(s) \/ SwitchSink(s) PROVE SinkNext
  BY <1>3 DEF SinkCools, SwitchSink, SinkNext
<1>4. ASSUME NEW a \in Emitted, Emit(a) \/ CopyView(a) \/ Fetch(a) PROVE UNCHANGED sinkVars
  BY <1>4 DEF Emit, CopyView, Fetch
<1>5. ASSUME NEW s \in Sinks, AddSink(s) \/ RemoveSink(s) PROVE UNCHANGED sinkVars
  BY <1>5 DEF AddSink, RemoveSink
<1>6. CASE CloseEmitter \/ ProcessExits \/ UNCHANGED outputVars
  BY <1>6 DEF CloseEmitter, ProcessExits, outputVars
<1> QED
  BY <1>1, <1>2, <1>3, <1>4, <1>5, <1>6 DEF OutputNext, SenderStep

(* Every step of the delivery keeps its invariant.                         *)
LEMMA OutputNextInvariant == OutputInvariant /\ [OutputNext]_outputVars => OutputInvariant'
<1> SUFFICES ASSUME OutputInvariant, [OutputNext]_outputVars PROVE OutputInvariant'
  OBVIOUS
<1>1. [SinkNext]_sinkVars
  BY StepsOfSinks
<1>2. ASSUME NEW a \in Emitted, Emit(a) \/ SenderStep(a) PROVE OutputInvariant'
  BY <1>2, EmitKeeps, CopyViewKeeps, FetchKeeps, HandOverKeeps DEF SenderStep
<1>3. ASSUME NEW i \in Slots, CallGoesOn(i) PROVE OutputInvariant'
  BY <1>1, <1>3, SinksMove DEF CallGoesOn, OutputInvariant, ArraysInv, RestInv
<1>4. ASSUME NEW s \in Sinks, SinkCools(s) PROVE OutputInvariant'
  BY <1>1, <1>4, SinksMove DEF SinkCools, OutputInvariant, ArraysInv, RestInv
<1>5. ASSUME NEW s \in Sinks, SwitchSink(s) PROVE OutputInvariant'
  <2>1. spent' = spent + 1 /\ spent' \in 0..Budget
    BY <1>5, OutputAssumption DEF SwitchSink, OutputInvariant, ArraysInv
  <2> QED
    BY <1>1, <1>5, <2>1, SinksMove DEF SwitchSink, OutputInvariant, RestInv
<1>6. ASSUME NEW s \in Sinks, AddSink(s) \/ RemoveSink(s) PROVE OutputInvariant'
  BY <1>6, AddSinkKeeps, RemoveSinkKeeps
<1>7. CASE CloseEmitter
  BY <1>7, CloseEmitterKeeps
<1>8. CASE ProcessExits
  BY <1>1, <1>8, SinksMove DEF ProcessExits, OutputInvariant, ArraysInv, RestInv
<1>9. CASE UNCHANGED outputVars
  BY <1>1, <1>9, SinksMove DEF outputVars, OutputInvariant, ArraysInv, RestInv
<1> QED
  BY <1>2, <1>3, <1>4, <1>5, <1>6, <1>7, <1>8, <1>9 DEF OutputNext

(* The inductive invariant holds in every state of the delivery.           *)
THEOREM OutputInvariantHolds == OutputSpec => []OutputInvariant
<1>1. OutputInit => OutputInvariant
  BY OutputInitInvariant
<1>2. OutputInvariant /\ [OutputNext]_outputVars => OutputInvariant'
  BY OutputNextInvariant
<1> QED
  BY <1>1, <1>2, PTL DEF OutputSpec

(* The delivery is well typed: no place of the manager's slice is empty,   *)
(* and it never reaches past its array (AddSink, RemoveSink, Close).       *)
THEOREM OutputTyped == OutputSpec => []OutputTypeOK
BY OutputInvariantHolds, InvariantTyped, PTL

(* Every walk of Send makes as many calls as it found sinks, and serves    *)
(* each of them once and in order unless one is removed under it.          *)
THEOREM ServesEachSinkOnce == OutputSpec => []EachSinkOnce
BY OutputInvariantHolds, InvariantServes, PTL

(* Called through the manager, too, the sinks implement the circuit        *)
(* breaker, keep a probe under way while a circuit is half open, and close *)
(* an open circuit by a success only when the answer is stale.             *)
THEOREM OutputRefinesBreaker ==
  OutputSpec => RefinesBreaker /\ []ProbeUnderWay /\ OnlyStaleAnswersClose
<1>1. OutputInit => SinkInit
  BY DEF OutputInit
<1>2. OutputInvariant /\ [OutputNext]_outputVars => [SinkNext]_sinkVars
  BY StepsOfSinks
<1>3. OutputSpec => SinkSpec
  BY <1>1, <1>2, OutputInvariantHolds, PTL DEF OutputSpec, SinkSpec
<1> QED
  BY <1>3, SinksRefineBreaker, PTL
=============================================================================
