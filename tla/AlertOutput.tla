---------------------------- MODULE AlertOutput ----------------------------
(***************************************************************************)
(* The way of an alert out of the agent: AlertEmitter (pkg/output/alert.go)*)
(* and WebhookManager (pkg/output/webhook.go), which hands the alert to    *)
(* the sinks of module WebhookSink.                                        *)
(*                                                                         *)
(* The sinks are a Go slice: a view of an array.  Send walks the view it   *)
(* has copied under the lock, after the lock; RemoveSink shifts the sinks  *)
(* within the array, and AddSink appends in place where there is room.     *)
(***************************************************************************)
EXTENDS WebhookSink, Sequences, FiniteSets

CONSTANTS
  Emitted,       \* the alerts given to Emit, each once
  Configured,    \* the sinks NewWebhookManager starts with, a sequence
  None,          \* no sink
  Budget         \* bound: the calls of Emit, AddSink, RemoveSink, SetEnabled, Close

ASSUME OutputAssumption ==
  Configured \in Seq(Sinks) /\ None \notin Sinks /\ Budget \in Nat

VARIABLES
  file,     \* the alert file: is it open, and the alerts written to it
  sender,   \* sender[a]: the goroutine that sends a to the webhooks
  arrays,   \* the arrays that have held the sinks
  view,     \* WebhookManager.sinks: the number of an array, and a length
  process,    \* "running" or "exited"
  spent     \* bound: those calls so far

outputVars == <<sinkVars, file, sender, arrays, view, process, spent>>

(* sender[a].walk: the view that Send walks, and what the array held when  *)
(* it was copied; holds: the sink Send has read and has no slot for yet.   *)
(* History: handed, the sinks the alert was handed to; moved, whether a    *)
(* sink was removed during the walk.                                       *)
Sender == [at : {"none", "owed", "walking", "done"}, arr : 1..(Budget + 1), len : Nat,
           next : Nat, copied : Seq(Sinks), holds : Sinks \cup {None},
           handed : Seq(Sinks), moved : BOOLEAN]

OutputTypeOK ==
  /\ SinkTypeOK
  /\ file \in [open : BOOLEAN, lines : SUBSET Emitted]
  /\ sender \in [Emitted -> Sender]
  /\ \A k \in DOMAIN arrays : arrays[k] \in Seq(Sinks \cup {None})
  /\ view.arr \in DOMAIN arrays /\ view.len \in 0..Len(arrays[view.arr])
  /\ \A k \in 1..view.len : arrays[view.arr][k] \in Sinks
  /\ process \in {"running", "exited"}
  /\ spent \in 0..Budget

NoSender == [at |-> "none", arr |-> 1, len |-> 0, next |-> 1, copied |-> <<>>,
             holds |-> None, handed |-> <<>>, moved |-> FALSE]

Viewed == SubSeq(arrays[view.arr], 1, view.len)

-----------------------------------------------------------------------------

(* Emit, under the emitter's mutex: the alert is written and a goroutine   *)
(* is started that nobody waits for.                                       *)
Emit(a) ==
  /\ process # "exited" /\ sender[a].at = "none"
  /\ spent < Budget /\ spent' = spent + 1
  /\ file' = IF file.open THEN [file EXCEPT !.lines = @ \cup {a}] ELSE file
  /\ sender' = [sender EXCEPT ![a].at = "owed"]
  /\ UNCHANGED <<sinkVars, arrays, view, process>>

(* Send copies the slice of the sinks under the read lock.                 *)
CopyView(a) ==
  /\ process # "exited" /\ sender[a].at = "owed"
  /\ sender' = [sender EXCEPT ![a] =
       [@ EXCEPT !.at = "walking", !.arr = view.arr, !.len = view.len, !.copied = Viewed]]
  /\ UNCHANGED <<sinkVars, file, arrays, view, process, spent>>

(* A mutant: the walk reads the manager's slice anew for each sink.        *)
FetchCurrent(a) ==
  LET e == sender[a] IN
  /\ process # "exited" /\ e.at = "walking" /\ e.holds = None
  /\ sender' = [sender EXCEPT ![a] =
       IF e.next > view.len THEN [e EXCEPT !.at = "done"]
       ELSE [e EXCEPT !.holds = arrays[view.arr][e.next], !.next = e.next + 1]]
  /\ UNCHANGED <<sinkVars, file, arrays, view, process, spent>>

(* The loop of Send reads the next sink, from whatever the array holds     *)
(* now, or ends.                                                           *)
Fetch(a) ==
  LET e == sender[a] IN
  /\ process # "exited" /\ e.at = "walking" /\ e.holds = None
  /\ sender' = [sender EXCEPT ![a] =
       IF e.next > e.len THEN [e EXCEPT !.at = "done"]
       ELSE [e EXCEPT !.holds = arrays[e.arr][e.next], !.next = e.next + 1]]
  /\ UNCHANGED <<sinkVars, file, arrays, view, process, spent>>

(* Send takes a slot of the semaphore, waiting for one if need be, and     *)
(* starts the goroutine that calls the sink.                               *)
HandOver(a, i) ==
  /\ process # "exited" /\ sender[a].holds # None
  /\ SendSingle(i, sender[a].holds)
  /\ sender' = [sender EXCEPT ![a].holds = None, ![a].handed = Append(@, sender[a].holds)]
  /\ UNCHANGED <<file, arrays, view, process, spent>>

(* A mutant: the slot of a call that ends is not given back.               *)
CallKeepsSlot(i) ==
  /\ process # "exited"
  /\ CallStep(i) /\ post'[i] # NoPost
  /\ UNCHANGED <<file, sender, arrays, view, process, spent>>

(* A call goes on; when it ends it gives its slot back.                    *)
CallGoesOn(i) ==
  /\ process # "exited"
  /\ CallStep(i)
  /\ UNCHANGED <<file, sender, arrays, view, process, spent>>

SinkCools(s) ==
  /\ process # "exited"
  /\ Cool(s)
  /\ UNCHANGED <<file, sender, arrays, view, process, spent>>

SwitchSink(s) ==
  /\ process # "exited" /\ spent < Budget /\ spent' = spent + 1
  /\ SetEnabled(s)
  /\ UNCHANGED <<file, sender, arrays, view, process>>

(* append: in place where the array has room, else into a new array of     *)
(* twice the length.                                                       *)
AddSink(s) ==
  /\ process # "exited" /\ spent < Budget /\ spent' = spent + 1
  /\ IF view.len < Len(arrays[view.arr])
       THEN /\ arrays' = [arrays EXCEPT ![view.arr][view.len + 1] = s]
            /\ view' = [view EXCEPT !.len = @ + 1]
       ELSE LET room == IF view.len = 0 THEN 1 ELSE 2 * view.len IN
            /\ arrays' = Append(arrays, [k \in 1..room |->
                 IF k <= view.len THEN Viewed[k] ELSE IF k = view.len + 1 THEN s ELSE None])
            /\ view' = [arr |-> Len(arrays) + 1, len |-> view.len + 1]
  /\ UNCHANGED <<sinkVars, file, sender, process>>

(* append(sinks[:k], sinks[k+1:]...): the sinks behind k move up, in the   *)
(* array that a Send under way is walking.                                 *)
RemoveSink(s) ==
  /\ process # "exited" /\ spent < Budget /\ spent' = spent + 1
  /\ \E k \in 1..view.len :
       /\ Viewed[k] = s /\ \A j \in 1..(k - 1) : Viewed[j] # s
       /\ arrays' = [arrays EXCEPT ![view.arr] =
            [j \in DOMAIN @ |-> IF j \in k..(view.len - 1) THEN @[j + 1] ELSE @[j]]]
  /\ view' = [view EXCEPT !.len = @ - 1]
  /\ sender' = [a \in Emitted |->
       IF sender[a].at = "walking" /\ sender[a].arr = view.arr
         THEN [sender[a] EXCEPT !.moved = TRUE] ELSE sender[a]]
  /\ UNCHANGED <<sinkVars, file, process>>

(* Close of the emitter: the file is closed, the manager has no sinks left.*)
(* A later Emit fails to write and still starts its goroutine.             *)
CloseEmitter ==
  /\ process # "exited" /\ spent < Budget /\ spent' = spent + 1
  /\ file' = [file EXCEPT !.open = FALSE]
  /\ arrays' = Append(arrays, <<>>)
  /\ view' = [arr |-> Len(arrays) + 1, len |-> 0]
  /\ UNCHANGED <<sinkVars, sender, process>>

(* shutdown ends with Flush, which syncs the file and finds nothing to     *)
(* flush in the sinks; it waits for no sender.  The process ends then,     *)
(* with all its goroutines.                                                *)
ProcessExits ==
  /\ process = "running" /\ process' = "exited"
  /\ UNCHANGED <<sinkVars, file, sender, arrays, view, spent>>

OutputInit ==
  /\ SinkInit
  /\ file = [open |-> TRUE, lines |-> {}]
  /\ sender = [a \in Emitted |-> NoSender]
  /\ arrays = <<Configured>>
  /\ view = [arr |-> 1, len |-> Len(Configured)]
  /\ process = "running"
  /\ spent = 0

SenderStep(a) == CopyView(a) \/ Fetch(a) \/ \E i \in Slots : HandOver(a, i)

OutputNext ==
  \/ \E a \in Emitted : Emit(a) \/ SenderStep(a)
  \/ \E i \in Slots : CallGoesOn(i)
  \/ \E s \in Sinks : SinkCools(s) \/ SwitchSink(s) \/ AddSink(s) \/ RemoveSink(s)
  \/ CloseEmitter \/ ProcessExits

(* Goroutines run; a request ends by an answer or by the client's timeout. *)
OutputFairness ==
  /\ \A a \in Emitted : WF_outputVars(SenderStep(a))
  /\ \A i \in Slots : WF_outputVars(CallGoesOn(i))

OutputSpec == OutputInit /\ [][OutputNext]_outputVars /\ OutputFairness

-----------------------------------------------------------------------------

(* Every sink that was configured when Send copied the slice is given the  *)
(* alert once and in order, whatever the slow sinks, additions and Close;  *)
(* only a sink removed during the walk can make it miss one or serve one   *)
(* twice, and then the number of calls is still that of the copy (Send).   *)
EachSinkOnce ==
  \A a \in Emitted : sender[a].at = "done" =>
    /\ Len(sender[a].handed) = Len(sender[a].copied)
    /\ ~sender[a].moved => sender[a].handed = sender[a].copied

(* Send cannot wait for ever for a slot, although a sink that fails keeps  *)
(* its slot for all its retries and all sinks share the slots: an alert on *)
(* its way is handed over, unless the process ends before, which waits for *)
(* no sender (Emit, Send, shutdown in agent.go).                           *)
AlertsHandedOver ==
  \A a \in Emitted : sender[a].at = "owed" ~> sender[a].at = "done" \/ process = "exited"
=============================================================================
