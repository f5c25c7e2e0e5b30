----------------------------- MODULE Correlator -----------------------------
(***************************************************************************)
(* The multi-signal correlator (pkg/correlate/correlate.go).  A rule lists *)
(* signals; a window per rule and group collects the signals that arrive   *)
(* while it is open, and fires once when they satisfy the rule.            *)
(*                                                                         *)
(* ProcessSignal holds the mutex while it visits the rules, in the random  *)
(* order of a Go map: a call is one action that takes the mutex and one    *)
(* step for each rule visited.  Each visit reads the clock anew.           *)
(***************************************************************************)
EXTENDS Integers, FiniteSets

CONSTANTS
  Rules,        \* the rule IDs that may be registered
  Names,        \* signal names
  SignalsOf,    \* the signals of each rule
  Logic,        \* "all" or "any", for each rule
  Span,         \* the Window of each rule, in ticks
  Sources,      \* where signals come from: a process of a container
  GroupOf,      \* the group key that each rule's group_by gives a source
  MaxWindows,   \* maxWindows
  MaxTime,      \* bound of the model: the clock stops here
  MaxSignals    \* bound of the model: the calls of ProcessSignal

ASSUME CorrelatorAssumption ==
  /\ SignalsOf \in [Rules -> (SUBSET Names) \ {{}}]
  /\ Logic \in [Rules -> {"all", "any"}]
  /\ Span \in [Rules -> Nat]
  /\ MaxWindows \in Nat \ {0}
  /\ MaxTime \in Nat /\ MaxSignals \in Nat

Groups == {GroupOf[r][s] : r \in Rules, s \in Sources}

VARIABLES
  now,       \* the clock
  active,    \* the registered rules
  windows,   \* the windows, at most one for a rule and a group
  call,      \* the call of ProcessSignal that holds the mutex, if there is one
  calls,     \* how many calls there have been
  results,   \* the correlations that fired
  lost       \* history: the windows that were evicted or removed with their rule

correlatorVars == <<now, active, windows, call, calls, results, lost>>

Seen == [name : Names, source : Sources, at : Nat]
WindowType == [rule : Rules, group : Groups, start : Nat, seen : SUBSET Seen, fired : BOOLEAN]
Call == [name : Names, source : Sources, rest : SUBSET Rules]
Result == [rule : Rules, group : Groups, start : Nat, at : Nat, seen : SUBSET Seen]

CorrelatorTypeOK ==
  /\ now \in 0 .. MaxTime
  /\ active \subseteq Rules
  /\ windows \subseteq WindowType
  /\ call \subseteq Call /\ Cardinality(call) <= 1
  /\ calls \in 0 .. MaxSignals
  /\ results \subseteq Result
  /\ lost \subseteq WindowType

-----------------------------------------------------------------------------

NamesIn(seen) == {s.name : s \in seen}

(* A mutant: under "all" one signal short of the list is enough.           *)
MatchesShort(r, seen) ==
  IF Logic[r] = "all" THEN Cardinality(SignalsOf[r] \ NamesIn(seen)) <= 1 ELSE seen # {}

(* Matches: what was seen satisfies the rule.                              *)
Matches(r, seen) ==
  IF Logic[r] = "all" THEN SignalsOf[r] \subseteq NamesIn(seen) ELSE seen # {}

(* A mutant: a window closes only after twice its span.                    *)
IsExpiredLate(w) == now - w.start > 2 * Span[w.rule]

IsExpired(w) == now - w.start > Span[w.rule]

At(r, g) == {w \in windows : w.rule = r /\ w.group = g}

(* A mutant: a full table evicts nothing.                                   *)
EvictableNever == {{}}

(* evictEldestWindow, called when the table is full: the windows that may  *)
(* be deleted.  The window that is about to be replaced is one of them,    *)
(* and counts as one when the table is full.                               *)
Evictable ==
  IF Cardinality(windows) >= MaxWindows
  THEN {{w} : w \in {w \in windows : \A v \in windows : w.start <= v.start}}
  ELSE {{}}

(* A mutant: an expired window is reset but for its fired flag.            *)
FreshKeepsFired(r, g) ==
  [rule |-> r, group |-> g, start |-> now, seen |-> {}, fired |-> \E w \in At(r, g) : w.fired]

(* The window that replaces one that is missing or expired.                *)
Fresh(r, g) == [rule |-> r, group |-> g, start |-> now, seen |-> {}, fired |-> FALSE]

(* The window with the signal in it: the last one of each name is kept.    *)
With(w, s) == [w EXCEPT !.seen = {x \in @ : x.name # s.name} \cup {s}]

(* A mutant: a call does not wait for the mutex.                           *)
ProcessSignalUnlocked(name, source) ==
  /\ calls < MaxSignals
  /\ calls' = calls + 1
  /\ call' = call \cup {[name |-> name, source |-> source,
                         rest |-> {r \in active : name \in SignalsOf[r]}]}
  /\ UNCHANGED <<now, active, windows, results, lost>>

(* ProcessSignal takes the mutex.  Only the rules that list the signal     *)
(* matter.                                                                 *)
ProcessSignal(name, source) ==
  /\ call = {} /\ calls < MaxSignals
  /\ calls' = calls + 1
  /\ call' = {[name |-> name, source |-> source,
               rest |-> {r \in active : name \in SignalsOf[r]}]}
  /\ UNCHANGED <<now, active, windows, results, lost>>

(* The loop body for rule r: find or open the window, add the signal, and  *)
(* fire if the rule is now satisfied and has not fired in this window.     *)
(* A rule that fires ends the call; the rules not yet visited never see    *)
(* the signal.                                                             *)
Visit(c, r) ==
  LET g == GroupOf[r][c.source]
      s == [name |-> c.name, source |-> c.source, at |-> now]
      open == {w \in At(r, g) : ~IsExpired(w)}
  IN
  \E evicted \in IF open = {} THEN Evictable ELSE {{}} :
  \E found \in IF open = {} THEN {Fresh(r, g)} ELSE open :
    LET w == With(found, s)
        fires == ~w.fired /\ Matches(r, w.seen)
    IN  /\ windows' = (windows \ (evicted \cup At(r, g)))
                        \cup {[w EXCEPT !.fired = @ \/ fires]}
        /\ lost' = lost \cup {v \in evicted : ~IsExpired(v)}
        /\ results' = IF fires
                      THEN results \cup {[rule |-> r, group |-> g, start |-> w.start,
                                          at |-> now, seen |-> w.seen]}
                      ELSE results
        /\ call' = IF fires THEN {} ELSE {[c EXCEPT !.rest = @ \ {r}]}
        /\ UNCHANGED <<now, active, calls>>

(* No rule is left: nothing fired.                                         *)
Return ==
  /\ \E c \in call : c.rest = {}
  /\ call' = {}
  /\ UNCHANGED <<now, active, windows, calls, results, lost>>

AddRule(r) ==
  /\ call = {} /\ r \notin active
  /\ active' = active \cup {r}
  /\ UNCHANGED <<now, windows, call, calls, results, lost>>

RemoveRule(r) ==
  /\ call = {} /\ r \in active
  /\ active' = active \ {r}
  /\ windows' = {w \in windows : w.rule # r}
  /\ lost' = lost \cup {w \in windows : w.rule = r /\ ~IsExpired(w)}
  /\ UNCHANGED <<now, call, calls, results>>

(* A mutant: the purge deletes a window that has fired at once.            *)
PurgeFired ==
  /\ call = {}
  /\ windows' = {w \in windows : ~IsExpired(w) /\ ~w.fired}
  /\ windows' # windows
  /\ UNCHANGED <<now, active, call, calls, results, lost>>

(* purgeExpiredWindows.                                                    *)
Purge ==
  /\ call = {}
  /\ windows' = {w \in windows : ~IsExpired(w)}
  /\ windows' # windows
  /\ UNCHANGED <<now, active, call, calls, results, lost>>

Tick ==
  /\ now < MaxTime
  /\ now' = now + 1
  /\ UNCHANGED <<active, windows, call, calls, results, lost>>

CorrelatorInit ==
  /\ now = 0
  /\ active = Rules
  /\ windows = {} /\ call = {} /\ calls = 0
  /\ results = {} /\ lost = {}

CorrelatorNext ==
  \/ \E n \in Names, s \in Sources : ProcessSignal(n, s)
  \/ \E c \in call : \E r \in c.rest : Visit(c, r)
  \/ Return
  \/ \E r \in Rules : AddRule(r) \/ RemoveRule(r)
  \/ Purge
  \/ Tick

CorrelatorSpec == CorrelatorInit /\ [][CorrelatorNext]_correlatorVars

-----------------------------------------------------------------------------

(* A correlation fires only on evidence: the signals it reports satisfy    *)
(* the rule, come from sources of its group, and all arrived within the    *)
(* rule's window (ProcessSignal, IsExpired, Matches).                      *)
FiredOnEvidence ==
  \A x \in results :
    /\ Matches(x.rule, x.seen)
    /\ Logic[x.rule] = "all" => NamesIn(x.seen) = SignalsOf[x.rule]
    /\ \A s \in x.seen : /\ GroupOf[x.rule][s.source] = x.group
                         /\ x.at - s.at \in 0 .. Span[x.rule]

(* Two results of a rule and a group come from windows that do not         *)
(* overlap, unless the earlier one was evicted, or its rule was removed:   *)
(* only then does a rule fire again on the same attack ("don't re-fire     *)
(* within same window").                                                   *)
NoRefire ==
  \A x, y \in results :
    x # y /\ x.rule = y.rule /\ x.group = y.group /\ x.start <= y.start =>
      \/ x.start + Span[x.rule] < y.start
      \/ \E w \in lost : w.rule = x.rule /\ w.group = x.group /\ w.start = x.start

(* A window has fired if and only if what it has seen satisfies its rule,  *)
(* and then there is a result for it: no complete correlation stays silent *)
(* whatever happens to windows around it.                                  *)
CompleteMeansFired ==
  \A w \in windows :
    /\ w.fired <=> Matches(w.rule, w.seen)
    /\ w.fired => \E x \in results : x.rule = w.rule /\ x.group = w.group /\ x.start = w.start

(* The table stays within its limit, with one window for a rule and a      *)
(* group.                                                                  *)
TableBounded ==
  /\ Cardinality(windows) <= MaxWindows
  /\ \A v, w \in windows : v.rule = w.rule /\ v.group = w.group => v = w

(* correlate.go:261: "ProcessSignal processes an incoming signal against   *)
(* all correlation rules." When the call ends, each rule that lists the    *)
(* signal has it in its window.                                            *)
SignalReachesAllRules ==
  [][\A c \in call : call' = {} =>
       \A r \in {r \in active : c.name \in SignalsOf[r]} :
         \E w \in windows' : /\ w.rule = r
                              /\ \E s \in w.seen : s.name = c.name /\ s.source = c.source
  ]_correlatorVars
=============================================================================
