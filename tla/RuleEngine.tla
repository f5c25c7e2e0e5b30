----------------------------- MODULE RuleEngine -----------------------------
(***************************************************************************)
(* The rule engine (pkg/rules/engine.go): its index of compiled rules,     *)
(* Reload, and Evaluate, which the workers of the pipeline call at the     *)
(* same time under the read lock.                                          *)
(*                                                                         *)
(* A bucket of the index is a Go slice.  Evaluate appends the rules of two *)
(* more buckets to the slice of the event's type: where the array has room *)
(* the appended rules are written into the array that all evaluators and   *)
(* the index share, behind the bucket's length.                            *)
(*                                                                         *)
(* Left out: the texts of a match, and the counters.  What a condition or  *)
(* an exception says of an event is data of the rule here; module          *)
(* Conditions models what a condition says.                                *)
(***************************************************************************)
EXTENDS Naturals, Sequences

CONSTANTS
  Workers,     \* the workers of the pipeline
  Events,      \* [type, cat]: an event type and its category (types.go)
  Baseline,    \* the rules that loadRules loads, in order
  Added,       \* the rules given to AddCompiledRule, in order
  NoMatch,     \* no rule
  MaxReloads   \* bound

(* A CompiledRule: the event types it is filed under (0: any), its         *)
(* category (0: any), the rank of its priority, and the events that its    *)
(* condition holds of and that one of its exceptions suppresses.           *)
Rule == [id : STRING, edition : Nat, types : Seq(Nat), cat : Nat, rank : 0..7,
         enforce : BOOLEAN, holds : SUBSET Events, excepted : SUBSET Events]

ElementsOf(s) == {s[k] : k \in DOMAIN s}
Loadable == ElementsOf(Baseline) \cup ElementsOf(Added)
Keys == {0} \cup (UNION {ElementsOf(r.types) : r \in Loadable})
            \cup (UNION {{e.type, e.cat} : e \in Events})
Ids == {r.id : r \in Loadable}

(* A probe gives each event type it reports one category (pkg/ebpf/probes).  *)
ASSUME EngineAssumption ==
  /\ Events \subseteq [type : Nat, cat : Nat]
  /\ \A e, f \in Events : e.type = f.type => e.cat = f.cat
  /\ Baseline \in Seq(Rule) /\ Added \in Seq(Rule) /\ NoMatch \notin Rule
  /\ MaxReloads \in Nat

VARIABLES
  buckets,   \* buckets[k]: the array, its free places NoMatch, and the length
  rules,     \* rules[id]: the rule loaded last under id, or NoMatch
  filing,    \* what the rule being added has yet to be filed under: the lock is held
  loading,   \* the rules of the baseline that a load in progress has yet to add
  added,     \* how many of Added have been added
  reloads,   \* bound; 0: NewEngine's own load
  eval,      \* eval[w]: the evaluation that w is in, with the read lock held
  log        \* history: log[k], the rules filed under k since the index was cleared

engineVars == <<buckets, rules, filing, loading, added, reloads, eval, log>>

(* own: the candidates, once they have outgrown the shared array; next:    *)
(* the candidate to judge.                                                 *)
Idle == [at |-> "idle"]
Evaluation == [at : {"gather", "judge"}, event : Events, len : Nat, own : Seq(Loadable),
               seen : SUBSET Ids, next : Nat, best : Loadable \cup {NoMatch}]

Filing == [key : Keys, rule : Loadable]
Slice == [items : Seq(Loadable \cup {NoMatch}), len : Nat]

EngineTypeOK ==
  /\ buckets \in [Keys -> Slice] /\ \A k \in Keys : buckets[k].len <= Len(buckets[k].items)
  /\ rules \in [Ids -> Loadable \cup {NoMatch}]
  /\ filing \in Seq(Filing)
  /\ loading \in 0..Len(Baseline) /\ added \in 0..Len(Added) /\ reloads \in 0..MaxReloads
  /\ eval \in [Workers -> {Idle} \cup Evaluation]
  /\ log \in [Keys -> Seq(Loadable)]

-----------------------------------------------------------------------------
(* Slices.                                                                 *)

Bucket(k) == SubSeq(buckets[k].items, 1, buckets[k].len)

(* append: in place where there is room, else into an array twice as long. *)
Push(slice, r) ==
  LET size == Len(slice.items) IN
  [len |-> slice.len + 1,
   items |-> [j \in 1..(IF slice.len < size THEN size ELSE IF size = 0 THEN 1 ELSE 2 * size) |->
                IF j = slice.len + 1 THEN r ELSE IF j <= size THEN slice.items[j] ELSE NoMatch]]

-----------------------------------------------------------------------------
(* Loading.                                                                *)

NoReaders == \A w \in Workers : eval[w] = Idle
Unlocked == filing = <<>> /\ NoReaders
NothingFiled == [k \in Keys |-> <<>>]
EmptyBuckets == [k \in Keys |-> [items |-> <<>>, len |-> 0]]
NoRules == [id \in Ids |-> NoMatch]

(* addCompiledRule takes the lock; the rule replaces its like in rules and *)
(* is to join it in the buckets of its types.                              *)
File(r) ==
  /\ rules' = [rules EXCEPT ![r.id] = r]
  /\ filing' = [j \in DOMAIN r.types |-> [key |-> r.types[j], rule |-> r]]

(* The rule joins the bucket of its next type; the last one frees the lock.*)
FileNext ==
  /\ filing # <<>>
  /\ LET f == Head(filing) IN
     /\ buckets' = [buckets EXCEPT ![f.key] = Push(buckets[f.key], f.rule)]
     /\ log' = [log EXCEPT ![f.key] = Append(log[f.key], f.rule)]
  /\ filing' = Tail(filing)
  /\ UNCHANGED <<rules, loading, added, reloads, eval>>

(* loadRules adds the next rule, taking the lock for it alone.             *)
LoadNext ==
  /\ loading > 0 /\ Unlocked
  /\ File(Baseline[Len(Baseline) - loading + 1])
  /\ loading' = loading - 1
  /\ UNCHANGED <<buckets, added, reloads, eval, log>>

(* A mutant: the rule is filed without the lock.                           *)
AddUnlocked ==
  /\ loading = 0 /\ filing = <<>> /\ added < Len(Added)
  /\ File(Added[added + 1])
  /\ added' = added + 1
  /\ UNCHANGED <<buckets, loading, reloads, eval, log>>

AddCompiledRule ==
  /\ loading = 0 /\ Unlocked /\ added < Len(Added)
  /\ File(Added[added + 1])
  /\ added' = added + 1
  /\ UNCHANGED <<buckets, loading, reloads, eval, log>>

(* Reload clears the index and gives the lock back; then it loads.         *)
Reload ==
  /\ loading = 0 /\ Unlocked /\ reloads < MaxReloads
  /\ buckets' = EmptyBuckets /\ rules' = NoRules /\ log' = NothingFiled
  /\ loading' = Len(Baseline) /\ reloads' = reloads + 1
  /\ UNCHANGED <<filing, added, eval>>

-----------------------------------------------------------------------------
(* Evaluate.                                                               *)

(* The read lock is taken, and the candidates are the bucket of the        *)
(* event's type as it stands.  NewEngine's own load is over by then; the   *)
(* loads of Reload need not be.                                            *)
Lookup(w, e) ==
  /\ eval[w] = Idle /\ filing = <<>> /\ (reloads = 0 => loading = 0)
  /\ eval' = [eval EXCEPT ![w] =
       [at |-> "gather", event |-> e, len |-> buckets[e.type].len, own |-> <<>>,
        seen |-> {r.id : r \in ElementsOf(Bucket(e.type))}, next |-> 1, best |-> NoMatch]]
  /\ UNCHANGED <<buckets, rules, filing, loading, added, reloads, log>>

(* The k-th candidate, as it can be read now.                              *)
Candidate(w, k) ==
  IF eval[w].own = <<>> THEN buckets[eval[w].event.type].items[k] ELSE eval[w].own[k]

(* A mutant: the rules for any event are left out.                         *)
MoreTyped(e) == Bucket(e.cat)

(* Where more candidates come from: the bucket numbered as the event's     *)
(* category, then that of the rules for any event.                         *)
More(e) == Bucket(e.cat) \o Bucket(0)

(* r is the first of these rules with an ID not seen so far.               *)
IsFirstUnseen(r, e, seen) ==
  \E k \in DOMAIN More(e) : /\ r = More(e)[k] /\ r.id \notin seen
                            /\ \A j \in 1..(k - 1) : More(e)[j].id \in seen

(* A mutant: the candidates are appended to the bucket itself.             *)
GatherInBucket(w) ==
  LET t == eval[w].event.type
      n == eval[w].len
      shared == eval[w].own = <<>> /\ n < Len(buckets[t].items)
  IN /\ eval[w].at = "gather"
     /\ \E r \in ElementsOf(More(eval[w].event)) :
          /\ IsFirstUnseen(r, eval[w].event, eval[w].seen)
          /\ buckets' = [buckets EXCEPT ![t] = Push(buckets[t], r)]
          /\ eval' = [eval EXCEPT ![w].len = n + 1, ![w].seen = eval[w].seen \cup {r.id},
               ![w].own = IF shared THEN <<>> ELSE Append([k \in 1..n |-> Candidate(w, k)], r)]
     /\ UNCHANGED <<rules, filing, loading, added, reloads, log>>

(* It is appended to the candidates: into the shared array, or, when that  *)
(* is full, into an array of the evaluation's own.                         *)
Gather(w) ==
  LET t == eval[w].event.type
      n == eval[w].len
      shared == eval[w].own = <<>> /\ n < Len(buckets[t].items)
  IN /\ eval[w].at = "gather"
     /\ \E r \in ElementsOf(More(eval[w].event)) :
          /\ IsFirstUnseen(r, eval[w].event, eval[w].seen)
          /\ buckets' = IF shared THEN [buckets EXCEPT ![t].items[n + 1] = r] ELSE buckets
          /\ eval' = [eval EXCEPT ![w].len = n + 1, ![w].seen = eval[w].seen \cup {r.id},
               ![w].own = IF shared THEN <<>> ELSE Append([k \in 1..n |-> Candidate(w, k)], r)]
     /\ UNCHANGED <<rules, filing, loading, added, reloads, log>>

(* Nothing is left to append.                                              *)
Gathered(w) ==
  /\ eval[w].at = "gather" /\ \A r \in ElementsOf(More(eval[w].event)) : r.id \in eval[w].seen
  /\ eval' = [eval EXCEPT ![w].at = "judge"]
  /\ UNCHANGED <<buckets, rules, filing, loading, added, reloads, log>>

MatchesRule(r, e) ==
  /\ r.cat \in {0, e.cat}
  /\ e \in r.holds
  /\ e \notin r.excepted

(* IsMoreSevere: by priority, then enforce before all other actions.       *)
MoreSevere(r, s) ==
  IF r.rank # s.rank THEN r.rank > s.rank ELSE r.enforce /\ ~s.enforce

(* A candidate is judged; the most severe match so far is kept.            *)
Judge(w) ==
  LET r == Candidate(w, eval[w].next)
      best == eval[w].best
      better == MatchesRule(r, eval[w].event) /\ (best = NoMatch \/ MoreSevere(r, best))
  IN /\ eval[w].at = "judge" /\ eval[w].next <= eval[w].len
     /\ eval' = [eval EXCEPT ![w].next = eval[w].next + 1, ![w].best = IF better THEN r ELSE best]
     /\ UNCHANGED <<buckets, rules, filing, loading, added, reloads, log>>

(* The verdict is returned, and the read lock with it.                     *)
ReturnMatch(w) ==
  /\ eval[w].at = "judge" /\ eval[w].next > eval[w].len
  /\ eval' = [eval EXCEPT ![w] = Idle]
  /\ UNCHANGED <<buckets, rules, filing, loading, added, reloads, log>>

(* NewEngine has yet to load the baseline.                                 *)
EngineInit ==
  /\ buckets = EmptyBuckets /\ rules = NoRules /\ log = NothingFiled
  /\ filing = <<>> /\ loading = Len(Baseline) /\ added = 0 /\ reloads = 0
  /\ eval = [w \in Workers |-> Idle]

EngineNext ==
  \/ FileNext \/ LoadNext \/ AddCompiledRule \/ Reload
  \/ \E w \in Workers :
       \/ \E e \in Events : Lookup(w, e)
       \/ Gather(w) \/ Gathered(w) \/ Judge(w) \/ ReturnMatch(w)

EngineSpec == EngineInit /\ [][EngineNext]_engineVars

-----------------------------------------------------------------------------

(* Each bucket holds the rules filed under it since the index was cleared, *)
(* in order, whatever evaluations have written and are writing into its    *)
(* array (Evaluate appends to a slice of the index with the read lock      *)
(* only; addCompiledRule appends to it later).                             *)
BucketsFollowLog == \A k \in Keys : Bucket(k) = log[k]

FiledUnder(k, id) == \E j \in DOMAIN log[k] : log[k][j].id = id

(* The rules filed first under k of their IDs.                             *)
Eldest(k) ==
  {r \in ElementsOf(log[k]) : \E j \in DOMAIN log[k] :
     log[k][j] = r /\ \A i \in 1..(j - 1) : log[k][i].id # r.id}

(* What is judged, by what was filed: every edition of a rule under the    *)
(* event's type, also the replaced ones; where there is none of an ID, its *)
(* eldest edition under the category; else its eldest for any event.       *)
Due(e) ==
  ElementsOf(log[e.type])
    \cup {r \in Eldest(e.cat) : ~FiledUnder(e.type, r.id)}
    \cup {r \in Eldest(0) : ~FiledUnder(e.type, r.id) /\ ~FiledUnder(e.cat, r.id)}

(* An event is judged by the rule in force, the one loaded last under its  *)
(* ID, if that is for the event's type, and by some edition of it if it is *)
(* for the category or for any event; by nothing that was not filed there; *)
(* and outside a load an edition of every rule of the baseline is in force *)
(* (Evaluate, addCompiledRule, Reload).  Editions that were replaced are   *)
(* still filed: they may be judged beside the one in force, or instead of  *)
(* it, which engine.go:185 and :209 ("replaces the prior compiled rule")   *)
(* do not mean.                                                            *)
RulesInForceJudged ==
  \A w \in Workers : eval[w].at = "judge" =>
    LET e == eval[w].event
        judged == {Candidate(w, k) : k \in 1..eval[w].len}
    IN /\ \A id \in Ids : rules[id] # NoMatch =>
            LET types == ElementsOf(rules[id].types) IN
            /\ e.type \in types => rules[id] \in judged
            /\ types \cap {e.cat, 0} # {} => \E r \in judged : r.id = id
       /\ \A r \in judged : \E k \in {e.type, e.cat, 0} : r \in ElementsOf(log[k])
       /\ loading = 0 => \A b \in DOMAIN Baseline : rules[Baseline[b].id] # NoMatch

(* The verdict is a most severe match among what is judged: no other       *)
(* evaluation and no load changes a candidate under it, although they all  *)
(* append to the same arrays (Evaluate, IsMoreSevere).                     *)
MostSevereVerdict ==
  \A w \in Workers : eval[w].at = "judge" /\ eval[w].next > eval[w].len =>
    LET matching == {r \in Due(eval[w].event) : MatchesRule(r, eval[w].event)} IN
    IF matching = {} THEN eval[w].best = NoMatch
    ELSE /\ eval[w].best \in matching
         /\ \A r \in matching : ~MoreSevere(r, eval[w].best)
=============================================================================
