---------------------------- MODULE RuleCatalog ----------------------------
(***************************************************************************)
(* The thirty built-in rules (pkg/rules/catalog.go), compiled: the checks  *)
(* of their conditions (compiler.go), and the event types and the category *)
(* that compileRule guesses from the words of a condition (engine.go).     *)
(*                                                                         *)
(* Of each list the members that tell its rules apart stand for all.  Of   *)
(* the event, inside says that it is attributed to a container.            *)
(***************************************************************************)
EXTENDS Conditions, RuleEngine

VARIABLES
  event,     \* an event of the kernel, enriched
  verdict    \* the ID of the rule that Evaluate returns; "none yet", "no match"

catalogVars == <<event, verdict>>

-----------------------------------------------------------------------------
(* Events (types.go).                                                      *)

Exec == 1  FileOpen == 10  NetConnect == 20  NetUDP == 23  Chmod == 43
CategoryOf(type) ==
  CASE type < 10 -> 1 [] type < 20 -> 2 [] type < 30 -> 3 [] type < 40 -> 4 [] OTHER -> 5

Plain(type, inside) ==
  [type |-> type, cat |-> CategoryOf(type), inside |-> inside, comm |-> "nginx", args |-> {},
   exe |-> "/usr", rport |-> "0", rip |-> "", path |-> "", flags |-> {}, mode |-> {}]

CatalogEvents == UNION {
  { [Plain(Exec, in) EXCEPT !.comm = c, !.args = a, !.exe = x] : in \in BOOLEAN,
      c \in {"nginx", "bash", "xmrig"}, x \in {"/usr", "/tmp/", "./"},
      a \in SUBSET {"stratum", "/dev/tcp"} },
  { [Plain(t, in) EXCEPT !.comm = c, !.rport = p, !.rip = i] : in \in BOOLEAN,
      t \in {NetConnect, NetUDP}, c \in {"nginx", "bash"},
      p \in {"443", "3333", "4444", "1337", "5000"}, i \in {"10.0.0.1", "169.254.169.254"} },
  { [Plain(FileOpen, in) EXCEPT !.path = p, !.flags = f] : in \in BOOLEAN,
      p \in {"/srv", "/etc/shadow", "/var/run/docker.sock", "/proc/1", "/var/run/secrets"},
      f \in SUBSET {1, 2} },
  { [Plain(Chmod, in) EXCEPT !.mode = m] : in \in BOOLEAN, m \in SUBSET {"s_isuid", "s_isgid"} },
  { Plain(t, in) : in \in BOOLEAN,
      t \in {2, 3, 11, 12, 21, 30, 31, 32, 33, 34, 35, 40, 42} } }

-----------------------------------------------------------------------------
(* Checks.  The text of a check stands for its field, operator and values; *)
(* words are the keywords that the guesses look for in it.                 *)

SyscallToEventType(name) ==
  CASE name \in {"execve", "execveat"} -> 1
    [] name \in {"open", "openat", "openat2", "creat"} -> 10
    [] name \in {"connect", "sendto", "sendmsg", "dup2", "dup3"} -> 20
    [] name = "listen" -> 21
    [] name = "setns" -> 30 [] name = "unshare" -> 31 [] name = "mount" -> 32
    [] name = "ptrace" -> 33 [] name = "init_module" -> 34 [] name = "bpf" -> 35
    [] name = "setuid" -> 40 [] name = "capset" -> 42
    [] name \in {"chmod", "fchmodat"} -> 43
    [] OTHER -> 0

C(field, op, values, words) == [field |-> field, op |-> op, values |-> values, words |-> words]

(* evt.type = name, with the names that contain a keyword.                 *)
TypeIs(name) == C("evt.type", "=", {name}, {name})

CatalogChecks ==
  ("host" :> C("container.id", "!=", {"host"}, {})) @@
  ("execve" :> C("evt.type", "in", {"execve", "execveat"}, {"execve"})) @@
  ("open+" :> C("evt.type", "in", {"open", "openat", "openat2", "creat"}, {"open"})) @@
  ("open" :> C("evt.type", "in", {"open", "openat", "openat2"}, {"open"})) @@
  ("connect+" :> C("evt.type", "in", {"connect", "sendto", "sendmsg"}, {"connect"})) @@
  ("chmod" :> C("evt.type", "in", {"chmod", "fchmodat"}, {"chmod"})) @@
  ("dup" :> C("evt.type", "in", {"dup2", "dup3"}, {"dup"})) @@
  ("connect" :> TypeIs("connect")) @@ ("listen" :> TypeIs("listen")) @@
  ("setns" :> TypeIs("setns")) @@ ("unshare" :> TypeIs("unshare")) @@
  ("mount" :> TypeIs("mount")) @@ ("ptrace" :> TypeIs("ptrace")) @@
  ("init_module" :> TypeIs("init_module")) @@ ("bpf" :> TypeIs("bpf")) @@
  ("setuid" :> TypeIs("setuid")) @@ ("capset" :> TypeIs("capset")) @@
  ("outbound" :> C("evt.dir", "=", {"<"}, {})) @@
  ("shell" :> C("proc.name", "in", {"bash"}, {})) @@
  ("miner" :> C("proc.name", "in", {"xmrig"}, {})) @@
  ("stratum" :> C("proc.cmdline", "contains", {"stratum"}, {})) @@
  ("/dev/tcp" :> C("proc.cmdline", "contains", {"/dev/tcp"}, {})) @@
  ("exe /tmp/" :> C("proc.exe", "startswith", {"/tmp/"}, {})) @@
  ("exe ./" :> C("proc.exe", "startswith", {"./"}, {})) @@
  ("cwd /tmp/" :> C("proc.cwd", "startswith", {"/tmp/"}, {})) @@
  ("pool port" :> C("fd.rport", "in", {"3333", "4444"}, {})) @@
  ("c2 port" :> C("fd.rport", "in", {"4444", "1337"}, {})) @@
  ("not web" :> C("fd.rport", "not_in", {"80", "443"}, {})) @@
  ("pool domain" :> C("fd.rip.name", "in", {"pool.minexmr.com"}, {})) @@
  ("metadata ip" :> C("fd.rip", "in", {"169.254.169.254"}, {})) @@
  ("socket" :> C("fd.type", "=", {"socket"}, {})) @@
  ("stdio" :> C("fd.fd", "in", {"0", "1", "2"}, {})) @@
  ("sensitive" :> C("fd.name", "pmatch", {"/etc/shadow", "/var/run/docker.sock", "/proc/1",
                                          "/var/run/secrets"}, {"shadow", "docker.sock"})) @@
  ("docker.sock" :> C("fd.name", "pmatch", {"/var/run/docker.sock"}, {"docker.sock"})) @@
  ("procfs" :> C("fd.name", "pmatch", {"/proc/1"}, {})) @@
  ("secrets" :> C("fd.name", "pmatch", {"/var/run/secrets"}, {})) @@
  ("o_wronly" :> C("evt.arg.flags", "contains", {1}, {})) @@
  ("o_rdwr" :> C("evt.arg.flags", "contains", {2}, {})) @@
  ("open_exec" :> C("evt.is_open_exec", "bool", {}, {"open"})) @@
  ("s_isuid" :> C("evt.arg.mode", "contains", {"s_isuid"}, {"suid"})) @@
  ("s_isgid" :> C("evt.arg.mode", "contains", {"s_isgid"}, {"sgid"}))

CompileEventTypeCheck(c, e) ==
  LET types == {SyscallToEventType(v) : v \in c.values} \ {0} IN
  IF c.op \in {"=", "in"} THEN e.type \in types ELSE c.op = "any"

(* The values of a field that an operator compares with those of a check;  *)
(* proc.cwd is judged by the executable, for want of the directory.        *)
CompileFieldCheck(c, e) ==
  CASE c.field = "proc.name" -> c.op = "in" /\ e.comm \in c.values
    [] c.field = "proc.cmdline" -> e.args \cap c.values # {}
    [] c.field \in {"proc.exe", "proc.cwd"} -> c.op = "startswith" /\ e.exe \in c.values
    [] c.field = "fd.rport" ->
         (c.op = "in" /\ e.rport \in c.values) \/ (c.op = "not_in" /\ e.rport \notin c.values)
    [] c.field \in {"fd.rip", "fd.rip.name"} ->
         (c.op = "in" /\ e.rip \in c.values) \/ (c.op = "not_in" /\ e.rip \notin c.values)
    [] c.field = "fd.name" -> c.op = "pmatch" /\ e.path \in c.values
    [] c.field = "evt.arg.flags" -> e.flags \cap c.values # {}
    [] c.field = "evt.arg.mode" -> e.mode \cap c.values # {}
    [] OTHER -> FALSE

(* evt.is_open_exec looks at the bit of O_WRONLY; no check of fd.fd holds. *)
CompileSingleCheck(c, e) ==
  CASE c.field = "container.id" -> c.op = "!=" /\ "host" \in c.values /\ e.inside
    [] c.field = "evt.type" -> CompileEventTypeCheck(c, e)
    [] c.field = "fd.type" -> c.op = "=" /\ "socket" \in c.values /\ e.cat = 3
    [] c.field = "evt.is_open_exec" -> e.cat = 2 /\ 1 \in e.flags
    [] c.field = "evt.dir" -> c.op = "=" /\ "<" \in c.values
    [] OTHER -> CompileFieldCheck(c, e)

HoldingChecks(e) == {c \in DOMAIN CatalogChecks : CompileSingleCheck(CatalogChecks[c], e)}

-----------------------------------------------------------------------------
(* The macros and the rules.                                               *)

CatalogMacros ==
  "container" :> <<"host">> @@
  "spawned_process" :> <<"execve">> @@
  "shell_procs" :> <<"shell">> @@
  "miner_procs" :> <<"miner">> @@
  "open_write" :> <<"open+", "and", "(", "o_wronly", "or", "o_rdwr", ")">> @@
  "net_outbound" :> <<"connect+", "and", "outbound">> @@
  "minerpool_connection" :>
    <<"(", "connect", "and", "(", "(", "pool port", ")", "or", "(", "pool domain", ")", ")", ")">> @@
  "setns_call" :> <<"setns">> @@
  "sensitive_file_read" :> <<"open", "and", "sensitive">> @@
  "cloud_metadata_access" :> <<"connect", "and", "metadata ip">>

(* The keywords in the name of a macro: the guesses are made before macros *)
(* are expanded.                                                           *)
MacroWords ==
  "container" :> {} @@
  "spawned_process" :> {"spawned_process"} @@
  "shell_procs" :> {} @@ "miner_procs" :> {} @@
  "open_write" :> {"open"} @@
  "net_outbound" :> {"net_outbound", "outbound"} @@
  "minerpool_connection" :> {"connect"} @@
  "setns_call" :> {"setns"} @@
  "sensitive_file_read" :> {"sensitive", "file"} @@
  "cloud_metadata_access" :> {"metadata"}

Def(id, action, priority, condition) ==
  [id |-> id, enforce |-> action = "enforce", priority |-> priority, condition |-> condition]
Inside(first) == <<first, "and", "container">>

EscapeRules == <<
  Def("R001", "enforce", "CRITICAL", Inside("setns_call")),
  Def("R002", "alert", "CRITICAL", Inside("unshare")),
  Def("R003", "enforce", "CRITICAL", Inside("mount")),
  Def("R004", "enforce", "CRITICAL", Inside("sensitive_file_read") \o <<"and", "docker.sock">>),
  Def("R005", "alert", "CRITICAL", Inside("sensitive_file_read") \o <<"and", "procfs">>),
  Def("R006", "enforce", "CRITICAL", Inside("init_module")),
  Def("R007", "enforce", "CRITICAL", Inside("bpf")) >>

CryptoRules == <<
  Def("R008", "enforce", "CRITICAL", Inside("spawned_process") \o <<"and", "miner_procs">>),
  Def("R009", "alert", "CRITICAL", Inside("net_outbound") \o <<"and", "minerpool_connection">>),
  Def("R010", "enforce", "CRITICAL", Inside("spawned_process") \o <<"and", "(", "stratum", ")">>),
  Def("R011", "alert", "WARNING", Inside("net_outbound")),
  Def("R012", "alert", "NOTICE", Inside("chmod") \o <<"and", "s_isuid">>),
  Def("R013", "alert", "ERROR", Inside("spawned_process")) >>

ShellRules == <<
  Def("R014", "enforce", "CRITICAL",
      Inside("net_outbound") \o <<"and", "shell_procs", "and", "not web">>),
  Def("R015", "enforce", "CRITICAL", Inside("dup") \o <<"and", "socket", "and", "stdio">>),
  Def("R016", "enforce", "CRITICAL",
      Inside("net_outbound") \o <<"and", "shell_procs", "and", "c2 port">>),
  Def("R017", "alert", "WARNING", Inside("spawned_process") \o <<"and", "(", "/dev/tcp", ")">>) >>

CredentialRules == <<
  Def("R018", "alert", "CRITICAL", Inside("sensitive_file_read")),
  Def("R019", "enforce", "CRITICAL", Inside("cloud_metadata_access")),
  Def("R020", "alert", "CRITICAL", Inside("sensitive_file_read") \o <<"and", "secrets">>) >>

PrivilegeRules == <<
  Def("R021", "alert", "NOTICE", Inside("setuid")),
  Def("R022", "alert", "NOTICE",
      Inside("chmod") \o <<"and", "(", "s_isuid", "or", "s_isgid", ")">>),
  Def("R023", "alert", "WARNING", Inside("capset")) >>

OtherRules == <<
  Def("R024", "alert", "ERROR", Inside("open_write") \o <<"and", "open_exec">>),
  Def("R025", "alert", "WARNING", Inside("spawned_process") \o
      <<"and", "(", "exe /tmp/", "or", "(", "cwd /tmp/", "and", "exe ./", ")", ")">>),
  Def("R026", "alert", "WARNING", Inside("listen")),
  Def("R027", "alert", "CRITICAL", Inside("net_outbound") \o <<"and", "c2 port">>),
  Def("R028", "alert", "WARNING", Inside("spawned_process")),
  Def("R029", "enforce", "CRITICAL", Inside("ptrace")),
  Def("R030", "alert", "CRITICAL", Inside("spawned_process")) >>

Catalog ==
  EscapeRules \o CryptoRules \o ShellRules \o CredentialRules \o PrivilegeRules \o OtherRules

-----------------------------------------------------------------------------
(* compileRule.                                                            *)

Words(tokens) == UNION {
  IF t \in DOMAIN MacroWords THEN MacroWords[t]
  ELSE IF t \in DOMAIN CatalogChecks THEN CatalogChecks[t].words ELSE {} : t \in ToSet(tokens)}

(* Each keyword files the rule under its types; none of them: under any.   *)
InferEventTypes(words) ==
  LET said(keywords, types) == IF words \cap keywords # {} THEN types ELSE <<>>
      types == said({"execve", "spawned_process"}, <<1>>) \o said({"open"}, <<10>>)
        \o said({"connect", "net_outbound"}, <<20, 23>>) \o said({"listen"}, <<21>>)
        \o said({"setns"}, <<30>>) \o said({"unshare"}, <<31>>) \o said({"mount"}, <<32>>)
        \o said({"ptrace"}, <<33>>) \o said({"bpf"}, <<35>>) \o said({"setuid"}, <<40>>)
        \o said({"capset"}, <<42>>) \o said({"chmod", "suid", "sgid"}, <<43>>)
        \o said({"dup"}, <<1, 20>>)
  IN IF types = <<>> THEN <<0>> ELSE types

InferCategory(words) ==
  CASE words \cap {"setns", "unshare", "mount", "docker.sock"} # {} -> 4
    [] words \cap {"connect", "outbound", "listen"} # {} -> 3
    [] words \cap {"file", "open", "sensitive"} # {} -> 2
    [] words \cap {"setuid", "chmod", "capset"} # {} -> 5
    [] words \cap {"shadow", "metadata"} # {} -> 6
    [] OTHER -> 0

Rank(priority) ==
  CASE priority = "CRITICAL" -> 5 [] priority = "ERROR" -> 4 [] priority = "WARNING" -> 3
    [] priority = "NOTICE" -> 2

(* A mutant: rules for any event keep the category that was guessed.       *)
CompileRuleStrictly(def) ==
  LET words == Words(def.condition) IN
  [id |-> def.id, edition |-> 1, types |-> InferEventTypes(words), cat |-> InferCategory(words),
   rank |-> Rank(def.priority), enforce |-> def.enforce,
   cond |-> Compile(def.condition, CatalogMacros)]

(* A rule for any event is of no category.                                 *)
CompileRule(def) ==
  LET words == Words(def.condition)
      types == InferEventTypes(words)
  IN [id |-> def.id, edition |-> 1, types |-> types,
      cat |-> IF 0 \in ToSet(types) THEN 0 ELSE InferCategory(words),
      rank |-> Rank(def.priority), enforce |-> def.enforce,
      cond |-> Compile(def.condition, CatalogMacros)]

CompiledCatalog == [k \in DOMAIN Catalog |-> CompileRule(Catalog[k])]

IdsOf(s) == {s[k].id : k \in DOMAIN s}

(* The rules of a bucket whose ID has not been seen, each ID once.         *)
Unseen(bucket, seen) ==
  FoldLeft(LAMBDA found, r : IF r.id \in seen \cup IdsOf(found) THEN found ELSE Append(found, r),
           <<>>, bucket)

(* The rules that Evaluate looks up for an event, in order (RuleEngine).   *)
CandidatesFor(e) ==
  LET under(key) == SelectSeq(CompiledCatalog, LAMBDA r : key \in ToSet(r.types))
      own == under(e.type)
      byCat == Unseen(under(e.cat), IdsOf(own))
  IN own \o byCat \o Unseen(under(0), IdsOf(own) \cup IdsOf(byCat))

RuleMatches(r, e) == r.cat \in {0, e.cat} /\ CompileExpr(r.cond, HoldingChecks(e))

Verdict(e) ==
  LET matching == SelectSeq(CandidatesFor(e), LAMBDA r : RuleMatches(r, e)) IN
  IF matching = <<>> THEN "no match"
  ELSE FoldLeft(LAMBDA b, r : IF MoreSevere(r, b) THEN r ELSE b, Head(matching), matching).id

CatalogInit == event \in CatalogEvents /\ verdict = "none yet"

Evaluate ==
  /\ verdict = "none yet" /\ verdict' = Verdict(event)
  /\ UNCHANGED event

CatalogSpec == CatalogInit /\ [][Evaluate]_catalogVars

-----------------------------------------------------------------------------

(* No rule of the catalog misses an event by the index: whenever the       *)
(* condition of a rule holds, the rule is among the candidates and its     *)
(* category passes, although types and category are guessed from keywords  *)
(* before the macros are expanded, and categories and types share numbers  *)
(* (inferEventTypes, inferCategory, Evaluate).                             *)
IndexMissesNothing ==
  verdict # "none yet" => \A k \in DOMAIN CompiledCatalog :
    CompileExpr(CompiledCatalog[k].cond, HoldingChecks(event)) =>
      /\ CompiledCatalog[k].cat \in {0, event.cat}
      /\ \E j \in DOMAIN CandidatesFor(event) : CandidatesFor(event)[j] = CompiledCatalog[k]
=============================================================================
