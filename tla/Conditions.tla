----------------------------- MODULE Conditions -----------------------------
(***************************************************************************)
(* Conditions of rules: macro expansion, the parser and the compiler of    *)
(* expressions (pkg/rules/compiler.go).                                    *)
(*                                                                         *)
(* A condition is a sequence of tokens: "(", ")", "or", "and", "not" and   *)
(* the texts of macros and checks, which are one token each.  What is read *)
(* as a check and is none never holds: here "nonsense".                    *)
(***************************************************************************)
EXTENDS Naturals, FiniteSets, SequencesExt

CONSTANT Samples    \* the expressions that are written down and read back

VARIABLES
  written,   \* an expression
  style,     \* "plain": in as few parentheses as possible; "wrapped": one pair each
  parsed     \* what the parser makes of it

conditionVars == <<written, style, parsed>>

Operators == {"(", ")", "or", "and", "not"}
Leaf(check) == [op |-> "leaf", check |-> check]
Node(op, l, r) == [op |-> op, left |-> l, right |-> r]
Not(e) == [op |-> "not", left |-> e]
Nonsense == Leaf("nonsense")
Failed == [op |-> "error"]

-----------------------------------------------------------------------------
(* expandMacros: all references, for up to ten rounds.                     *)

RECURSIVE ExpandMacros(_, _, _)
ExpandMacros(tokens, macros, rounds) ==
  IF rounds = 0 \/ \A k \in DOMAIN tokens : tokens[k] \notin DOMAIN macros THEN tokens
  ELSE ExpandMacros(FlattenSeq([k \in DOMAIN tokens |->
         IF tokens[k] \in DOMAIN macros THEN <<"(">> \o macros[tokens[k]] \o <<")">>
         ELSE <<tokens[k]>>]), macros, rounds - 1)

-----------------------------------------------------------------------------
(* The parser.                                                             *)

DepthAt(s, k) ==
  Cardinality({j \in 1..k : s[j] = "("}) - Cardinality({j \in 1..k : s[j] = ")"})

(* containsOperatorAtDepth0, and the places it would find.                 *)
AtDepth0(s, op) == {k \in DOMAIN s : s[k] = op /\ DepthAt(s, k) = 0}

SplitAtDepth0(s, op) ==
  LET cuts == <<0>> \o SetToSortSeq(AtDepth0(s, op), <) \o <<Len(s) + 1>> IN
  [k \in 1..(Len(cuts) - 1) |-> SubSeq(s, cuts[k] + 1, cuts[k + 1] - 1)]

(* A mutant: only the first and the last character are looked at.          *)
StripAnyParens(s) ==
  IF Len(s) >= 2 /\ s[1] = "(" /\ s[Len(s)] = ")" THEN SubSeq(s, 2, Len(s) - 1) ELSE s

(* One pair of parentheses around the whole goes.                          *)
StripOuterParens(s) ==
  IF /\ Len(s) >= 2 /\ s[1] = "(" /\ s[Len(s)] = ")" /\ DepthAt(s, Len(s)) = 0
     /\ \A k \in 1..(Len(s) - 1) : DepthAt(s, k) # 0
    THEN SubSeq(s, 2, Len(s) - 1) ELSE s

RECURSIVE Stripped(_)
Stripped(s) == IF StripOuterParens(s) = s THEN s ELSE Stripped(StripOuterParens(s))

(* A left-associative tree; an error in one part is an error.              *)
Joined(op, parts) ==
  IF \E k \in DOMAIN parts : parts[k] = Failed THEN Failed
  ELSE FoldLeft(LAMBDA tree, part : Node(op, tree, part), Head(parts), Tail(parts))

RECURSIVE ParseOr(_), ParseAnd(_), ParseLeaf(_)

ParseOr(s) == LET parts == SplitAtDepth0(s, "or") IN
  Joined("or", [k \in DOMAIN parts |-> ParseAnd(parts[k])])

ParseAnd(s) == LET parts == SplitAtDepth0(s, "and") IN
  Joined("and", [k \in DOMAIN parts |-> ParseLeaf(parts[k])])

(* A negation is recognised before the parentheses are stripped, not after.*)
ParseLeaf(s) ==
  LET inner == Stripped(s) IN
  IF s = <<>> THEN Failed
  ELSE IF s[1] = "not" /\ Len(s) > 1
    THEN LET negated == ParseLeaf(Tail(s)) IN
         IF negated = Failed THEN Failed ELSE Not(negated)
  ELSE IF AtDepth0(inner, "or") \cup AtDepth0(inner, "and") # {} THEN ParseOr(inner)
  ELSE IF Len(inner) = 1 /\ inner[1] \notin Operators THEN Leaf(inner[1])
  ELSE Nonsense

-----------------------------------------------------------------------------
(* The compiler: whether an expression holds, given the checks that do.    *)

RECURSIVE CompileExpr(_, _)
CompileExpr(e, holding) ==
  CASE e.op = "and" -> CompileExpr(e.left, holding) /\ CompileExpr(e.right, holding)
    [] e.op = "or" -> CompileExpr(e.left, holding) \/ CompileExpr(e.right, holding)
    [] e.op = "not" -> ~CompileExpr(e.left, holding)
    [] e.op = "leaf" -> e.check \in holding
    [] OTHER -> FALSE

(* compileCondition: a condition that does not parse makes no rule.        *)
Compile(tokens, macros) ==
  LET expanded == ExpandMacros(tokens, macros, 10) IN
  IF expanded = <<>> THEN Failed ELSE ParseOr(expanded)

-----------------------------------------------------------------------------
(* Writing an expression down.                                             *)

Parens(s) == <<"(">> \o s \o <<")">>

RECURSIVE Write(_, _)
Write(e, wrapped) ==
  LET part(f) == IF ~wrapped /\ f.op \in {"and", "or"} THEN Parens(Write(f, wrapped))
                 ELSE Write(f, wrapped)
      (* "and" binds more tightly, and both associate to the left *)
      left == IF ~wrapped /\ (e.left.op = e.op \/ (e.op = "or" /\ e.left.op = "and"))
                THEN Write(e.left, wrapped) ELSE part(e.left)
      right == IF ~wrapped /\ e.op = "or" /\ e.right.op = "and"
                 THEN Write(e.right, wrapped) ELSE part(e.right)
      text == CASE e.op = "leaf" -> <<e.check>>
                [] e.op = "not" -> <<"not">> \o part(e.left)
                [] OTHER -> left \o <<e.op>> \o right
  IN IF wrapped THEN Parens(text) ELSE text

RECURSIVE ChecksOf(_)
ChecksOf(e) ==
  CASE e.op = "leaf" -> {e.check} [] e.op = "not" -> ChecksOf(e.left)
    [] OTHER -> ChecksOf(e.left) \cup ChecksOf(e.right)

(* What an expression means.                                               *)
RECURSIVE Means(_, _)
Means(e, holding) ==
  CASE e.op = "leaf" -> e.check \in holding
    [] e.op = "not" -> ~Means(e.left, holding)
    [] e.op = "and" -> Means(e.left, holding) /\ Means(e.right, holding)
    [] OTHER -> Means(e.left, holding) \/ Means(e.right, holding)

ConditionInit ==
  /\ written \in Samples /\ style \in {"plain", "wrapped"}
  /\ parsed = Failed

Parse ==
  /\ parsed = Failed
  /\ parsed' = Compile(Write(written, style = "wrapped"), <<>>)
  /\ UNCHANGED <<written, style>>

ConditionSpec == ConditionInit /\ [][Parse]_conditionVars

(* A condition means what it says, "not" before "and" before "or", with    *)
(* parentheses for grouping, whatever it nests and however many it has of  *)
(* them (compiler.go:7).  Not claimed of one with a negation alone within  *)
(* its parentheses, as all are that are wrapped and negate something: such *)
(* a negation is lost, against compiler.go:9-11, since parseLeafExpr looks *)
(* for "not" before it strips the parentheses.                             *)
ParsesAsWritten ==
  parsed # Failed /\ (style = "wrapped" => "not" \notin ToSet(Write(written, FALSE))) =>
    \A holding \in SUBSET ChecksOf(written) :
      CompileExpr(parsed, holding) <=> Means(written, holding)
=============================================================================
