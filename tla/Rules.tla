-------------------------------- MODULE Rules -------------------------------
(***************************************************************************)
(* A rule of the expression language, written once and run in two places:   *)
(* on the client over the row it draws (eval.mjs) and, as a predicate of an *)
(* alert, in the engine, where it is compiled to filter operations          *)
(* (compile.mjs) after it was checked against the schema (validate.mjs).    *)
(*                                                                         *)
(* A rule is comparisons of a field and a literal, in either order, bare    *)
(* and negated flags, and conjunctions and disjunctions of them in any      *)
(* shape that parentheses can give.  A comparison of a text stands for      *)
(* those of any text; < stands for the four orders.                         *)
(*                                                                         *)
(* The compilers make of a node's two results the result of the node, so a  *)
(* rule is here what they made of it: the rows it is true of, the           *)
(* operations, its fields.                                                  *)
(***************************************************************************)
EXTENDS Naturals, Sequences

CONSTANTS Amounts,     \* the numbers of the cells and literals
          Names,       \* the texts of the cells and literals
          FoldOf,      \* a text without its case
          Yes, No,     \* the values of a flag
          Missing,     \* a cell without a value
          MaxTerms     \* bound: terms of a rule

ASSUME RuleAssumption ==
    /\ Amounts \subseteq Nat
    /\ Yes # No /\ Missing \notin Names \cup {Yes, No}
    /\ Yes \notin Names /\ No \notin Names /\ Amounts \cap Names = {}
    /\ MaxTerms \in Nat

Schema == {"dv01", "desk", "live"}
RuleRows == [dv01 : Amounts \cup {Missing}, desk : Names \cup {Missing}, live : {Yes, No, Missing}]

VARIABLES operands,   \* the rules in the editor, each waiting to be joined
          terms       \* the terms written
ruleVars == <<operands, terms>>

(***************************************************************************)
(* Terms.  A comparison is `field op lit', or `lit op field' if flipped.    *)
(***************************************************************************)
Comparison(f, op, lit, flipped) == [type |-> "comparison", field |-> f, op |-> op, lit |-> lit, flipped |-> flipped]
Terms ==
    {Comparison("dv01", op, a, FALSE) : op \in {"==", "!=", "<"}, a \in Amounts}
    \cup {Comparison("dv01", "<", a, TRUE) : a \in Amounts}
    \cup {Comparison("desk", op, n, FALSE) : op \in {"==", "!="}, n \in Names}
    \cup {[type |-> "field", field |-> "live"], [type |-> "not", field |-> "live"],
          [type |-> "field", field |-> "renamed"]}

(***************************************************************************)
(* compileEval: a missing value equals nothing and is ordered by nothing,   *)
(* and is false as a flag.  A field that is no column is missing.           *)
(***************************************************************************)
Cell(row, f) == IF f \in Schema THEN row[f] ELSE Missing
Eq(v, lit) == v # Missing /\ (IF v \in Names THEN FoldOf[v] = FoldOf[lit] ELSE v = lit)
Less(t, v) == v # Missing /\ (IF t.flipped THEN t.lit < v ELSE v < t.lit)
Truthy(v) == v = Yes

IsTrueOf(t, v) ==
    CASE t.type = "field" -> Truthy(v)
      [] t.type = "not"   -> ~Truthy(v)
      [] t.type = "comparison" ->
           CASE t.op = "==" -> Eq(v, t.lit)
             [] t.op = "!=" -> ~Eq(v, t.lit)
             [] t.op = "<"  -> Less(t, v)
CompileEval(t) == {row \in RuleRows : IsTrueOf(t, Cell(row, t.field))}
EvalBinary(op, l, r) == IF op = "&&" THEN l \cap r ELSE l \cup r

(***************************************************************************)
(* compileFilterOps: a conjunction is more operations of the list, which    *)
(* are all required; a disjunction is one `or' over the operations of both  *)
(* sides.  A literal on the left turns the comparison round.                *)
(***************************************************************************)
FilterOp(col, op, value) == [column |-> col, op |-> op, value |-> value]
OrNode(ops) == [column |-> Missing, op |-> "or", value |-> ops]

Flip == [op \in {"==", "!=", "<", ">"} |-> IF op = "<" THEN ">" ELSE op]

\* Mutant of CompareOp: a literal on the left does not turn it round.
CompareOpUnflipped(t) == t.op
CompareOp(t) == IF t.flipped THEN Flip[t.op] ELSE t.op

CompileComparison(t) == FilterOp(t.field, CompareOp(t), t.lit)

CompileFilterOps(t) ==
    CASE t.type = "field" -> FilterOp(t.field, "==", Yes)
      [] t.type = "not"   -> FilterOp(t.field, "==", No)
      [] t.type = "comparison" -> CompileComparison(t)
FilterBinary(op, l, r) == IF op = "&&" THEN l \cup r ELSE {OrNode(l \cup r)}

\* The view the hub opens for an alert: an `or' of the engine is over
\* conditions, and one nested in another is refused (conditionExpression).
EngineAccepts(ops) == \A o \in ops : o.op = "or" => \A c \in o.value : c.op # "or"

\* A condition of its own is a native filter of the engine: its answers, as
\* the parity oracle has them.
EngineTests(o, v) ==
    CASE o.op = "==" -> Eq(v, o.value)
      [] o.op = "!=" -> ~Eq(v, o.value)
      [] o.op = "<"  -> v # Missing /\ v < o.value
      [] o.op = ">"  -> v # Missing /\ v > o.value

\* One inside an `or' is an expression.  Equalities of texts compare what was
\* lowered, as the native ones do.  Numbers and flags are compared as if they
\* were texts, and orders by the comparison that compile.mjs will not use, as
\* this engine gets it wrong: what comes of them may be either.
ExpressionTests(o, v, doubt) == IF o.value \in Names THEN EngineTests(o, v) ELSE doubt
EngineFires(ops, row, doubt) ==
    \A o \in ops : IF o.op = "or" THEN \E c \in o.value : ExpressionTests(c, Cell(row, c.column), doubt)
                                  ELSE EngineTests(o, Cell(row, o.column))

OrsAreOfTexts(ops) == \A o \in ops : o.op = "or" => \A c \in o.value : c.value \in Names

(***************************************************************************)
(* A rule, compiled for both; and, of its shape, whether it has a           *)
(* conjunction, and one under a disjunction.                                *)
(***************************************************************************)
Leaf(t) == [trueOf |-> CompileEval(t), ops |-> {CompileFilterOps(t)}, fields |-> {t.field},
            conjoins |-> FALSE, conjoinsUnderOr |-> FALSE]
Binary(op, l, r) ==
    [trueOf |-> EvalBinary(op, l.trueOf, r.trueOf), ops |-> FilterBinary(op, l.ops, r.ops),
     fields |-> l.fields \cup r.fields,
     conjoins |-> op = "&&" \/ l.conjoins \/ r.conjoins,
     conjoinsUnderOr |-> IF op = "&&" THEN l.conjoinsUnderOr \/ r.conjoinsUnderOr ELSE l.conjoins \/ r.conjoins]

\* validateRule, of a predicate: every field is in the schema (every rule of
\* this module compiles).
ValidateRule(rule) == rule.fields \subseteq Schema

(***************************************************************************)
(* The author writes a term, or joins the last two rules.                   *)
(***************************************************************************)
RuleInit == operands = <<>> /\ terms = 0

Write(t) ==
    /\ terms < MaxTerms
    /\ operands' = Append(operands, Leaf(t))
    /\ terms' = terms + 1

Join(op) ==
    LET n == Len(operands) IN
    /\ n >= 2
    /\ operands' = Append(SubSeq(operands, 1, n - 2), Binary(op, operands[n - 1], operands[n]))
    /\ UNCHANGED terms

RuleNext == (\E t \in Terms : Write(t)) \/ Join("&&") \/ Join("||")
RuleSpec == RuleInit /\ [][RuleNext]_ruleVars

(***************************************************************************)
(* Properties.                                                             *)
(***************************************************************************)
\* On the rows that have a value for the flag.
FiresWhereTrue(rule) ==
    \A row \in RuleRows, doubt \in BOOLEAN :
        row.live # Missing => (row \in rule.trueOf <=> EngineFires(rule.ops, row, doubt))

\* A rule that passed validation and that the engine accepts fires in the
\* engine on the rows it is true of on the client (compile.mjs: a rule is
\* never silently divergent), but for disjunctions of anything but texts,
\* for conjunctions under a disjunction and for a negated flag that has no
\* value.
RulesMeanTheSame ==
    \A i \in DOMAIN operands :
        LET rule == operands[i]
        IN  /\ ValidateRule(rule) /\ EngineAccepts(rule.ops)
            /\ OrsAreOfTexts(rule.ops) /\ ~rule.conjoinsUnderOr
            => FiresWhereTrue(rule)

\* The same of every rule that passed validation and whose disjunctions are of
\* texts.
ValidRulesMeanTheSame ==
    \A i \in DOMAIN operands :
        LET rule == operands[i]
        IN  ValidateRule(rule) /\ EngineAccepts(rule.ops) /\ OrsAreOfTexts(rule.ops) => FiresWhereTrue(rule)
=============================================================================
