--------------------------- MODULE RulePredicate ---------------------------
(***************************************************************************)
(* What an auto-handle rule matches.  The code has two evaluators: that of *)
(* package models, which the worker uses, and that of the auto engine.     *)
(* Both get the rule from the database, so a value is what a JSON decoder  *)
(* makes of it: a number is a float and a list a list of any values.  Each *)
(* condition is "true", "false" or an "error".  Numbers are counted in     *)
(* halves, so that a rule can hold one that is no integer; texts have an   *)
(* order, and one of them is no regular expression.                        *)
(***************************************************************************)
EXTENDS Integers, Sequences, FiniteSets, FiniteSetsExt

CONSTANTS Text, BadPattern,
          MaxNumber,        \* bound: number fields hold 0 .. MaxNumber
          MaxConditions     \* bound: conditions in allOf and in anyOf

ASSUME PredicateBounds == MaxNumber \in Nat /\ Text \subseteq Nat /\ BadPattern \in Text /\ MaxConditions \in Nat

VARIABLE asked   \* the condition and email, or the results of a rule's conditions, being looked at

Halves(n) == 2 * n
Nil == [type |-> "nil"]
TextOf(t) == [type |-> "text", is |-> t]
NumberOf(h) == [type |-> "number", is |-> h]
FlagOf(b) == [type |-> "flag", is |-> b]
ListOf(S) == [type |-> "list", is |-> S]
Both(x, y, type) == x.type = type /\ y.type = type
If(b) == IF b THEN "true" ELSE "false"

Attributes == [sender : Text, hour : 0 .. MaxNumber, attachment : BOOLEAN]
Conditions == [
  field : {"sender", "hour", "attachment", "mistyped"},
  operator : {"eq", "ne", "contains", "regex", "gt", "lt", "in", "not_in", "mistyped"},
  value : {TextOf(t) : t \in Text} \cup {NumberOf(h) : h \in 0 .. Halves(MaxNumber)}
          \cup {FlagOf(b) : b \in BOOLEAN} \cup {ListOf(S) : S \in SUBSET Text} \cup {Nil}]

GetField(f, a) ==
  CASE f = "sender" -> TextOf(a.sender)
    [] f = "hour" -> NumberOf(Halves(a.hour))
    [] f = "attachment" -> FlagOf(a.attachment)
    [] OTHER -> Nil

\* An int is never equal to a float64; a text contains what equals it here.
Equal(x, y) == x = y /\ x.type \in {"text", "flag", "nil"}
Regex(x, y) == IF y.is = BadPattern THEN "error" ELSE If(x.is = y.is)

\* compareNumeric: sign is 1 for "greater", -1 for "less".
Numeric(x, y, sign) == If(Both(x, y, "number") /\ sign * (x.is - y.is) > 0)

\* models.Condition.match.  A list from JSON is no []string, so "in" and
\* "not_in" are never true.
Match(c, a) ==
  LET x == GetField(c.field, a)
      texts == Both(x, c.value, "text") IN
  CASE c.operator = "eq" -> If(Equal(x, c.value))
    [] c.operator = "ne" -> If(~Equal(x, c.value))
    [] c.operator = "contains" -> If(texts /\ x = c.value)
    [] c.operator = "regex" -> IF texts THEN Regex(x, c.value) ELSE "false"
    [] c.operator = "gt" -> Numeric(x, c.value, 1)
    [] c.operator = "lt" -> Numeric(x, c.value, -1)
    [] OTHER -> "false"

Whole_Kept(h) == h
\* The int of a float.
Whole(h) == Halves(h \div 2)

\* compareValues: the float of the rule becomes an int.
CompareValues(x, y, sign) ==
  CASE Both(x, y, "number") -> If(sign * (x.is - Whole(y.is)) > 0)
    [] Both(x, y, "text") -> If(sign * (x.is - y.is) > 0)
    [] OTHER -> "error"

\* PredicateEvaluator.evalCondition: a field it does not know fails.
EvalCondition(c, a) ==
  LET x == GetField(c.field, a)
      texts == Both(x, c.value, "text")
      list == x.type = "text" /\ c.value.type = "list" IN
  IF x = Nil THEN "false" ELSE
  CASE c.operator = "eq" -> If(Equal(x, c.value))
    [] c.operator = "ne" -> If(~Equal(x, c.value))
    [] c.operator = "contains" /\ texts -> If(x = c.value)
    [] c.operator = "regex" /\ texts -> Regex(x, c.value)
    [] c.operator = "gt" -> CompareValues(x, c.value, 1)
    [] c.operator = "lt" -> CompareValues(x, c.value, -1)
    [] c.operator = "in" /\ list -> If(x.is \in c.value.is)
    [] c.operator = "not_in" /\ list -> If(x.is \notin c.value.is)
    [] OTHER -> "error"

-----------------------------------------------------------------------------

\* The conditions are looked at in order; the first that decides ends the loop.
FirstDecides(rs, decisive, otherwise) ==
  LET stops == {i \in DOMAIN rs : rs[i] \in decisive} IN
  IF stops = {} THEN otherwise ELSE rs[Min(stops)]

AllOf(rs) == FirstDecides(rs, {"false", "error"}, "true")
AnyOf(rs) == IF rs = <<>> THEN "true" ELSE FirstDecides(rs, {"true", "error"}, "false")

\* Evaluate, the same in both packages.
Evaluate(all, any) == IF AllOf(all) = "true" THEN AnyOf(any) ELSE AllOf(all)

Results == UNION {[1 .. n -> {"true", "false", "error"}] : n \in 0 .. MaxConditions}
NothingAsked == [about |-> "nothing"]

PredicateInit == asked = NothingAsked
Ask ==
  /\ asked = NothingAsked
  /\ \/ \E c \in Conditions, a \in Attributes : asked' = [about |-> "condition", c |-> c, a |-> a]
     \/ \E all \in Results, any \in Results : asked' = [about |-> "rule", all |-> all, any |-> any]

PredicateSpec == PredicateInit /\ [][Ask]_asked

-----------------------------------------------------------------------------

\* Where the two evaluators disagree, and nowhere else: lists, which never match
\* in the worker; fields neither knows, which the worker compares with null;
\* texts by order, which only the engine compares; and an hour before a number
\* that is no integer, which the engine rounds down.
Disagree(c, a) ==
  LET x == GetField(c.field, a) v == c.value IN
  \/ x.type = "text" /\ v.type = "list" /\ c.operator = "in" /\ x.is \in v.is
  \/ x.type = "text" /\ v.type = "list" /\ c.operator = "not_in" /\ x.is \notin v.is
  \/ x = Nil /\ \/ c.operator = "eq" /\ v = Nil
                \/ c.operator = "ne" /\ v # Nil
  \/ Both(x, v, "text") /\ \/ c.operator = "gt" /\ x.is > v.is
                           \/ c.operator = "lt" /\ x.is < v.is
  \/ Both(x, v, "number") /\ \/ c.operator = "lt" /\ x.is < v.is /\ x.is >= Halves(v.is \div 2)
                             \/ c.operator = "gt" /\ x.is > Halves(v.is \div 2) /\ x.is <= v.is

EvaluatorsDisagreeOnlyThere ==
  asked.about = "condition" =>
    ((Match(asked.c, asked.a) = "true") # (EvalCondition(asked.c, asked.a) = "true") <=> Disagree(asked.c, asked.a))

\* A rule applies when all of allOf and, if there are any, one of anyOf apply;
\* an error never makes it apply that would not without it.
RuleIsAllAndAny ==
  asked.about = "rule" =>
    LET all == \A i \in DOMAIN asked.all : asked.all[i] = "true"
        any == asked.any = <<>> \/ \E i \in DOMAIN asked.any : asked.any[i] = "true"
        errors == {i \in DOMAIN asked.any : asked.any[i] = "error"} IN
    /\ Evaluate(asked.all, asked.any) = "true" => all /\ any
    /\ errors = {} /\ all /\ any => Evaluate(asked.all, asked.any) = "true"

\* The two evaluators of one rule differ exactly on the conditions Disagree
\* lists, and a rule is the conjunction of allOf and one of anyOf.
PredicateInv == EvaluatorsDisagreeOnlyThere /\ RuleIsAllAndAny
=============================================================================
