---------------------------- MODULE EmailRouting ----------------------------
(***************************************************************************)
(* The route of an email: extract, auto-handle or decision stack, as the   *)
(* worker's Engine.Classify and as the Router with the auto engine choose  *)
(* it.  Emails and rules are abstracted to what the steps find: which of   *)
(* the patterns hit, whether the body could be read, and for each rule     *)
(* whether its predicate holds and its confidence threshold (in percent).  *)
(***************************************************************************)
EXTENDS Integers, Sequences, FiniteSets, SequencesExt

CONSTANTS MaxRules   \* bound: active rules of the user

ASSUME RoutingBounds == MaxRules \in Nat

VARIABLE email       \* the email being routed, as the steps see it

Floor == 92

\* Four of the patterns: two of the highest priority, as the bank declares them.
PatternPriority == <<10, 10, 8, 7>>
Rules == UNION {[1 .. n -> [holds : {"true", "false", "error"}, threshold : {0, 90, 95}]] : n \in 0 .. MaxRules}

\* What the language model answers: nothing usable, or the name of a rule with
\* a confidence in percent.
Answers(rules) == {[rule |-> 0, confidence |-> 0]} \cup [rule : DOMAIN rules, confidence : {90, 96}]

NoEmail == [patterns |-> {}, body |-> "gone", rules |-> <<>>, readable |-> TRUE, llm |-> [rule |-> 0, confidence |-> 0]]

RoutingInit == email = NoEmail
Arrive ==
  /\ email = NoEmail
  /\ \/ \E hits \in SUBSET DOMAIN PatternPriority, body \in {"calendar", "text", "gone", "error"} :
          email' = [NoEmail EXCEPT !.patterns = hits, !.body = body]
     \/ \E rules \in Rules, ok \in BOOLEAN : \E answer \in Answers(rules) :
          email' = [NoEmail EXCEPT !.body = "text", !.rules = rules, !.readable = ok, !.llm = answer]

RoutingSpec == RoutingInit /\ [][Arrive]_email

-----------------------------------------------------------------------------

\* extract.Extract: the patterns in order, the best so far is kept.
Better(i, best) == best = 0 \/ PatternPriority[i] > PatternPriority[best]
Tried(hits, i, best) == IF i \in hits /\ Better(i, best) THEN i ELSE best
BestPattern(hits) == Tried(hits, 4, Tried(hits, 3, Tried(hits, 2, Tried(hits, 1, 0))))

\* Extractor.Process: a calendar invitation is known by its headers, a body that
\* is gone or cannot be read extracts nothing.
Extracted(e) == e.body = "calendar" \/ (e.body = "text" /\ BestPattern(e.patterns) # 0)

To(route, confidence, rule) == [route |-> route, confidence |-> confidence, rule |-> rule]
FirstRule(those) == IF those = {} THEN 0 ELSE Min(those)
Holding(e) == {i \in DOMAIN e.rules : e.rules[i].holds = "true"}

\* Engine.Classify, without a language model as the worker is wired.
Raised(threshold) == IF threshold < Floor THEN Floor ELSE threshold
Classify(e) ==
  LET i == FirstRule(Holding(e)) IN
  IF Extracted(e) THEN To("extract", 100, 0)
  ELSE IF ~e.readable THEN To("decision", 100, 0)
  ELSE IF i = 0 THEN To("decision", 95, 0)
  ELSE To("auto", Raised(e.rules[i].threshold), i)

Applies_NoZero(r) == r.holds = "true" /\ r.threshold >= Floor

\* auto.Engine.Evaluate: a rule below the floor is passed over, 0 means the floor.
Applies(r) == r.holds = "true" /\ (r.threshold = 0 \/ r.threshold >= Floor)
Handled(e) ==
  LET i == FirstRule({j \in DOMAIN e.rules : Applies(e.rules[j])}) IN
  CASE i # 0 -> To("auto", Raised(e.rules[i].threshold), i)
    [] i = 0 /\ e.llm.confidence >= Floor -> To("auto", e.llm.confidence, e.llm.rule)
    [] OTHER -> To("none", 0, 0)

\* Router.Route.
Route(e) ==
  IF Extracted(e) THEN To("extract", 100, 0)
  ELSE IF e.readable /\ Handled(e).route = "auto" THEN Handled(e)
  ELSE To("decision", 0, 0)

-----------------------------------------------------------------------------

\* Of the patterns that hit, the one with the highest priority is taken, and of
\* those the one declared first.
BestPatternWins ==
  LET best == BestPattern(email.patterns) IN
  best # 0 => \A i \in email.patterns :
    \/ PatternPriority[i] < PatternPriority[best]
    \/ PatternPriority[i] = PatternPriority[best] /\ i >= best

\* Mail handled without the user has a confidence above the floor and, in the
\* worker, a rule that holds.
AutoIsConfident ==
  /\ Classify(email).route = "auto" => email.rules[Classify(email).rule].holds = "true"
  /\ \A r \in {Classify(email), Route(email)} : r.route = "auto" => r.confidence >= Floor

\* The two routers agree on the route, except where the first rule that holds
\* asks for less than the floor (the worker raises it, the engine passes over
\* it) or the engine's language model finds a rule.
RoutersAgree ==
  LET i == FirstRule(Holding(email)) IN
  Classify(email).route # Route(email).route =>
    \/ i # 0 /\ email.rules[i].threshold \in 1 .. Floor - 1
    \/ i = 0 /\ email.llm.confidence >= Floor

\* A mail is routed by its best pattern and its first rule, handled without the
\* user only with confidence, and alike by both routers but for two causes.
RoutingInv == BestPatternWins /\ AutoIsConfident /\ RoutersAgree
=============================================================================
