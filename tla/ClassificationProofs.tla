------------------------ MODULE ClassificationProofs ------------------------
(***************************************************************************)
(* Theorems about classification: the cache of the rules, the route of a   *)
(* mail and what a rule matches, the router's pipeline, the consumer of    *)
(* the sync service, the classification worker, the assembly of a mail,    *)
(* and the staged rules.                                                   *)
(***************************************************************************)
EXTENDS MCClassification, RuleCache, EmailRouting, RulePredicate, StagedRules,
        FiniteSetTheorems, SequenceTheorems, WellFoundedInduction, TLAPS

-------------------------------------------------------------------------------
(* RuleCache.  A load that is not yet stored holds the present rules, or a   *)
(* generation that a change has overtaken and excused.                       *)

EntryRecord == [full : BOOLEAN, gen : 0 .. MaxChanges, over : BOOLEAN]
EvalRecord == [at : {"idle", "drop", "load", "set", "match", "usage"}, gen : 0 .. MaxChanges]

CacheTypes ==
  /\ stored \in 0 .. MaxChanges /\ excused \subseteq 0 .. MaxChanges
  /\ eval \in [Eval -> EvalRecord] /\ entry \in EntryRecord
OverIsFull == entry.over => entry.full
LoadsAreExcused == \A e \in Eval : eval[e].at = "set" => eval[e].gen = stored \/ eval[e].gen \in excused

CInv == CacheTypes /\ change \in BOOLEAN /\ OverIsFull /\ LoadsAreExcused /\ OldRulesHaveACause

LEMMA CacheInitially == CacheInit => CInv
<1> SUFFICES ASSUME CacheInit PROVE CInv
  OBVIOUS
<1>1. NoEntry \in EntryRecord /\ NoEvaluation \in EvalRecord /\ ~NoEntry.full /\ ~NoEntry.over /\ NoEvaluation.at = "idle"
  BY RuleCacheBounds DEF NoEntry, NoEvaluation, EntryRecord, EvalRecord
<1>2. CacheTypes
  BY <1>1, RuleCacheBounds DEF CacheInit, CacheTypes
<1>3. LoadsAreExcused /\ OverIsFull /\ OldRulesHaveACause
  BY <1>1 DEF CacheInit, OverIsFull, LoadsAreExcused, OldRulesHaveACause
<1>4. change \in BOOLEAN
  BY DEF CacheInit
<1> QED BY <1>2, <1>3, <1>4 DEF CInv

\* The entry is kept or given up while an evaluation goes on.
LEMMA EvaluationGoes ==
  ASSUME CInv, NEW e \in Eval, NEW x \in EvalRecord, eval' = [eval EXCEPT ![e] = x],
         UNCHANGED <<stored, change, excused>>, entry' = entry \/ entry' = NoEntry,
         x.at = "set" => x.gen = stored
  PROVE  CInv'
<1> USE DEF CInv
<1>1. NoEntry \in EntryRecord /\ ~NoEntry.full /\ ~NoEntry.over
  BY RuleCacheBounds DEF NoEntry, EntryRecord
<1>2. eval' \in [Eval -> EvalRecord] /\ eval'[e] = x /\ \A d \in Eval : d # e => eval'[d] = eval[d]
  BY DEF CacheTypes
<1>3. entry' \in EntryRecord
  BY <1>1 DEF CacheTypes
<1>4. CacheTypes' /\ change' \in BOOLEAN
  BY <1>2, <1>3 DEF CacheTypes
<1>5. LoadsAreExcused'
  BY <1>2 DEF LoadsAreExcused
<1>6. OverIsFull' /\ OldRulesHaveACause'
  <2>1. CASE entry' = entry
    BY <2>1 DEF OverIsFull, OldRulesHaveACause
  <2>2. CASE entry' = NoEntry
    BY <1>1, <2>2 DEF OverIsFull, OldRulesHaveACause
  <2> QED BY <2>1, <2>2
<1> QED BY <1>4, <1>5, <1>6

LEMMA EvaluationPreserves ==
  ASSUME CInv, NEW e \in Eval,
         GetCached(e) \/ DropOver(e) \/ GetActiveRules(e) \/ EvaluateEmail(e) \/ IncrementUsage(e)
  PROVE  CInv'
<1>1. eval[e] \in EvalRecord /\ entry \in EntryRecord /\ stored \in 0 .. MaxChanges /\ 0 \in 0 .. MaxChanges
  BY RuleCacheBounds DEF CInv, CacheTypes
<1>2. UNCHANGED <<stored, change, excused>> /\ (entry' = entry \/ entry' = NoEntry)
  BY DEF GetCached, DropOver, GetActiveRules, EvaluateEmail, IncrementUsage
<1>3. \A g \in 0 .. MaxChanges : \A a \in {"idle", "drop", "load", "set", "match", "usage"} : [at |-> a, gen |-> g] \in EvalRecord
  BY DEF EvalRecord
<1>4. CASE GetCached(e)
  <2> DEFINE x == IF ~entry.full THEN [at |-> "load", gen |-> 0]
                  ELSE IF entry.over THEN [at |-> "drop", gen |-> 0]
                  ELSE [at |-> "match", gen |-> entry.gen]
  <2>1. entry.gen \in 0 .. MaxChanges
    BY <1>1 DEF EntryRecord
  <2>2. x \in EvalRecord /\ x.at # "set" /\ eval' = [eval EXCEPT ![e] = x]
    BY <1>1, <1>3, <1>4, <2>1 DEF GetCached
  <2> HIDE DEF x
  <2> QED BY <1>2, <2>2, EvaluationGoes
<1>5. CASE DropOver(e)
  <2> DEFINE x == [eval[e] EXCEPT !.at = "load"]
  <2>1. x \in EvalRecord /\ x.at # "set" /\ eval' = [eval EXCEPT ![e] = x]
    BY <1>1, <1>5 DEF DropOver, EvalRecord
  <2> HIDE DEF x
  <2> QED BY <1>2, <2>1, EvaluationGoes
<1>6. CASE GetActiveRules(e)
  <2>1. PICK a \in {"set", "idle"} : eval' = [eval EXCEPT ![e] = [at |-> a, gen |-> IF a = "set" THEN stored ELSE 0]]
    BY <1>6 DEF GetActiveRules
  <2> DEFINE x == [at |-> a, gen |-> IF a = "set" THEN stored ELSE 0]
  <2>2. x \in EvalRecord /\ (x.at = "set" => x.gen = stored) /\ eval' = [eval EXCEPT ![e] = x]
    BY <1>1, <1>3, <2>1
  <2> HIDE DEF x
  <2> QED BY <1>2, <2>2, EvaluationGoes
<1>7. CASE EvaluateEmail(e)
  <2>1. PICK a \in {"usage", "idle"} :
          eval' = [eval EXCEPT ![e] = [at |-> a, gen |-> IF a = "usage" THEN eval[e].gen ELSE 0]]
    BY <1>7 DEF EvaluateEmail
  <2> DEFINE x == [at |-> a, gen |-> IF a = "usage" THEN eval[e].gen ELSE 0]
  <2>2. eval[e].gen \in 0 .. MaxChanges
    BY <1>1 DEF EvalRecord
  <2>3. x \in EvalRecord /\ x.at # "set" /\ eval' = [eval EXCEPT ![e] = x]
    BY <1>1, <1>3, <2>1, <2>2
  <2> HIDE DEF x
  <2> QED BY <1>2, <2>3, EvaluationGoes
<1>8. CASE IncrementUsage(e)
  <2>1. NoEvaluation \in EvalRecord /\ NoEvaluation.at # "set" /\ eval' = [eval EXCEPT ![e] = NoEvaluation]
    BY <1>1, <1>8 DEF IncrementUsage, NoEvaluation, EvalRecord
  <2> QED BY <1>2, <2>1, EvaluationGoes
<1> QED BY <1>4, <1>5, <1>6, <1>7, <1>8

\* What a load read is stored, old or not.
LEMMA SetCachedPreserves ==
  ASSUME CInv, NEW e \in Eval, SetCached(e)
  PROVE  CInv'
<1> USE DEF CInv
<1> DEFINE x == [eval[e] EXCEPT !.at = "match"]
           f == [full |-> TRUE, gen |-> eval[e].gen, over |-> FALSE]
<1>1. /\ eval[e] \in EvalRecord /\ eval[e].at = "set" /\ eval' = [eval EXCEPT ![e] = x] /\ entry' = f
      /\ UNCHANGED <<stored, change, excused>>
  BY DEF SetCached, CacheTypes
<1>2. eval[e].gen \in 0 .. MaxChanges /\ x \in EvalRecord /\ x.at = "match"
  BY <1>1 DEF EvalRecord
<1>3. f \in EntryRecord /\ f.full /\ ~f.over /\ f.gen = eval[e].gen
  BY <1>2 DEF EntryRecord
<1> HIDE DEF x, f
<1>4. eval' \in [Eval -> EvalRecord] /\ eval'[e] = x /\ \A d \in Eval : d # e => eval'[d] = eval[d]
  BY <1>1, <1>2 DEF CacheTypes
<1>5. CacheTypes' /\ change' \in BOOLEAN /\ OverIsFull' /\ LoadsAreExcused'
  BY <1>1, <1>2, <1>3, <1>4 DEF CacheTypes, OverIsFull, LoadsAreExcused
<1>6. eval[e].gen = stored \/ eval[e].gen \in excused
  BY <1>1 DEF LoadsAreExcused
<1>7. OldRulesHaveACause'
  BY <1>1, <1>3, <1>6 DEF OldRulesHaveACause
<1> QED BY <1>5, <1>7

\* The rules change: what was read of the old ones and not stored is excused.
LEMMA ChangePreserves ==
  ASSUME CInv, ChangeRules \/ ChangeElsewhere
  PROVE  CInv'
<1> USE DEF CInv
<1>1. stored \in Nat /\ stored < MaxChanges /\ stored' = stored + 1 /\ UNCHANGED <<entry, eval>>
  BY RuleCacheBounds DEF ChangeRules, ChangeElsewhere, CacheTypes
<1>2. ChangedWhile \subseteq excused' /\ excused' \subseteq ChangedWhile \cup {entry.gen}
  BY DEF ChangeRules, ChangeElsewhere
<1>3. entry.gen \in 0 .. MaxChanges /\ InFlight \subseteq 0 .. MaxChanges
  <2>1. \A d \in Eval : eval[d] \in EvalRecord
    BY DEF CacheTypes
  <2> QED BY <2>1 DEF InFlight, CacheTypes, EntryRecord, EvalRecord
<1>4. CacheTypes'
  BY <1>1, <1>2, <1>3, RuleCacheBounds DEF CacheTypes, ChangedWhile
<1>5. LoadsAreExcused'
  BY <1>1, <1>2 DEF LoadsAreExcused, ChangedWhile, InFlight
<1>6. OverIsFull' /\ change' \in BOOLEAN
  BY <1>1 DEF OverIsFull, ChangeRules, ChangeElsewhere
<1>7. OldRulesHaveACause'
  <2>1. CASE ChangeRules
    BY <2>1 DEF ChangeRules, OldRulesHaveACause
  <2>2. CASE ChangeElsewhere
    <3>1. entry.full => entry.gen \in excused'
      BY <2>2 DEF ChangeElsewhere
    <3> QED BY <1>1, <3>1 DEF OldRulesHaveACause
  <2> QED BY <2>1, <2>2
<1> QED BY <1>4, <1>5, <1>6, <1>7

LEMMA EmptyingPreserves ==
  ASSUME CInv, InvalidateUser \/ ProcessDies \/ TimeIsOver
  PROVE  CInv'
<1> USE DEF CInv
<1>1. /\ NoEntry \in EntryRecord /\ ~NoEntry.full /\ ~NoEntry.over
      /\ NoEvaluation \in EvalRecord /\ NoEvaluation.at # "set"
  BY RuleCacheBounds DEF NoEntry, EntryRecord, NoEvaluation, EvalRecord
<1>2. UNCHANGED <<stored, excused>>
  BY DEF InvalidateUser, ProcessDies, TimeIsOver
<1>3. eval' \in [Eval -> EvalRecord] /\ LoadsAreExcused'
  BY <1>1, <1>2 DEF InvalidateUser, ProcessDies, TimeIsOver, LoadsAreExcused, CacheTypes
<1>4. CASE entry' = NoEntry /\ change' = FALSE
  BY <1>1, <1>2, <1>3, <1>4 DEF CacheTypes, OverIsFull, OldRulesHaveACause
<1>5. CASE TimeIsOver
  <2> DEFINE f == [entry EXCEPT !.over = TRUE]
  <2>1. f \in EntryRecord /\ f.full = entry.full /\ f.gen = entry.gen /\ entry.full /\ entry' = f /\ UNCHANGED change
    BY <1>5 DEF TimeIsOver, CacheTypes, EntryRecord
  <2> HIDE DEF f
  <2> QED BY <1>2, <1>3, <2>1 DEF CacheTypes, OverIsFull, OldRulesHaveACause
<1> QED BY <1>4, <1>5 DEF InvalidateUser, ProcessDies, Emptied

LEMMA CacheInductive == CInv /\ [CacheNext]_cacheVars => CInv'
<1> SUFFICES ASSUME CInv, [CacheNext]_cacheVars PROVE CInv'
  OBVIOUS
<1>1. CASE UNCHANGED cacheVars
  BY <1>1 DEF cacheVars, CInv, CacheTypes, OverIsFull, LoadsAreExcused, OldRulesHaveACause
<1>2. ASSUME NEW e \in Eval, EvalStep(e) PROVE CInv'
  BY <1>2, EvaluationPreserves, SetCachedPreserves DEF EvalStep
<1> QED BY <1>1, <1>2, ChangePreserves, EmptyingPreserves DEF CacheNext

\* Old rules are served from the cache only while a change is being made, or
\* when one came from elsewhere or overlapped a load.
THEOREM CacheIsSound == CacheSpec => []CacheInv
<1>1. CacheInit => CInv
  BY CacheInitially
<1>2. CInv /\ [CacheNext]_cacheVars => CInv'
  BY CacheInductive
<1>3. CInv => CacheInv
  BY DEF CInv, CacheTypes, OverIsFull, EntryRecord, EvalRecord, CacheInv, CacheTypeOK
<1> QED BY <1>1, <1>2, <1>3, PTL DEF CacheSpec

-------------------------------------------------------------------------------
(* EmailRouting and RulePredicate compute: the one variable of each holds    *)
(* what is looked at, and the property says what comes out, whatever it is.  *)

LEMMA FirstOfRules ==
  ASSUME NEW S \in SUBSET Nat, S # {}
  PROVE  Min(S) \in S /\ \A y \in S : Min(S) <= y
<1>1. PICK x \in S : \A y \in S : <<y, x>> \notin OpToRel(<, Nat)
  BY NatLessThanWellFounded, WFMin, Zenon
<1>2. \A y \in S : ~(y < x)
  BY <1>1 DEF OpToRel
<1>3. \A y \in S : x <= y
  BY <1>2
<1> QED BY <1>3 DEF Min

EmailRecord ==
  [patterns : SUBSET (1 .. 4), body : {"calendar", "text", "gone", "error"}, rules : Rules, readable : BOOLEAN,
   llm : [rule : Nat, confidence : {0, 90, 96}]]

EmailTypes == email \in EmailRecord

\* Of the patterns that hit, the first of the highest priority is taken.
LEMMA BestIsBest ==
  ASSUME NEW hits \in SUBSET (1 .. 4)
  PROVE  LET best == BestPattern(hits) IN
         best # 0 => \A i \in hits : \/ PatternPriority[i] < PatternPriority[best]
                                     \/ PatternPriority[i] = PatternPriority[best] /\ i >= best
<1>1. /\ PatternPriority[1] = 10 /\ PatternPriority[2] = 10 /\ PatternPriority[3] = 8 /\ PatternPriority[4] = 7
  BY DEF PatternPriority
<1> DEFINE b1 == Tried(hits, 1, 0)
           b2 == Tried(hits, 2, b1)
           b3 == Tried(hits, 3, b2)
           b4 == Tried(hits, 4, b3)
<1>2. b1 = IF 1 \in hits THEN 1 ELSE 0
  BY DEF Tried, Better
<1>3. b2 = IF 1 \in hits THEN 1 ELSE IF 2 \in hits THEN 2 ELSE 0
  <2> HIDE DEF b1
  <2> QED BY <1>1, <1>2 DEF Tried, Better
<1>4. b3 = IF 1 \in hits THEN 1 ELSE IF 2 \in hits THEN 2 ELSE IF 3 \in hits THEN 3 ELSE 0
  <2> HIDE DEF b2
  <2> QED BY <1>1, <1>3 DEF Tried, Better
<1>5. b4 = IF 1 \in hits THEN 1 ELSE IF 2 \in hits THEN 2 ELSE IF 3 \in hits THEN 3 ELSE IF 4 \in hits THEN 4 ELSE 0
  <2> HIDE DEF b3
  <2> QED BY <1>1, <1>4 DEF Tried, Better
<1>6. BestPattern(hits) = b4
  BY DEF BestPattern
<1> HIDE DEF b4
<1>7. \A i \in hits : i = 1 \/ i = 2 \/ i = 3 \/ i = 4
  OBVIOUS
<1> QED BY <1>1, <1>5, <1>6, <1>7

\* A route that handles the mail without the user has a rule, or an answer of
\* the language model, behind it.
LEMMA AutoHasAReason ==
  ASSUME NEW e \in EmailRecord
  PROVE  /\ Classify(e).route = "auto" => e.rules[Classify(e).rule].holds = "true" /\ Classify(e).confidence >= Floor
         /\ Route(e).route = "auto" => Route(e).confidence >= Floor
         /\ Classify(e).route # Route(e).route =>
              \/ FirstRule(Holding(e)) # 0 /\ e.rules[FirstRule(Holding(e))].threshold \in 1 .. Floor - 1
              \/ FirstRule(Holding(e)) = 0 /\ e.llm.confidence >= Floor
<1> DEFINE i == FirstRule(Holding(e))
           those == {j \in DOMAIN e.rules : Applies(e.rules[j])}
           k == FirstRule(those)
<1>1. PICK n \in 0 .. MaxRules :
        e.rules \in [1 .. n -> [holds : {"true", "false", "error"}, threshold : {0, 90, 95}]]
  BY DEF EmailRecord, Rules
<1>2. \A j \in DOMAIN e.rules : j \in Nat /\ j # 0 /\ e.rules[j].threshold \in {0, 90, 95} /\ e.rules[j].threshold \in Nat
  BY <1>1, RoutingBounds
<1>3. e.llm.confidence \in {0, 90, 96}
  BY DEF EmailRecord
<1>4. Holding(e) \in SUBSET Nat /\ those \in SUBSET Nat /\ Holding(e) \subseteq DOMAIN e.rules
  BY <1>2 DEF Holding
<1>5. i = 0 <=> Holding(e) = {}
  BY <1>2, <1>4, FirstOfRules DEF FirstRule
<1>6. i # 0 => i \in DOMAIN e.rules /\ e.rules[i].holds = "true" /\ e.rules[i].threshold \in {0, 90, 95}
  BY <1>2, <1>4, <1>5, FirstOfRules DEF FirstRule, Holding
<1>7. k = 0 <=> those = {}
  BY <1>2, <1>4, FirstOfRules DEF FirstRule
<1>8. k # 0 => k \in DOMAIN e.rules /\ e.rules[k].threshold \in {0, 90, 95}
  BY <1>2, <1>4, <1>7, FirstOfRules DEF FirstRule
<1>9. k # 0 => i # 0
  BY <1>4, <1>5, <1>7 DEF Holding, Applies
<1>10. i # 0 /\ k = 0 => e.rules[i].threshold \in 1 .. Floor - 1
  BY <1>6, <1>7 DEF Applies, Floor
<1>11. \A t \in {0, 90, 95} : Raised(t) >= Floor
  BY DEF Raised, Floor
<1>12. /\ k # 0 => Handled(e) = To("auto", Raised(e.rules[k].threshold), k)
       /\ k = 0 /\ e.llm.confidence >= Floor => Handled(e) = To("auto", e.llm.confidence, e.llm.rule)
       /\ k = 0 /\ ~(e.llm.confidence >= Floor) => Handled(e) = To("none", 0, 0)
  BY DEF Handled
<1>13. /\ Handled(e).route = "auto" => Handled(e).confidence >= Floor
       /\ Handled(e).route = "auto" <=> k # 0 \/ e.llm.confidence >= Floor
  BY <1>8, <1>11, <1>12 DEF To
<1>14. Classify(e) = IF Extracted(e) THEN To("extract", 100, 0)
                     ELSE IF ~e.readable THEN To("decision", 100, 0)
                     ELSE IF i = 0 THEN To("decision", 95, 0)
                     ELSE To("auto", Raised(e.rules[i].threshold), i)
  BY DEF Classify
<1>15. Route(e) = IF Extracted(e) THEN To("extract", 100, 0)
                  ELSE IF e.readable /\ Handled(e).route = "auto" THEN Handled(e)
                  ELSE To("decision", 0, 0)
  BY DEF Route
<1> HIDE DEF i, k, those
<1>16. Classify(e).route = "auto" => e.rules[Classify(e).rule].holds = "true" /\ Classify(e).confidence >= Floor
  BY <1>6, <1>11, <1>14 DEF To
<1>17. Route(e).route = "auto" => Route(e).confidence >= Floor
  BY <1>13, <1>15 DEF To
<1>18. Classify(e).route # Route(e).route =>
         \/ i # 0 /\ e.rules[i].threshold \in 1 .. Floor - 1
         \/ i = 0 /\ e.llm.confidence >= Floor
  BY <1>9, <1>10, <1>13, <1>14, <1>15 DEF To
<1> QED BY <1>16, <1>17, <1>18 DEF i

\* A mail is routed by its best pattern and its first rule, without the user
\* only with confidence, and alike by both routers but for two causes: for any
\* number of rules.
THEOREM RoutingIsSound == RoutingSpec => []RoutingInv
<1>1. NoEmail \in EmailRecord
  <2>1. <<>> \in Rules
    BY RoutingBounds DEF Rules
  <2> QED BY <2>1 DEF NoEmail, EmailRecord
<1>2. RoutingInit => EmailTypes
  BY <1>1 DEF RoutingInit, EmailTypes
<1>3. EmailTypes /\ [Arrive]_email => EmailTypes'
  <2> SUFFICES ASSUME Arrive PROVE email' \in EmailRecord
    BY DEF EmailTypes
  <2>1. CASE \E hits \in SUBSET DOMAIN PatternPriority, body \in {"calendar", "text", "gone", "error"} :
               email' = [NoEmail EXCEPT !.patterns = hits, !.body = body]
    <3>1. DOMAIN PatternPriority = 1 .. 4
      BY DEF PatternPriority
    <3>2. PICK hits \in SUBSET (1 .. 4), body \in {"calendar", "text", "gone", "error"} :
            email' = [NoEmail EXCEPT !.patterns = hits, !.body = body]
      BY <2>1, <3>1
    <3> QED BY <1>1, <3>2 DEF EmailRecord
  <2>2. CASE \E rules \in Rules, ok \in BOOLEAN : \E answer \in Answers(rules) :
               email' = [NoEmail EXCEPT !.body = "text", !.rules = rules, !.readable = ok, !.llm = answer]
    <3>0. PICK rules \in Rules, ok \in BOOLEAN : \E answer \in Answers(rules) :
            email' = [NoEmail EXCEPT !.body = "text", !.rules = rules, !.readable = ok, !.llm = answer]
      BY <2>2
    <3>1. PICK answer \in Answers(rules) :
            email' = [NoEmail EXCEPT !.body = "text", !.rules = rules, !.readable = ok, !.llm = answer]
      BY <3>0
    <3>2. DOMAIN rules \subseteq Nat
      BY RoutingBounds DEF Rules
    <3>3. answer \in [rule : Nat, confidence : {0, 90, 96}]
      BY <3>2 DEF Answers
    <3> QED BY <1>1, <3>1, <3>3 DEF EmailRecord
  <2> QED BY <2>1, <2>2 DEF Arrive
<1>4. EmailTypes => RoutingInv
  <2> SUFFICES ASSUME email \in EmailRecord PROVE RoutingInv
    BY DEF EmailTypes
  <2>1. BestPatternWins
    BY BestIsBest DEF BestPatternWins, EmailRecord
  <2>2. AutoIsConfident /\ RoutersAgree
    BY AutoHasAReason DEF AutoIsConfident, RoutersAgree
  <2> QED BY <2>1, <2>2 DEF RoutingInv
<1> QED BY <1>2, <1>3, <1>4, PTL DEF RoutingSpec

\* What a condition is about: a value of a field, or nothing.
LEMMA FieldValues ==
  ASSUME NEW c \in Conditions, NEW a \in Attributes
  PROVE  LET x == GetField(c.field, a) IN
         \/ x = Nil /\ x.type = "nil"
         \/ x.type = "text" /\ x.is \in Nat
         \/ x.type = "number" /\ x.is \in Nat
         \/ x.type = "flag"
<1>1. a.sender \in Nat /\ a.hour \in Nat
  <2>1. a.sender \in Text /\ a.hour \in 0 .. MaxNumber
    BY DEF Attributes
  <2>2. Text \subseteq Nat /\ MaxNumber \in Nat
    BY PredicateBounds
  <2>3. a.sender \in Nat
    BY <2>1, <2>2
  <2>4. a.hour \in Nat
    BY <2>1, <2>2
  <2> QED BY <2>3, <2>4
<1>2. Halves(a.hour) \in Nat
  BY <1>1 DEF Halves
<1>3. \/ GetField(c.field, a) = TextOf(a.sender)
      \/ GetField(c.field, a) = NumberOf(Halves(a.hour))
      \/ GetField(c.field, a) = FlagOf(a.attachment)
      \/ GetField(c.field, a) = Nil
  BY DEF GetField
<1> QED BY <1>1, <1>2, <1>3 DEF TextOf, NumberOf, FlagOf, Nil

LEMMA ConditionValues ==
  ASSUME NEW c \in Conditions
  PROVE  /\ c.operator \in {"eq", "ne", "contains", "regex", "gt", "lt", "in", "not_in", "mistyped"}
         /\ \/ c.value = Nil /\ c.value.type = "nil"
            \/ c.value.type = "text" /\ c.value.is \in Nat
            \/ c.value.type = "number" /\ c.value.is \in Nat
            \/ c.value.type = "flag"
            \/ c.value.type = "list"
<1>1. \A t \in Text : TextOf(t).type = "text" /\ TextOf(t).is \in Nat
  BY PredicateBounds DEF TextOf
<1>2. \A h \in 0 .. Halves(MaxNumber) : NumberOf(h).type = "number" /\ NumberOf(h).is \in Nat
  BY PredicateBounds DEF NumberOf, Halves
<1>3. (\A b \in BOOLEAN : FlagOf(b).type = "flag") /\ (\A S \in SUBSET Text : ListOf(S).type = "list") /\ Nil.type = "nil"
  BY DEF FlagOf, ListOf, Nil
<1>4. c.value \in {TextOf(t) : t \in Text} \cup {NumberOf(h) : h \in 0 .. Halves(MaxNumber)}
          \cup {FlagOf(b) : b \in BOOLEAN} \cup {ListOf(S) : S \in SUBSET Text} \cup {Nil}
  BY DEF Conditions
<1>5. c.operator \in {"eq", "ne", "contains", "regex", "gt", "lt", "in", "not_in", "mistyped"}
  BY DEF Conditions
<1> QED BY <1>1, <1>2, <1>3, <1>4, <1>5

\* Where the two evaluators part, by the operator.
LEMMA EvaluatorsPart ==
  ASSUME NEW c \in Conditions, NEW a \in Attributes
  PROVE  (Match(c, a) = "true") # (EvalCondition(c, a) = "true") <=> Disagree(c, a)
<1> DEFINE x == GetField(c.field, a)
           v == c.value
           o == c.operator
<1>1. /\ o \in {"eq", "ne", "contains", "regex", "gt", "lt", "in", "not_in", "mistyped"}
      /\ \/ v = Nil /\ v.type = "nil"
         \/ v.type = "text" /\ v.is \in Nat
         \/ v.type = "number" /\ v.is \in Nat
         \/ v.type = "flag"
         \/ v.type = "list"
  BY ConditionValues
<1>2. \/ x = Nil /\ x.type = "nil"
      \/ x.type = "text" /\ x.is \in Nat
      \/ x.type = "number" /\ x.is \in Nat
      \/ x.type = "flag"
  BY FieldValues
<1>3. Match(c, a) =
        CASE o = "eq" -> If(Equal(x, v))
          [] o = "ne" -> If(~Equal(x, v))
          [] o = "contains" -> If(Both(x, v, "text") /\ x = v)
          [] o = "regex" -> IF Both(x, v, "text") THEN Regex(x, v) ELSE "false"
          [] o = "gt" -> Numeric(x, v, 1)
          [] o = "lt" -> Numeric(x, v, -1)
          [] OTHER -> "false"
  BY DEF Match
<1>4. EvalCondition(c, a) =
        IF x = Nil THEN "false" ELSE
        CASE o = "eq" -> If(Equal(x, v))
          [] o = "ne" -> If(~Equal(x, v))
          [] o = "contains" /\ Both(x, v, "text") -> If(x = v)
          [] o = "regex" /\ Both(x, v, "text") -> Regex(x, v)
          [] o = "gt" -> CompareValues(x, v, 1)
          [] o = "lt" -> CompareValues(x, v, -1)
          [] o = "in" /\ x.type = "text" /\ v.type = "list" -> If(x.is \in v.is)
          [] o = "not_in" /\ x.type = "text" /\ v.type = "list" -> If(x.is \notin v.is)
          [] OTHER -> "error"
  BY DEF EvalCondition
<1>5. Disagree(c, a) <=>
        \/ x.type = "text" /\ v.type = "list" /\ o = "in" /\ x.is \in v.is
        \/ x.type = "text" /\ v.type = "list" /\ o = "not_in" /\ x.is \notin v.is
        \/ x = Nil /\ \/ o = "eq" /\ v = Nil
                      \/ o = "ne" /\ v # Nil
        \/ Both(x, v, "text") /\ \/ o = "gt" /\ x.is > v.is
                                 \/ o = "lt" /\ x.is < v.is
        \/ Both(x, v, "number") /\ \/ o = "lt" /\ x.is < v.is /\ x.is >= Halves(v.is \div 2)
                                   \/ o = "gt" /\ x.is > Halves(v.is \div 2) /\ x.is <= v.is
  BY DEF Disagree
<1>6. ASSUME NEW n \in Nat PROVE Whole(n) \in Nat /\ Whole(n) = Halves(n \div 2) /\ Whole(n) <= n
  <2>1. n \div 2 \in Nat /\ 2 * (n \div 2) <= n
    OBVIOUS
  <2> QED BY <2>1 DEF Whole, Halves
<1>7. (If(TRUE) = "true") /\ (If(FALSE) = "false")
  BY DEF If
<1>8. \A b \in BOOLEAN : If(b) = "true" <=> b
  BY DEF If
<1> HIDE DEF x, v, o
<1>9. CASE o \in {"eq", "ne"}
  <2>1. x = Nil => (Equal(x, v) <=> v = Nil)
    BY <1>1, <1>2 DEF Equal, Nil
  <2>2. Equal(x, v) \in BOOLEAN /\ (~Equal(x, v)) \in BOOLEAN
    BY DEF Equal
  <2> QED BY <1>3, <1>4, <1>5, <1>8, <1>9, <2>1, <2>2
<1>10. CASE o \in {"contains", "regex", "mistyped"}
  <2>1. x = Nil => ~Both(x, v, "text")
    BY <1>2 DEF Both, Nil
  <2>2. ~Disagree(c, a)
    BY <1>5, <1>10
  <2>3. CASE Both(x, v, "text")
    <3>1. x # Nil /\ (Both(x, v, "text") /\ x = v <=> x = v) /\ (x = v) \in BOOLEAN
      BY <2>1, <2>3
    <3>2. Match(c, a) = "true" <=> EvalCondition(c, a) = "true"
      BY <1>3, <1>4, <1>8, <1>10, <2>3, <3>1
    <3> QED BY <2>2, <3>2
  <2>4. CASE ~Both(x, v, "text")
    <3>1. Match(c, a) # "true" /\ EvalCondition(c, a) # "true"
      BY <1>3, <1>4, <1>7, <1>8, <1>10, <2>4
    <3> QED BY <2>2, <3>1
  <2> QED BY <2>3, <2>4
<1>11. CASE o \in {"in", "not_in"}
  <2>1. Match(c, a) # "true"
    BY <1>3, <1>11
  <2>2. x.type = "text" => x # Nil
    BY DEF Nil
  <2>3. (x.is \in v.is) \in BOOLEAN /\ (x.is \notin v.is) \in BOOLEAN
    OBVIOUS
  <2>4. EvalCondition(c, a) = "true" <=>
          x.type = "text" /\ v.type = "list" /\ ((o = "in" /\ x.is \in v.is) \/ (o = "not_in" /\ x.is \notin v.is))
    BY <1>4, <1>8, <1>11, <2>2, <2>3
  <2> QED BY <1>5, <1>11, <2>1, <2>4
<1>12. CASE o \in {"gt", "lt"}
  <2>1. CASE Both(x, v, "number")
    <3>1. x.type = "number" /\ v.type = "number" /\ x.is \in Nat /\ v.is \in Nat /\ x # Nil /\ ~Both(x, v, "text")
      BY <1>1, <1>2, <2>1 DEF Both, Nil
    <3>5. /\ Numeric(x, v, 1) = If(1 * (x.is - v.is) > 0) /\ Numeric(x, v, -1) = If((-1) * (x.is - v.is) > 0)
          /\ CompareValues(x, v, 1) = If(1 * (x.is - Whole(v.is)) > 0)
          /\ CompareValues(x, v, -1) = If((-1) * (x.is - Whole(v.is)) > 0)
      <4>1. \A b \in BOOLEAN : (Both(x, v, "number") /\ b) = b
        BY <2>1
      <4>2. /\ (1 * (x.is - v.is) > 0) \in BOOLEAN
            /\ ((-1) * (x.is - v.is) > 0) \in BOOLEAN
        OBVIOUS
      <4>3. Numeric(x, v, 1) = If(1 * (x.is - v.is) > 0)
        BY <4>1, <4>2 DEF Numeric
      <4>4. Numeric(x, v, -1) = If((-1) * (x.is - v.is) > 0)
        BY <4>1, <4>2 DEF Numeric
      <4>5. CompareValues(x, v, 1) = If(1 * (x.is - Whole(v.is)) > 0)
        BY <2>1, <3>1 DEF CompareValues
      <4>6. CompareValues(x, v, -1) = If((-1) * (x.is - Whole(v.is)) > 0)
        BY <2>1, <3>1 DEF CompareValues
      <4> QED BY <4>3, <4>4, <4>5, <4>6
    <3>6. ASSUME NEW h \in Nat, NEW k \in Nat
          PROVE  /\ If(1 * (h - k) > 0) = "true" <=> h > k
                 /\ If((-1) * (h - k) > 0) = "true" <=> h < k
      BY DEF If
    <3>7. Whole(v.is) \in Nat
      BY <1>6, <3>1
    <3>2. o = "gt" => /\ Match(c, a) = "true" <=> x.is > v.is
                      /\ EvalCondition(c, a) = "true" <=> x.is > Whole(v.is)
      BY <1>3, <1>4, <3>1, <3>5, <3>6, <3>7
    <3>3. o = "lt" => /\ Match(c, a) = "true" <=> x.is < v.is
                      /\ EvalCondition(c, a) = "true" <=> x.is < Whole(v.is)
      BY <1>3, <1>4, <3>1, <3>5, <3>6, <3>7
    <3>4. Whole(v.is) \in Nat /\ Whole(v.is) = Halves(v.is \div 2) /\ Whole(v.is) <= v.is
      BY <1>6, <3>1
    <3> QED BY <1>5, <1>12, <2>1, <3>1, <3>2, <3>3, <3>4
  <2>2. CASE Both(x, v, "text")
    <3>1. x.type = "text" /\ v.type = "text" /\ x.is \in Nat /\ v.is \in Nat /\ x # Nil /\ ~Both(x, v, "number")
      BY <1>1, <1>2, <2>2 DEF Both, Nil
    <3>2. Match(c, a) # "true"
      BY <1>3, <1>8, <1>12, <3>1 DEF Numeric
    <3>3. /\ o = "gt" => (EvalCondition(c, a) = "true" <=> x.is > v.is)
          /\ o = "lt" => (EvalCondition(c, a) = "true" <=> x.is < v.is)
      <4>1. /\ CompareValues(x, v, 1) = If(1 * (x.is - v.is) > 0)
            /\ CompareValues(x, v, -1) = If((-1) * (x.is - v.is) > 0)
        BY <2>2, <3>1 DEF CompareValues
      <4>2. /\ If(1 * (x.is - v.is) > 0) = "true" <=> x.is > v.is
            /\ If((-1) * (x.is - v.is) > 0) = "true" <=> x.is < v.is
        BY <3>1 DEF If
      <4> QED BY <1>4, <3>1, <4>1, <4>2
    <3> QED BY <1>5, <1>12, <2>2, <3>1, <3>2, <3>3
  <2>3. CASE ~Both(x, v, "number") /\ ~Both(x, v, "text")
    <3>1. Match(c, a) # "true"
      BY <1>3, <1>8, <1>12, <2>3 DEF Numeric
    <3>2. EvalCondition(c, a) # "true"
      BY <1>4, <1>12, <2>3 DEF CompareValues
    <3> QED BY <1>5, <1>12, <2>3, <3>1, <3>2
  <2> QED BY <2>1, <2>2, <2>3
<1> QED BY <1>1, <1>9, <1>10, <1>11, <1>12

ConditionRecord == [about : {"condition"}, c : Conditions, a : Attributes]
RuleRecord == [about : {"rule"}, all : Results, any : Results]
AskedTypes == asked = NothingAsked \/ asked \in ConditionRecord \/ asked \in RuleRecord

\* A loop over results stops at the first that decides.
LEMMA LoopDecides ==
  ASSUME NEW rs \in Results, NEW decisive, NEW otherwise
  PROVE  \/ (\A i \in DOMAIN rs : rs[i] \notin decisive) /\ FirstDecides(rs, decisive, otherwise) = otherwise
         \/ \E i \in DOMAIN rs : rs[i] \in decisive /\ FirstDecides(rs, decisive, otherwise) = rs[i]
<1> DEFINE those == {i \in DOMAIN rs : rs[i] \in decisive}
<1>1. those \in SUBSET Nat
  BY PredicateBounds DEF Results
<1>2. FirstDecides(rs, decisive, otherwise) = IF those = {} THEN otherwise ELSE rs[Min(those)]
  BY DEF FirstDecides
<1>3. CASE those = {}
  BY <1>2, <1>3
<1>4. CASE those # {}
  <2>1. Min(those) \in those
    BY <1>1, <1>4, FirstOfRules
  <2> QED BY <1>2, <1>4, <2>1
<1> QED BY <1>3, <1>4

\* A rule is the conjunction of allOf and one of anyOf.
LEMMA RuleResult ==
  ASSUME NEW all \in Results, NEW any \in Results
  PROVE  LET every == \A i \in DOMAIN all : all[i] = "true"
             some == any = <<>> \/ \E i \in DOMAIN any : any[i] = "true"
             errors == {i \in DOMAIN any : any[i] = "error"} IN
         /\ Evaluate(all, any) = "true" => every /\ some
         /\ errors = {} /\ every /\ some => Evaluate(all, any) = "true"
<1>1. \A rs \in Results : \A i \in DOMAIN rs : rs[i] \in {"true", "false", "error"}
  BY DEF Results
<1>2. /\ \/ (\A i \in DOMAIN all : all[i] \notin {"false", "error"}) /\ AllOf(all) = "true"
         \/ \E i \in DOMAIN all : all[i] \in {"false", "error"} /\ AllOf(all) = all[i]
  BY LoopDecides DEF AllOf
<1>3. any # <<>> =>
        \/ (\A i \in DOMAIN any : any[i] \notin {"true", "error"}) /\ AnyOf(any) = "false"
        \/ \E i \in DOMAIN any : any[i] \in {"true", "error"} /\ AnyOf(any) = any[i]
  BY LoopDecides DEF AnyOf
<1>4. any = <<>> => AnyOf(any) = "true"
  BY DEF AnyOf
<1>5. AllOf(all) = "true" <=> \A i \in DOMAIN all : all[i] = "true"
  BY <1>1, <1>2
<1>6. AnyOf(any) = "true" => any = <<>> \/ \E i \in DOMAIN any : any[i] = "true"
  BY <1>1, <1>3
<1>7. ASSUME \A i \in DOMAIN any : any[i] # "error", any = <<>> \/ \E i \in DOMAIN any : any[i] = "true"
      PROVE  AnyOf(any) = "true"
  BY <1>1, <1>3, <1>4, <1>7
<1> QED BY <1>5, <1>6, <1>7 DEF Evaluate

\* The two evaluators of one rule differ exactly on the conditions Disagree
\* lists, and a rule is the conjunction of allOf and one of anyOf: for any texts,
\* numbers and number of conditions.
THEOREM PredicateIsSound == PredicateSpec => []PredicateInv
<1>1. PredicateInit => AskedTypes
  BY DEF PredicateInit, AskedTypes
<1>2. AskedTypes /\ [Ask]_asked => AskedTypes'
  BY DEF AskedTypes, Ask, ConditionRecord, RuleRecord
<1>3. AskedTypes => PredicateInv
  <2> SUFFICES ASSUME AskedTypes PROVE PredicateInv
    OBVIOUS
  <2>1. NothingAsked.about = "nothing"
    BY DEF NothingAsked
  <2>2. EvaluatorsDisagreeOnlyThere
    <3>1. asked.about = "condition" => asked.c \in Conditions /\ asked.a \in Attributes
      BY <2>1 DEF AskedTypes, ConditionRecord, RuleRecord
    <3> QED BY <3>1, EvaluatorsPart DEF EvaluatorsDisagreeOnlyThere
  <2>3. RuleIsAllAndAny
    <3>1. asked.about = "rule" => asked.all \in Results /\ asked.any \in Results
      BY <2>1 DEF AskedTypes, ConditionRecord, RuleRecord
    <3> QED BY <3>1, RuleResult DEF RuleIsAllAndAny
  <2> QED BY <2>2, <2>3 DEF PredicateInv
<1> QED BY <1>1, <1>2, <1>3, PTL DEF PredicateSpec

-------------------------------------------------------------------------------
(* A message of the stream, whoever consumes it.                             *)

LEMMA ReturnedKeeps ==
  ASSUME NEW x \in MessageState, NEW max \in Nat
  PROVE  /\ Returned(x, max) \in MessageState /\ Returned(x, max).n = x.n
         /\ Returned(x, max).at = IF x.n >= max THEN "spent" ELSE "ready"
BY DEF Returned, MessageState

LEMMA AckKeeps ==
  ASSUME NEW x \in MessageState, NEW y \in AckOutcomes(x)
  PROVE  y \in MessageState /\ y.n = x.n /\ (y.at = x.at \/ y.at = "acked")
BY DEF AckOutcomes, MessageState

LEMMA NakKeeps ==
  ASSUME NEW x \in MessageState, NEW n, NEW max \in Nat, NEW y \in NakOutcomes(x, n, max)
  PROVE  /\ y \in MessageState /\ y.n = x.n
         /\ y.at = x.at \/ (x.n = n /\ y.at = IF x.n >= max THEN "spent" ELSE "ready")
<1>1. CASE y = x
  BY <1>1
<1>2. CASE x.n = n /\ y = Returned(x, max)
  BY <1>2, ReturnedKeeps
<1> QED BY <1>1, <1>2 DEF NakOutcomes

LEMMA DeliveredCounts ==
  ASSUME NEW x \in MessageState
  PROVE  Delivered(x) \in MessageState /\ Delivered(x).n = x.n + 1 /\ Delivered(x).at = "out"
BY DEF Delivered, MessageState

\* What is left of a buffer, and what is added to it.
LEMMA RestOf ==
  ASSUME NEW S, NEW s \in Seq(S), s # <<>>
  PROVE  /\ Tail(s) \in Seq(S) /\ Head(s) = s[1] /\ 1 \in DOMAIN s
         /\ Len(Tail(s)) = Len(s) - 1
         /\ \A i \in DOMAIN Tail(s) : i \in Nat \ {0} /\ i + 1 \in DOMAIN s /\ Tail(s)[i] = s[i + 1]
<1>1. /\ Len(s) \in Nat \ {0} /\ DOMAIN s = 1 .. Len(s)
      /\ Tail(s) \in Seq(S) /\ Head(s) = s[1] /\ Len(Tail(s)) = Len(s) - 1
      /\ \A i \in 1 .. Len(s) - 1 : Tail(s)[i] = s[i + 1]
  BY HeadTailProperties, LenProperties, EmptySeq
<1>2. DOMAIN Tail(s) = 1 .. Len(s) - 1
  BY <1>1, LenProperties
<1> QED BY <1>1, <1>2

LEMMA MoreOf ==
  ASSUME NEW S, NEW s \in Seq(S), NEW x \in S
  PROVE  /\ Append(s, x) \in Seq(S) /\ Append(s, x) # <<>>
         /\ \A i \in DOMAIN Append(s, x) :
              i \in Nat \ {0} /\ ((i \in DOMAIN s /\ Append(s, x)[i] = s[i]) \/ (i = Len(s) + 1 /\ Append(s, x)[i] = x))
         /\ \A i \in DOMAIN s : i \in Nat /\ i <= Len(s)
         /\ Len(s) \in Nat
<1>1. /\ Append(s, x) \in Seq(S) /\ Append(s, x) # <<>> /\ DOMAIN s = 1 .. Len(s) /\ Len(s) \in Nat
      /\ DOMAIN Append(s, x) = 1 .. Len(s) + 1 /\ Append(s, x)[Len(s) + 1] = x
      /\ \A i \in 1 .. Len(s) : Append(s, x)[i] = s[i]
  BY AppendProperties, LenProperties
<1> QED BY <1>1

-------------------------------------------------------------------------------
(* RoutePipeline.  What is buffered of one message is in the order of its    *)
(* deliveries, and its rule has acted, and its result was published, in      *)
(* fewer of them, but for the one the callback is at.                        *)

StreamOK == \A m \in Letter : stream[m].n <= MaxDeliveries /\ (stream[m].at = "ready" => stream[m].n < MaxDeliveries)
BufferInOrder ==
  \A i, j \in DOMAIN buffered : i < j /\ buffered[i].m = buffered[j].m => buffered[i].n < buffered[j].n
BufferOfStream == \A i \in DOMAIN buffered : buffered[i].n <= stream[buffered[i].m].n
ActsOncePerEntry ==
  \A i \in DOMAIN buffered :
    \/ acted[buffered[i].m] < buffered[i].n
    \/ i = 1 /\ callback # "none" /\ acted[buffered[i].m] <= buffered[i].n
RoutesOncePerEntry ==
  \A i \in DOMAIN buffered :
    \/ routed[buffered[i].m] < buffered[i].n
    \/ i = 1 /\ callback \in {"ack", "nak"} /\ routed[buffered[i].m] <= buffered[i].n
AckFollowsRoute == callback = "ack" => routed[This.m] > 0

PipeInv ==
  /\ PipelineTypeOK /\ AckedIsRouted /\ ActionsPerDelivery
  /\ StreamOK /\ BufferInOrder /\ BufferOfStream
  /\ ActsOncePerEntry /\ RoutesOncePerEntry /\ AckFollowsRoute

BufferEntry == [m : Letter, n : 1 .. MaxDeliveries]

LEMMA EntriesAreTyped ==
  ASSUME PipelineTypeOK
  PROVE  /\ buffered \in Seq(BufferEntry)
         /\ \A i \in DOMAIN buffered :
              /\ i \in Nat \ {0} /\ buffered[i] \in BufferEntry
              /\ buffered[i].m \in Letter /\ buffered[i].n \in Nat
<1>1. buffered \in Seq(BufferEntry)
  BY DEF PipelineTypeOK, BufferEntry
<1>2. \A i \in DOMAIN buffered : i \in Nat \ {0} /\ buffered[i] \in BufferEntry
  BY <1>1, ElementOfSeq, LenProperties
<1> QED BY <1>1, <1>2 DEF BufferEntry

LEMMA PipelineInitially == PipelineInit => PipeInv
<1> SUFFICES ASSUME PipelineInit PROVE PipeInv
  OBVIOUS
<1> USE PipelineBounds DEF PipelineInit
<1>1. PipelineTypeOK
  <2>1. NewMessage \in MessageState
    BY DEF NewMessage, MessageState
  <2> QED BY <2>1, EmptySeq DEF PipelineTypeOK
<1>2. AckedIsRouted /\ ActionsPerDelivery /\ StreamOK
  BY DEF AckedIsRouted, ActionsPerDelivery, StreamOK, NewMessage
<1>3. DOMAIN buffered = {}
  BY EmptySeq
<1>4. BufferInOrder /\ BufferOfStream /\ ActsOncePerEntry /\ RoutesOncePerEntry /\ AckFollowsRoute
  BY <1>3 DEF BufferInOrder, BufferOfStream, ActsOncePerEntry, RoutesOncePerEntry, AckFollowsRoute
<1> QED BY <1>1, <1>2, <1>4 DEF PipeInv

\* Whatever drops the buffer with the callback keeps the invariant.
LEMMA BufferDropped ==
  ASSUME PipeInv, buffered' = <<>>, callback' = "none", outages' \in 0 .. MaxOutages,
         pipeline' \in [at : {"running", "stopping", "stopped"}, closed : BOOLEAN],
         UNCHANGED <<stream, routed, acted, unanswered>>
  PROVE  PipeInv'
<1> USE DEF PipeInv
<1>1. PipelineTypeOK'
  BY EmptySeq DEF PipelineTypeOK
<1>2. DOMAIN buffered' = {}
  BY EmptySeq
<1>3. (BufferInOrder /\ BufferOfStream /\ ActsOncePerEntry /\ RoutesOncePerEntry /\ AckFollowsRoute)'
  BY <1>2 DEF BufferInOrder, BufferOfStream, ActsOncePerEntry, RoutesOncePerEntry, AckFollowsRoute
<1>4. (AckedIsRouted /\ ActionsPerDelivery /\ StreamOK)'
  BY DEF AckedIsRouted, ActionsPerDelivery, StreamOK
<1> QED BY <1>1, <1>3, <1>4

\* What happens to a message in the stream: its deliveries stay, it waits again
\* only when some are left, and it is acked only after its result.
LEMMA MessageMoves ==
  ASSUME PipeInv, NEW m \in Letter, NEW x \in MessageState, stream' = [stream EXCEPT ![m] = x],
         x.n = stream[m].n, x.at = "ready" => stream[m].at = "ready" \/ x.n < MaxDeliveries,
         x.at = "acked" => stream[m].at = "acked" \/ routed[m] > 0,
         UNCHANGED <<pipeline, routed, acted, outages, unanswered>>,
         UNCHANGED <<buffered, callback>> \/ (callback # "none" /\ CallbackEnds)
  PROVE  PipeInv'
<1> USE DEF PipeInv
<1>1. /\ stream' \in [Letter -> MessageState] /\ stream'[m] = x
      /\ \A k \in Letter : k # m => stream'[k] = stream[k]
  BY DEF PipelineTypeOK
<1>2. \A k \in Letter : stream'[k].n = stream[k].n
  BY <1>1
<1>3. (AckedIsRouted /\ ActionsPerDelivery /\ StreamOK)'
  <2>1. AckedIsRouted'
    BY <1>1 DEF AckedIsRouted
  <2>2. ActionsPerDelivery'
    BY <1>2 DEF ActionsPerDelivery
  <2>3. StreamOK'
    BY <1>1, <1>2 DEF StreamOK
  <2> QED BY <2>1, <2>2, <2>3
<1>4. CASE UNCHANGED <<buffered, callback>>
  <2>1. PipelineTypeOK'
    BY <1>1, <1>4 DEF PipelineTypeOK
  <2>2. BufferOfStream'
    <3>1. \A i \in DOMAIN buffered : buffered[i].m \in Letter
      BY EntriesAreTyped
    <3> QED BY <1>2, <1>4, <3>1 DEF BufferOfStream
  <2>3. (BufferInOrder /\ ActsOncePerEntry /\ RoutesOncePerEntry /\ AckFollowsRoute)'
    BY <1>4 DEF BufferInOrder, ActsOncePerEntry, RoutesOncePerEntry, AckFollowsRoute, This
  <2> QED BY <1>3, <2>1, <2>2, <2>3
<1>5. CASE callback # "none" /\ CallbackEnds
  <2>1. buffered \in Seq(BufferEntry) /\ buffered # <<>>
    BY <1>5 DEF PipelineTypeOK, BufferEntry
  <2>2. /\ buffered' \in Seq(BufferEntry) /\ callback' = "none"
        /\ \A i \in DOMAIN buffered' : i \in Nat \ {0} /\ i + 1 \in DOMAIN buffered /\ buffered'[i] = buffered[i + 1]
    BY <1>5, <2>1, RestOf DEF CallbackEnds
  <2>3. PipelineTypeOK'
    BY <1>1, <2>2 DEF PipelineTypeOK, BufferEntry
  <2>4. BufferOfStream'
    <3>1. \A i \in DOMAIN buffered : buffered[i].m \in Letter
      BY EntriesAreTyped
    <3> QED BY <1>2, <2>2, <3>1 DEF BufferOfStream
  <2>5. BufferInOrder'
    <3> SUFFICES ASSUME NEW i \in DOMAIN buffered', NEW j \in DOMAIN buffered', i < j,
                        buffered'[i].m = buffered'[j].m
                 PROVE  buffered'[i].n < buffered'[j].n
      BY DEF BufferInOrder
    <3>1. i + 1 < j + 1
      BY <2>2
    <3> QED BY <2>2, <3>1 DEF BufferInOrder
  <2>6. \A i \in DOMAIN buffered' : i + 1 # 1
    BY <2>2
  <2>7. ActsOncePerEntry'
    BY <2>2, <2>6 DEF ActsOncePerEntry
  <2>8. RoutesOncePerEntry'
    BY <2>2, <2>6 DEF RoutesOncePerEntry
  <2>9. AckFollowsRoute'
    BY <2>2 DEF AckFollowsRoute
  <2> QED BY <1>3, <2>3, <2>4, <2>5, <2>7, <2>8, <2>9
<1> QED BY <1>4, <1>5

LEMMA PushKeeps == ASSUME PipeInv, NEW m \in Letter, Push(m) PROVE PipeInv'
<1> USE DEF PipeInv, Push
<1> DEFINE e == [m |-> m, n |-> stream[m].n + 1]
<1>1. stream[m] \in MessageState /\ stream[m].n \in Nat /\ stream[m].n < MaxDeliveries
  BY DEF PipelineTypeOK, StreamOK, MessageState
<1>2. /\ stream' \in [Letter -> MessageState] /\ stream'[m].n = stream[m].n + 1 /\ stream'[m].at = "out"
      /\ \A k \in Letter : k # m => stream'[k] = stream[k]
  BY <1>1, DeliveredCounts DEF PipelineTypeOK
<1>3. e \in BufferEntry /\ e.m = m /\ e.n = stream[m].n + 1
  BY <1>1, PipelineBounds DEF BufferEntry
<1> HIDE DEF e
<1>4. /\ buffered \in Seq(BufferEntry) /\ buffered' = Append(buffered, e)
      /\ \A i \in DOMAIN buffered : buffered[i] \in BufferEntry
  BY EntriesAreTyped DEF e
<1>5. /\ buffered' \in Seq(BufferEntry) /\ buffered' # <<>>
      /\ \A i \in DOMAIN buffered' :
           i \in Nat \ {0} /\ ((i \in DOMAIN buffered /\ buffered'[i] = buffered[i])
                              \/ (i = Len(buffered) + 1 /\ buffered'[i] = e))
      /\ \A i \in DOMAIN buffered : i \in Nat /\ i <= Len(buffered)
      /\ Len(buffered) \in Nat
  BY <1>3, <1>4, MoreOf
<1>6. \A k \in Letter : stream[k].n \in Nat /\ stream'[k].n \in Nat /\ stream[k].n <= stream'[k].n
  BY <1>1, <1>2 DEF PipelineTypeOK, MessageState
<1>7. acted \in [Letter -> Nat] /\ routed \in [Letter -> Nat]
  BY DEF PipelineTypeOK
<1>8. PipelineTypeOK'
  BY <1>2, <1>5 DEF PipelineTypeOK, BufferEntry
<1>9. AckedIsRouted' /\ ActionsPerDelivery' /\ StreamOK'
  <2>1. AckedIsRouted'
    BY <1>2 DEF AckedIsRouted
  <2>2. ActionsPerDelivery'
    BY <1>6, <1>7 DEF ActionsPerDelivery
  <2>3. StreamOK'
    BY <1>1, <1>2, PipelineBounds DEF StreamOK
  <2> QED BY <2>1, <2>2, <2>3
<1>10. \A i \in DOMAIN buffered : buffered[i].m \in Letter /\ buffered[i].n \in Nat
  BY <1>4 DEF BufferEntry
<1>11. BufferOfStream'
  BY <1>2, <1>3, <1>5, <1>6, <1>10 DEF BufferOfStream
<1>12. BufferInOrder'
  <2> SUFFICES ASSUME NEW i \in DOMAIN buffered', NEW j \in DOMAIN buffered', i < j,
                      buffered'[i].m = buffered'[j].m
               PROVE  buffered'[i].n < buffered'[j].n
    BY DEF BufferInOrder
  <2>1. i \in DOMAIN buffered /\ buffered'[i] = buffered[i]
    BY <1>5
  <2>2. CASE j \in DOMAIN buffered /\ buffered'[j] = buffered[j]
    BY <2>1, <2>2 DEF BufferInOrder
  <2>3. CASE buffered'[j] = e
    BY <1>1, <1>3, <1>10, <2>1, <2>3 DEF BufferOfStream
  <2> QED BY <1>5, <2>2, <2>3
<1>13. ActsOncePerEntry'
  <2> SUFFICES ASSUME NEW i \in DOMAIN buffered'
               PROVE  \/ acted[buffered'[i].m] < buffered'[i].n
                      \/ i = 1 /\ callback # "none" /\ acted[buffered'[i].m] <= buffered'[i].n
    BY DEF ActsOncePerEntry
  <2>1. CASE i \in DOMAIN buffered /\ buffered'[i] = buffered[i]
    BY <2>1 DEF ActsOncePerEntry
  <2>2. CASE buffered'[i] = e
    BY <1>1, <1>3, <1>7, <2>2 DEF ActionsPerDelivery
  <2> QED BY <1>5, <2>1, <2>2
<1>14. RoutesOncePerEntry'
  <2> SUFFICES ASSUME NEW i \in DOMAIN buffered'
               PROVE  \/ routed[buffered'[i].m] < buffered'[i].n
                      \/ i = 1 /\ callback \in {"ack", "nak"} /\ routed[buffered'[i].m] <= buffered'[i].n
    BY DEF RoutesOncePerEntry
  <2>1. CASE i \in DOMAIN buffered /\ buffered'[i] = buffered[i]
    BY <2>1 DEF RoutesOncePerEntry
  <2>2. CASE buffered'[i] = e
    BY <1>1, <1>3, <1>7, <2>2 DEF ActionsPerDelivery
  <2> QED BY <1>5, <2>1, <2>2
<1>15. AckFollowsRoute'
  <2>1. CASE callback = "ack"
    <3>1. buffered # <<>>
      BY <2>1 DEF PipelineTypeOK
    <3>2. Head(buffered') = Head(buffered)
      BY <1>3, <1>4, <3>1, HeadTailAppend
    <3> QED BY <2>1, <3>2 DEF AckFollowsRoute, This
  <2>2. CASE callback # "ack"
    BY <2>2 DEF AckFollowsRoute
  <2> QED BY <2>1, <2>2
<1> QED BY <1>8, <1>9, <1>11, <1>12, <1>13, <1>14, <1>15


\* The first entry, which the callback is at, and those that wait behind it.
LEMMA FirstAndRest ==
  ASSUME PipeInv, buffered # <<>>
  PROVE  /\ 1 \in DOMAIN buffered /\ This = buffered[1] /\ This.m \in Letter /\ This.n \in Nat
         /\ This.n <= stream[This.m].n
         /\ \A i \in DOMAIN buffered : i # 1 /\ buffered[i].m = This.m => This.n < buffered[i].n
<1> USE DEF PipeInv
<1>1. buffered \in Seq(BufferEntry)
  BY EntriesAreTyped
<1>2. 1 \in DOMAIN buffered /\ This = buffered[1]
  BY <1>1, RestOf DEF This
<1>3. This.m \in Letter /\ This.n \in Nat /\ This.n <= stream[This.m].n
  BY <1>2, EntriesAreTyped DEF BufferOfStream
<1>4. ASSUME NEW i \in DOMAIN buffered, i # 1, buffered[i].m = This.m PROVE This.n < buffered[i].n
  <2>1. 1 < i
    BY <1>4, EntriesAreTyped
  <2> QED BY <1>2, <1>4, <2>1 DEF BufferInOrder
<1> QED BY <1>2, <1>3, <1>4

LEMMA HandleKeeps == ASSUME PipeInv, HandleMessage PROVE PipeInv'
<1> USE DEF PipeInv, HandleMessage
<1> DEFINE k == This.m
<1>1. /\ 1 \in DOMAIN buffered /\ This = buffered[1] /\ k \in Letter /\ This.n \in Nat
      /\ This.n <= stream[k].n /\ stream[k].n \in Nat
      /\ \A i \in DOMAIN buffered : i # 1 /\ buffered[i].m = k => This.n < buffered[i].n
  BY FirstAndRest DEF PipelineTypeOK, MessageState
<1>2. acted \in [Letter -> Nat] /\ acted[k] < This.n
  BY <1>1 DEF ActsOncePerEntry, PipelineTypeOK
<1>3. /\ acted' \in [Letter -> Nat] /\ acted'[k] <= acted[k] + 1 /\ acted'[k] \in Nat
      /\ \A m \in Letter : m # k => acted'[m] = acted[m]
  <2>1. CASE acted' = acted
    BY <1>1, <1>2, <2>1
  <2>2. CASE \E ran \in {0, 1} : acted' = [acted EXCEPT ![k] = @ + ran]
    <3>1. PICK ran \in {0, 1} : acted' = [acted EXCEPT ![k] = @ + ran]
      BY <2>2
    <3>2. ran \in Nat /\ ran <= 1
      BY <3>1
    <3> QED BY <1>1, <1>2, <3>1, <3>2
  <2> QED BY <2>1, <2>2 DEF This
<1>4. callback' \in {"nak", "publish"}
  OBVIOUS
<1> HIDE DEF k, HandleMessage
<1>5. UNCHANGED <<stream, pipeline, buffered, routed, outages, unanswered>> /\ callback = "none" /\ buffered # <<>>
  BY DEF HandleMessage
<1>6. PipelineTypeOK'
  BY <1>3, <1>4, <1>5 DEF PipelineTypeOK
<1>7. (AckedIsRouted /\ StreamOK /\ BufferInOrder /\ BufferOfStream)'
  BY <1>5 DEF AckedIsRouted, StreamOK, BufferInOrder, BufferOfStream
<1>8. ActionsPerDelivery'
  <2> SUFFICES ASSUME NEW m \in Letter PROVE acted'[m] <= stream[m].n /\ routed[m] <= stream[m].n
    BY <1>5 DEF ActionsPerDelivery
  <2>1. CASE m = k
    BY <1>1, <1>2, <1>3, <2>1 DEF ActionsPerDelivery
  <2>2. CASE m # k
    BY <1>3, <2>2 DEF ActionsPerDelivery
  <2> QED BY <2>1, <2>2
<1>9. ActsOncePerEntry'
  <2> SUFFICES ASSUME NEW i \in DOMAIN buffered
               PROVE  \/ acted'[buffered[i].m] < buffered[i].n
                      \/ i = 1 /\ acted'[buffered[i].m] <= buffered[i].n
    BY <1>4, <1>5 DEF ActsOncePerEntry
  <2>0. buffered[i].m \in Letter /\ buffered[i].n \in Nat
    BY EntriesAreTyped
  <2>1. CASE i = 1
    <3>1. acted'[k] <= This.n
      BY <1>1, <1>2, <1>3
    <3> QED BY <1>1, <2>1, <3>1 DEF k
  <2>2. CASE i # 1 /\ buffered[i].m = k
    <3>1. acted'[k] < buffered[i].n
      BY <1>1, <1>2, <1>3, <2>0, <2>2
    <3> QED BY <2>2, <3>1
  <2>3. CASE i # 1 /\ buffered[i].m # k
    BY <1>3, <1>5, <2>0, <2>3 DEF ActsOncePerEntry
  <2> QED BY <2>1, <2>2, <2>3
<1>10. RoutesOncePerEntry'
  BY <1>5 DEF RoutesOncePerEntry
<1>11. AckFollowsRoute'
  BY <1>4 DEF AckFollowsRoute
<1> QED BY <1>6, <1>7, <1>8, <1>9, <1>10, <1>11

LEMMA PublishKeeps == ASSUME PipeInv, PublishResult PROVE PipeInv'
<1> USE DEF PipeInv
<1> DEFINE k == This.m
<1>1. PICK ok \in BOOLEAN, there \in BOOLEAN :
        /\ ok => there
        /\ callback' = AfterPublish(ok)
        /\ routed' = [routed EXCEPT ![k] = IF there THEN @ + 1 ELSE @]
        /\ unanswered' = IF there /\ ~ok THEN unanswered \cup {k} ELSE unanswered
  BY DEF PublishResult
<1>2. callback = "publish" /\ buffered # <<>> /\ UNCHANGED <<stream, pipeline, buffered, acted, outages>>
  BY DEF PublishResult, PipelineTypeOK
<1>3. /\ 1 \in DOMAIN buffered /\ This = buffered[1] /\ k \in Letter /\ This.n \in Nat
      /\ This.n <= stream[k].n /\ stream[k].n \in Nat
      /\ \A i \in DOMAIN buffered : i # 1 /\ buffered[i].m = k => This.n < buffered[i].n
  BY <1>2, FirstAndRest DEF PipelineTypeOK, MessageState
<1>4. routed \in [Letter -> Nat] /\ routed[k] < This.n
  BY <1>2, <1>3 DEF RoutesOncePerEntry, PipelineTypeOK
<1>5. /\ routed' \in [Letter -> Nat] /\ routed'[k] <= routed[k] + 1 /\ routed'[k] \in Nat /\ routed[k] <= routed'[k]
      /\ there => routed'[k] > 0
      /\ \A m \in Letter : m # k => routed'[m] = routed[m]
  BY <1>1, <1>3, <1>4
<1>6. callback' \in {"ack", "nak"} /\ (callback' = "ack" => there)
  BY <1>1 DEF AfterPublish
<1>7. unanswered' \subseteq Letter
  BY <1>1, <1>3 DEF PipelineTypeOK
<1> HIDE DEF k
<1>8. PipelineTypeOK'
  BY <1>2, <1>5, <1>6, <1>7 DEF PipelineTypeOK
<1>9. (StreamOK /\ BufferInOrder /\ BufferOfStream)'
  BY <1>2 DEF StreamOK, BufferInOrder, BufferOfStream
<1>10. AckedIsRouted' /\ ActionsPerDelivery'
  <2> SUFFICES ASSUME NEW m \in Letter
               PROVE  /\ stream[m].at = "acked" => routed'[m] > 0
                      /\ acted[m] <= stream[m].n /\ routed'[m] <= stream[m].n
    BY <1>2 DEF AckedIsRouted, ActionsPerDelivery
  <2>1. CASE m = k
    BY <1>3, <1>4, <1>5, <2>1 DEF AckedIsRouted, ActionsPerDelivery
  <2>2. CASE m # k
    BY <1>5, <2>2 DEF AckedIsRouted, ActionsPerDelivery
  <2> QED BY <2>1, <2>2
<1>11. ActsOncePerEntry'
  BY <1>2, <1>6 DEF ActsOncePerEntry
<1>12. RoutesOncePerEntry'
  <2> SUFFICES ASSUME NEW i \in DOMAIN buffered
               PROVE  \/ routed'[buffered[i].m] < buffered[i].n
                      \/ i = 1 /\ routed'[buffered[i].m] <= buffered[i].n
    BY <1>2, <1>6 DEF RoutesOncePerEntry
  <2>0. buffered[i].m \in Letter /\ buffered[i].n \in Nat
    BY EntriesAreTyped
  <2>1. CASE i = 1
    <3>1. routed'[k] <= This.n
      BY <1>3, <1>4, <1>5
    <3> QED BY <1>3, <2>1, <3>1 DEF k
  <2>2. CASE i # 1 /\ buffered[i].m = k
    <3>1. routed'[k] < buffered[i].n
      BY <1>3, <1>4, <1>5, <2>0, <2>2
    <3> QED BY <2>2, <3>1
  <2>3. CASE i # 1 /\ buffered[i].m # k
    BY <1>2, <1>5, <2>0, <2>3 DEF RoutesOncePerEntry
  <2> QED BY <2>1, <2>2, <2>3
<1>13. AckFollowsRoute'
  <2>1. This' = This
    BY <1>2 DEF This
  <2> QED BY <1>5, <1>6, <2>1 DEF AckFollowsRoute, k
<1> QED BY <1>8, <1>9, <1>10, <1>11, <1>12, <1>13

LEMMA PipelineKeeps == ASSUME PipeInv, [PipelineNext]_pipelineVars PROVE PipeInv'
<1> USE DEF PipeInv
<1>1. CASE UNCHANGED pipelineVars
  BY <1>1 DEF pipelineVars, PipelineTypeOK, AckedIsRouted, ActionsPerDelivery, StreamOK, BufferInOrder, BufferOfStream,
     ActsOncePerEntry, RoutesOncePerEntry, AckFollowsRoute, This
<1>2. pipeline \in [at : {"running", "stopping", "stopped"}, closed : BOOLEAN] /\ outages \in Nat /\ outages <= MaxOutages
  BY DEF PipelineTypeOK
<1>3. ASSUME pipeline' \in [at : {"running", "stopping", "stopped"}, closed : BOOLEAN], outages' \in 0 .. MaxOutages,
             UNCHANGED <<stream, buffered, callback, routed, acted, unanswered>>
      PROVE  PipeInv'
  BY <1>3 DEF PipelineTypeOK, AckedIsRouted, ActionsPerDelivery, StreamOK, BufferInOrder, BufferOfStream,
     ActsOncePerEntry, RoutesOncePerEntry, AckFollowsRoute, This
<1>4. \A at \in {"running", "stopping", "stopped"}, closed \in BOOLEAN :
        [at |-> at, closed |-> closed] \in [at : {"running", "stopping", "stopped"}, closed : BOOLEAN]
  OBVIOUS
<1>5. \A at \in {"running", "stopping", "stopped"} :
        [pipeline EXCEPT !.at = at] \in [at : {"running", "stopping", "stopped"}, closed : BOOLEAN]
  BY <1>2
<1>6. outages < MaxOutages /\ outages' = outages + 1 => outages' \in 0 .. MaxOutages
  BY <1>2, PipelineBounds
<1>7. CASE StartPipeline
  BY <1>3, <1>5, <1>7 DEF StartPipeline, PipelineTypeOK
<1>8. CASE StopPipeline
  <2>1. CASE pipeline.closed
    BY <1>4, <1>6, <1>8, <2>1, BufferDropped DEF StopPipeline
  <2>2. CASE ~pipeline.closed
    BY <1>3, <1>4, <1>6, <1>8, <2>2 DEF StopPipeline
  <2> QED BY <2>1, <2>2
<1>9. CASE PipelineStops
  BY <1>5, <1>9, BufferDropped DEF PipelineStops, PipelineTypeOK
<1>10. CASE PipelineDies
  BY <1>4, <1>6, <1>10, BufferDropped DEF PipelineDies
<1>11. CASE AckMessage
  <2>1. buffered # <<>>
    BY <1>11 DEF AckMessage, PipelineTypeOK
  <2>2. This.m \in Letter /\ stream[This.m] \in MessageState
    BY <2>1, FirstAndRest DEF PipelineTypeOK
  <2>3. PICK x \in AckOutcomes(stream[This.m]) : stream' = [stream EXCEPT ![This.m] = x]
    BY <1>11 DEF AckMessage
  <2>4. x \in MessageState /\ x.n = stream[This.m].n /\ (x.at = stream[This.m].at \/ x.at = "acked")
    BY <2>2, AckKeeps
  <2>5. routed[This.m] > 0
    BY <1>11 DEF AckMessage, AckFollowsRoute
  <2>6. x.at = "ready" => stream[This.m].at = "ready"
    BY <2>4
  <2> QED BY <1>11, <2>2, <2>3, <2>4, <2>5, <2>6, MessageMoves DEF AckMessage
<1>12. CASE NakMessage
  <2>1. buffered # <<>>
    BY <1>12 DEF NakMessage, PipelineTypeOK
  <2>2. This.m \in Letter /\ stream[This.m] \in MessageState /\ stream[This.m].n \in Nat
    BY <2>1, FirstAndRest DEF PipelineTypeOK, MessageState
  <2>3. PICK x \in NakOutcomes(stream[This.m], This.n, MaxDeliveries) : stream' = [stream EXCEPT ![This.m] = x]
    BY <1>12 DEF NakMessage
  <2>4. /\ x \in MessageState /\ x.n = stream[This.m].n
        /\ x.at = stream[This.m].at \/ x.at = IF stream[This.m].n >= MaxDeliveries THEN "spent" ELSE "ready"
    BY <2>2, NakKeeps, PipelineBounds
  <2>5. x.at = "acked" => stream[This.m].at = "acked"
    BY <2>4
  <2>6. x.at = "ready" => stream[This.m].at = "ready" \/ x.n < MaxDeliveries
    BY <2>2, <2>4, PipelineBounds
  <2> QED BY <1>12, <2>2, <2>3, <2>4, <2>5, <2>6, MessageMoves DEF NakMessage
<1>13. ASSUME NEW m \in Letter, TimeToAckOver(m) PROVE PipeInv'
  <2>1. stream[m] \in MessageState /\ stream[m].n \in Nat
    BY DEF PipelineTypeOK, MessageState
  <2> DEFINE x == Returned(stream[m], MaxDeliveries)
  <2>2. /\ x \in MessageState /\ x.n = stream[m].n
        /\ x.at = IF stream[m].n >= MaxDeliveries THEN "spent" ELSE "ready"
    BY <2>1, ReturnedKeeps, PipelineBounds
  <2>3. stream' = [stream EXCEPT ![m] = x]
    BY <1>13 DEF TimeToAckOver
  <2> HIDE DEF x
  <2>4. (x.at = "ready" => x.n < MaxDeliveries) /\ x.at # "acked"
    BY <2>1, <2>2, PipelineBounds
  <2> QED BY <1>13, <2>2, <2>3, <2>4, MessageMoves DEF TimeToAckOver
<1> QED BY <1>1, <1>7, <1>8, <1>9, <1>10, <1>11, <1>12, <1>13, HandleKeeps, PublishKeeps, PushKeeps
        DEF PipelineNext, PipelineStep

\* In every behaviour of the router's pipeline, with any stops, crashes and
\* redeliveries, a message is acked only after its result is published, and its
\* rule acts at most once in a delivery (RoutePipeline.HandleMessage).
THEOREM PipelineIsSound == PipelineSpec => []PipelineInv
<1>1. PipeInv => PipelineInv
  BY DEF PipeInv, PipelineInv
<1> QED BY <1>1, PipelineInitially, PipelineKeeps, PTL DEF PipelineSpec


-------------------------------------------------------------------------------
(* SyncConsumer.  The same about the consumer of the sync service, where a   *)
(* shutdown makes the stream count from the beginning: what was handled is   *)
(* counted against the deliveries of every durable consumer there was.       *)

Before(n) == NATSMaxDeliver * n

EventsOK ==
  \A e \in Event : events[e].n <= NATSMaxDeliver /\ (events[e].at = "ready" => events[e].n < NATSMaxDeliver)
PushedInOrder == \A i, j \in DOMAIN pushed : i < j /\ pushed[i].e = pushed[j].e => pushed[i].n < pushed[j].n
PushedOfEvents == \A i \in DOMAIN pushed : pushed[i].n <= events[pushed[i].e].n
HandledSoFar == \A e \in Event : handled[e] <= Before(ends) + events[e].n
HandlesOncePerEntry ==
  \A i \in DOMAIN pushed :
    \/ handled[pushed[i].e] < Before(ends) + pushed[i].n
    \/ i = 1 /\ serving # "none" /\ handled[pushed[i].e] <= Before(ends) + pushed[i].n
ForwardedOnce ==
  \A e \in Event : deadCopies[e] <= ends + 1 /\ (events[e].n < NATSMaxDeliver => deadCopies[e] <= ends)
LastNotYetForwarded ==
  \A i \in DOMAIN pushed :
    pushed[i].n = NATSMaxDeliver => deadCopies[pushed[i].e] <= ends \/ (i = 1 /\ serving \in {"ack", "nak"})
DeadIsUnreadable == \A e \in Event : deadCopies[e] > 0 => e \in Unreadable
ServingSound ==
  /\ serving = "forward" => Current.e \in Unreadable /\ IsLast(Current.n)
  /\ serving = "ack" => handled[Current.e] > 0 \/ deadCopies[Current.e] > 0
  /\ serving = "nak" /\ IsLast(Current.n) => deadCopies[Current.e] > 0 \/ Current.e \in missed

Consumed == EventsOK /\ PushedInOrder /\ PushedOfEvents /\ HandledSoFar /\ HandlesOncePerEntry
Forwarded == ForwardedOnce /\ LastNotYetForwarded /\ DeadIsUnreadable /\ ServingSound
SyncInv == SyncerTypeOK /\ AckedIsAccountedFor /\ SpentHasACause /\ Consumed /\ Forwarded

PushedEntry == [e : Event, n : 1 .. NATSMaxDeliver]

LEMMA BeforeCounts ==
  ASSUME NEW k \in Nat
  PROVE  /\ Before(k) \in Nat /\ Before(k + 1) = Before(k) + NATSMaxDeliver
         /\ NATSMaxDeliver * (1 + k) = Before(k) + NATSMaxDeliver
<1>1. NATSMaxDeliver \in Nat
  BY SyncerBounds
<1> QED BY <1>1 DEF Before

LEMMA PushedAreTyped ==
  ASSUME SyncerTypeOK
  PROVE  /\ pushed \in Seq(PushedEntry)
         /\ \A i \in DOMAIN pushed :
              /\ i \in Nat \ {0} /\ pushed[i] \in PushedEntry
              /\ pushed[i].e \in Event /\ pushed[i].n \in Nat /\ pushed[i].n <= NATSMaxDeliver
<1>1. pushed \in Seq(PushedEntry)
  BY DEF SyncerTypeOK, PushedEntry
<1>2. \A i \in DOMAIN pushed : i \in Nat \ {0} /\ pushed[i] \in PushedEntry
  BY <1>1, ElementOfSeq, LenProperties
<1> QED BY <1>1, <1>2, SyncerBounds DEF PushedEntry

\* The numbers a step compares.
LEMMA SyncerNumbers ==
  ASSUME SyncerTypeOK
  PROVE  /\ ends \in Nat /\ Before(ends) \in Nat /\ NATSMaxDeliver \in Nat \ {0}
         /\ \A e \in Event : handled[e] \in Nat /\ deadCopies[e] \in Nat /\ events[e].n \in Nat /\ events[e] \in MessageState
<1>1. ends \in Nat
  BY DEF SyncerTypeOK
<1>2. \A e \in Event : handled[e] \in Nat /\ deadCopies[e] \in Nat /\ events[e] \in MessageState
  BY DEF SyncerTypeOK
<1> QED BY <1>1, <1>2, BeforeCounts, SyncerBounds DEF MessageState

LEMMA SyncerInitially == SyncerInit => SyncInv
<1> SUFFICES ASSUME SyncerInit PROVE SyncInv
  OBVIOUS
<1> USE SyncerBounds DEF SyncerInit
<1>1. NewMessage \in MessageState /\ NewMessage.n = 0 /\ NewMessage.at = "ready"
  BY DEF NewMessage, MessageState
<1>2. SyncerTypeOK
  <2>1. pushed \in Seq([e : Event, n : 1 .. NATSMaxDeliver])
    BY EmptySeq
  <2>2. events \in [Event -> MessageState]
    BY <1>1
  <2>3. handled \in [Event -> Nat] /\ deadCopies \in [Event -> Nat] /\ ends \in 0 .. MaxEnds
    OBVIOUS
  <2> QED BY <2>1, <2>2, <2>3 DEF SyncerTypeOK
<1>3. DOMAIN pushed = {}
  BY EmptySeq
<1>4. AckedIsAccountedFor /\ SpentHasACause
  BY <1>1 DEF AckedIsAccountedFor, SpentHasACause
<1>5. Consumed
  <2>1. Before(0) \in Nat
    BY BeforeCounts
  <2>2. HandledSoFar
    BY <1>1, <2>1 DEF HandledSoFar
  <2>3. EventsOK
    BY <1>1 DEF EventsOK
  <2> QED BY <1>3, <2>2, <2>3 DEF Consumed, PushedInOrder, PushedOfEvents, HandlesOncePerEntry
<1>6. Forwarded
  BY <1>3 DEF Forwarded, ForwardedOnce, LastNotYetForwarded, DeadIsUnreadable, ServingSound
<1> QED BY <1>2, <1>4, <1>5, <1>6 DEF SyncInv

\* Whatever happens to an event in the stream, answered by the callback or not.
LEMMA EventMoves ==
  ASSUME SyncInv, NEW e \in Event, NEW x \in MessageState, events' = [events EXCEPT ![e] = x],
         x.n = events[e].n, x.at = "ready" => events[e].at = "ready" \/ x.n < NATSMaxDeliver,
         x.at = "acked" => events[e].at = "acked" \/ handled[e] > 0 \/ deadCopies[e] > 0,
         x.at = "spent" => events[e].at = "spent" \/ handled[e] > 0 \/ deadCopies[e] > 0 \/ e \in missed',
         missed \subseteq missed', missed' \subseteq Event,
         UNCHANGED <<subscribed, handled, deadCopies, ends>>,
         UNCHANGED <<pushed, serving>> \/ (serving # "none" /\ Served)
  PROVE  SyncInv'
<1> USE DEF SyncInv, Consumed, Forwarded
<1>1. /\ events' \in [Event -> MessageState] /\ events'[e] = x
      /\ \A k \in Event : k # e => events'[k] = events[k]
  BY DEF SyncerTypeOK
<1>2. \A k \in Event : events'[k].n = events[k].n
  BY <1>1
<1>3. EventsOK'
  BY <1>1, <1>2 DEF EventsOK
<1>4. (HandledSoFar /\ ForwardedOnce /\ DeadIsUnreadable)'
  BY <1>2 DEF HandledSoFar, ForwardedOnce, DeadIsUnreadable
<1>5. AckedIsAccountedFor'
  BY <1>1 DEF AckedIsAccountedFor
<1>6. SpentHasACause'
  BY <1>1 DEF SpentHasACause
<1>7. \A i \in DOMAIN pushed : pushed[i].e \in Event
  BY PushedAreTyped
<1>8. CASE UNCHANGED <<pushed, serving>>
  <2>1. SyncerTypeOK'
    BY <1>1, <1>8 DEF SyncerTypeOK
  <2>2. PushedOfEvents'
    BY <1>2, <1>7, <1>8 DEF PushedOfEvents
  <2>3. (PushedInOrder /\ HandlesOncePerEntry /\ LastNotYetForwarded)'
    BY <1>8 DEF PushedInOrder, HandlesOncePerEntry, LastNotYetForwarded
  <2>4. ServingSound'
    BY <1>8 DEF ServingSound, Current
  <2> QED BY <1>3, <1>4, <1>5, <1>6, <2>1, <2>2, <2>3, <2>4
<1>9. CASE serving # "none" /\ Served
  <2>1. pushed \in Seq(PushedEntry) /\ pushed # <<>>
    BY <1>9 DEF SyncerTypeOK, PushedEntry
  <2>2. /\ pushed' \in Seq(PushedEntry) /\ serving' = "none"
        /\ \A i \in DOMAIN pushed' : i \in Nat \ {0} /\ i + 1 \in DOMAIN pushed /\ pushed'[i] = pushed[i + 1]
    BY <1>9, <2>1, RestOf DEF Served
  <2>3. SyncerTypeOK'
    BY <1>1, <2>2 DEF SyncerTypeOK, PushedEntry
  <2>4. PushedOfEvents'
    BY <1>2, <1>7, <2>2 DEF PushedOfEvents
  <2>5. PushedInOrder'
    <3> SUFFICES ASSUME NEW i \in DOMAIN pushed', NEW j \in DOMAIN pushed', i < j, pushed'[i].e = pushed'[j].e
                 PROVE  pushed'[i].n < pushed'[j].n
      BY DEF PushedInOrder
    <3>1. i + 1 < j + 1
      BY <2>2
    <3> QED BY <2>2, <3>1 DEF PushedInOrder
  <2>6. \A i \in DOMAIN pushed' : i + 1 # 1
    BY <2>2
  <2>7. HandlesOncePerEntry'
    BY <2>2, <2>6 DEF HandlesOncePerEntry
  <2>8. LastNotYetForwarded'
    BY <2>2, <2>6 DEF LastNotYetForwarded
  <2>9. ServingSound'
    BY <2>2 DEF ServingSound
  <2> QED BY <1>3, <1>4, <1>5, <1>6, <2>3, <2>4, <2>5, <2>7, <2>8, <2>9
<1> QED BY <1>8, <1>9

LEMMA FirstPushed ==
  ASSUME SyncInv, pushed # <<>>
  PROVE  /\ 1 \in DOMAIN pushed /\ Current = pushed[1] /\ Current.e \in Event /\ Current.n \in Nat
         /\ Current.n <= NATSMaxDeliver /\ Current.n <= events[Current.e].n
         /\ \A i \in DOMAIN pushed : i # 1 /\ pushed[i].e = Current.e => Current.n < pushed[i].n
<1> USE DEF SyncInv, Consumed
<1>1. pushed \in Seq(PushedEntry)
  BY PushedAreTyped
<1>2. 1 \in DOMAIN pushed /\ Current = pushed[1]
  BY <1>1, RestOf DEF Current
<1>3. Current.e \in Event /\ Current.n \in Nat /\ Current.n <= NATSMaxDeliver /\ Current.n <= events[Current.e].n
  BY <1>2, PushedAreTyped DEF PushedOfEvents
<1>4. ASSUME NEW i \in DOMAIN pushed, i # 1, pushed[i].e = Current.e PROVE Current.n < pushed[i].n
  <2>1. 1 < i
    BY <1>4, PushedAreTyped
  <2> QED BY <1>2, <1>4, <2>1 DEF PushedInOrder
<1> QED BY <1>2, <1>3, <1>4

LEMMA PushEventKeeps == ASSUME SyncInv, NEW e \in Event, PushEvent(e) PROVE SyncInv'
<1> USE DEF SyncInv, Consumed, Forwarded
<1> DEFINE p == [e |-> e, n |-> events[e].n + 1]
<1>1. events[e] \in MessageState /\ events[e].n \in Nat /\ events[e].n < NATSMaxDeliver
  BY SyncerNumbers DEF EventsOK, PushEvent
<1>2. /\ events' \in [Event -> MessageState] /\ events'[e].n = events[e].n + 1 /\ events'[e].at = "out"
      /\ \A k \in Event : k # e => events'[k] = events[k]
  BY <1>1, DeliveredCounts DEF SyncerTypeOK, PushEvent
<1>3. p \in PushedEntry /\ p.e = e /\ p.n = events[e].n + 1
  BY <1>1, SyncerBounds DEF PushedEntry
<1> HIDE DEF p
<1>4. /\ pushed \in Seq(PushedEntry) /\ pushed' = Append(pushed, p)
      /\ UNCHANGED <<subscribed, serving, handled, deadCopies, missed, ends>>
  BY PushedAreTyped DEF p, PushEvent
<1>5. /\ pushed' \in Seq(PushedEntry) /\ pushed' # <<>>
      /\ \A i \in DOMAIN pushed' :
           i \in Nat \ {0} /\ ((i \in DOMAIN pushed /\ pushed'[i] = pushed[i])
                              \/ (i = Len(pushed) + 1 /\ pushed'[i] = p))
      /\ \A i \in DOMAIN pushed : i \in Nat /\ i <= Len(pushed)
      /\ Len(pushed) \in Nat
  BY <1>3, <1>4, MoreOf
<1>6. \A k \in Event : events[k].n \in Nat /\ events'[k].n \in Nat /\ events[k].n <= events'[k].n
  BY <1>1, <1>2, SyncerNumbers
<1>7. SyncerTypeOK'
  BY <1>2, <1>4, <1>5 DEF SyncerTypeOK, PushedEntry
<1>8. AckedIsAccountedFor' /\ SpentHasACause' /\ EventsOK' /\ DeadIsUnreadable'
  <2>1. AckedIsAccountedFor' /\ SpentHasACause'
    BY <1>2, <1>4 DEF AckedIsAccountedFor, SpentHasACause
  <2>2. EventsOK'
    BY <1>1, <1>2, SyncerBounds DEF EventsOK
  <2> QED BY <1>4, <2>1, <2>2 DEF DeadIsUnreadable
<1>9. \A i \in DOMAIN pushed : pushed[i].e \in Event /\ pushed[i].n \in Nat
  BY PushedAreTyped
<1>10. PushedOfEvents'
  <2> SUFFICES ASSUME NEW i \in DOMAIN pushed' PROVE pushed'[i].n <= events'[pushed'[i].e].n
    BY DEF PushedOfEvents
  <2>1. CASE i \in DOMAIN pushed /\ pushed'[i] = pushed[i]
    BY <1>6, <1>9, <2>1 DEF PushedOfEvents
  <2>2. CASE pushed'[i] = p
    BY <1>1, <1>2, <1>3, <2>2
  <2> QED BY <1>5, <2>1, <2>2
<1>11. PushedInOrder'
  <2> SUFFICES ASSUME NEW i \in DOMAIN pushed', NEW j \in DOMAIN pushed', i < j, pushed'[i].e = pushed'[j].e
               PROVE  pushed'[i].n < pushed'[j].n
    BY DEF PushedInOrder
  <2>1. i \in DOMAIN pushed /\ pushed'[i] = pushed[i]
    BY <1>5
  <2>2. CASE j \in DOMAIN pushed /\ pushed'[j] = pushed[j]
    BY <2>1, <2>2 DEF PushedInOrder
  <2>3. CASE pushed'[j] = p
    BY <1>1, <1>3, <1>9, <2>1, <2>3 DEF PushedOfEvents
  <2> QED BY <1>5, <2>2, <2>3
<1>12. HandledSoFar'
  <2> SUFFICES ASSUME NEW k \in Event PROVE handled[k] <= Before(ends) + events'[k].n
    BY <1>4 DEF HandledSoFar, Before
  <2> QED BY <1>6, SyncerNumbers DEF HandledSoFar
<1>13. HandlesOncePerEntry'
  <2> SUFFICES ASSUME NEW i \in DOMAIN pushed'
               PROVE  \/ handled[pushed'[i].e] < Before(ends) + pushed'[i].n
                      \/ i = 1 /\ serving # "none" /\ handled[pushed'[i].e] <= Before(ends) + pushed'[i].n
    BY <1>4 DEF HandlesOncePerEntry, Before
  <2>1. CASE i \in DOMAIN pushed /\ pushed'[i] = pushed[i]
    BY <2>1 DEF HandlesOncePerEntry
  <2>2. CASE pushed'[i] = p
    BY <1>1, <1>3, <2>2, SyncerNumbers DEF HandledSoFar
  <2> QED BY <1>5, <2>1, <2>2
<1>14. ForwardedOnce'
  BY <1>1, <1>2, <1>4 DEF ForwardedOnce
<1>15. LastNotYetForwarded'
  <2> SUFFICES ASSUME NEW i \in DOMAIN pushed', pushed'[i].n = NATSMaxDeliver
               PROVE  deadCopies[pushed'[i].e] <= ends \/ (i = 1 /\ serving \in {"ack", "nak"})
    BY <1>4 DEF LastNotYetForwarded
  <2>1. CASE i \in DOMAIN pushed /\ pushed'[i] = pushed[i]
    BY <2>1 DEF LastNotYetForwarded
  <2>2. CASE pushed'[i] = p
    BY <1>1, <1>3, <2>2 DEF ForwardedOnce
  <2> QED BY <1>5, <2>1, <2>2
<1>16. ServingSound'
  <2>1. CASE serving # "none"
    <3>1. pushed # <<>>
      BY <2>1 DEF SyncerTypeOK
    <3>2. Head(pushed') = Head(pushed)
      BY <1>3, <1>4, <3>1, HeadTailAppend
    <3> QED BY <1>4, <3>2 DEF ServingSound, Current, IsLast
  <2>2. CASE serving = "none"
    BY <1>4, <2>2 DEF ServingSound
  <2> QED BY <2>1, <2>2
<1> QED BY <1>7, <1>8, <1>10, <1>11, <1>12, <1>13, <1>14, <1>15, <1>16


LEMMA CallHandlerKeeps == ASSUME SyncInv, CallHandler PROVE SyncInv'
<1> USE DEF SyncInv, Consumed, Forwarded
<1> DEFINE c == Current.e
<1>1. serving = "none" /\ pushed # <<>> /\ UNCHANGED <<events, subscribed, pushed, deadCopies, missed, ends>>
  BY DEF CallHandler
<1>2. /\ 1 \in DOMAIN pushed /\ Current = pushed[1] /\ c \in Event /\ Current.n \in Nat
      /\ Current.n <= NATSMaxDeliver /\ Current.n <= events[c].n
      /\ \A i \in DOMAIN pushed : i # 1 /\ pushed[i].e = c => Current.n < pushed[i].n
  BY <1>1, FirstPushed
<1>3. handled \in [Event -> Nat] /\ handled[c] < Before(ends) + Current.n
  BY <1>1, <1>2 DEF HandlesOncePerEntry, SyncerTypeOK
<1>4. \/ c \in Unreadable /\ handled' = handled /\ serving' = (IF IsLast(Current.n) THEN "forward" ELSE "nak")
      \/ c \notin Unreadable /\ serving' = "ack" /\ handled' = [handled EXCEPT ![c] = @ + 1]
  BY DEF CallHandler
<1>5. /\ handled' \in [Event -> Nat] /\ handled'[c] <= handled[c] + 1 /\ handled'[c] \in Nat /\ handled[c] <= handled'[c]
      /\ \A k \in Event : k # c => handled'[k] = handled[k]
  BY <1>2, <1>3, <1>4
<1>6. serving' = "ack" => handled'[c] > 0
  BY <1>2, <1>3, <1>4
<1>7. serving' \in {"forward", "nak", "ack"} /\ (serving' = "forward" => c \in Unreadable /\ IsLast(Current.n))
      /\ (serving' = "nak" => ~IsLast(Current.n))
  BY <1>4
<1> HIDE DEF c
<1>8. SyncerTypeOK'
  BY <1>1, <1>5, <1>7 DEF SyncerTypeOK
<1>9. (EventsOK /\ PushedInOrder /\ PushedOfEvents /\ ForwardedOnce /\ DeadIsUnreadable)'
  BY <1>1 DEF EventsOK, PushedInOrder, PushedOfEvents, ForwardedOnce, DeadIsUnreadable
<1>10. AckedIsAccountedFor' /\ SpentHasACause'
  <2>1. \A k \in Event : handled[k] > 0 => handled'[k] > 0
    BY <1>2, <1>3, <1>5
  <2> QED BY <1>1, <2>1 DEF AckedIsAccountedFor, SpentHasACause
<1>11. HandledSoFar'
  <2> SUFFICES ASSUME NEW k \in Event PROVE handled'[k] <= Before(ends) + events[k].n
    BY <1>1 DEF HandledSoFar, Before
  <2>1. CASE k = c
    BY <1>2, <1>3, <1>5, <2>1, SyncerNumbers
  <2>2. CASE k # c
    BY <1>5, <2>2 DEF HandledSoFar
  <2> QED BY <2>1, <2>2
<1>12. HandlesOncePerEntry'
  <2> SUFFICES ASSUME NEW i \in DOMAIN pushed
               PROVE  \/ handled'[pushed[i].e] < Before(ends) + pushed[i].n
                      \/ i = 1 /\ handled'[pushed[i].e] <= Before(ends) + pushed[i].n
    BY <1>1, <1>7 DEF HandlesOncePerEntry, Before
  <2>0. pushed[i].e \in Event /\ pushed[i].n \in Nat /\ Before(ends) \in Nat
    BY PushedAreTyped, SyncerNumbers
  <2>1. CASE i = 1
    <3>1. handled'[c] <= Before(ends) + Current.n
      BY <1>2, <1>3, <1>5, <2>0
    <3> QED BY <1>2, <2>1, <3>1 DEF c
  <2>2. CASE i # 1 /\ pushed[i].e = c
    <3>1. handled'[c] < Before(ends) + pushed[i].n
      BY <1>2, <1>3, <1>5, <2>0, <2>2
    <3> QED BY <2>2, <3>1
  <2>3. CASE i # 1 /\ pushed[i].e # c
    BY <1>1, <1>5, <2>0, <2>3 DEF HandlesOncePerEntry
  <2> QED BY <2>1, <2>2, <2>3
<1>13. LastNotYetForwarded'
  BY <1>1 DEF LastNotYetForwarded
<1>14. ServingSound'
  <2>1. Current' = Current
    BY <1>1 DEF Current
  <2> QED BY <1>6, <1>7, <2>1 DEF ServingSound, IsLast, c
<1> QED BY <1>8, <1>9, <1>10, <1>11, <1>12, <1>13, <1>14

LEMMA ForwardKeeps == ASSUME SyncInv, ForwardToDLQ PROVE SyncInv'
<1> USE DEF SyncInv, Consumed, Forwarded
<1> DEFINE c == Current.e
<1>1. PICK ok \in BOOLEAN, there \in BOOLEAN :
        /\ ok => there
        /\ serving' = AfterForward(ok)
        /\ deadCopies' = [deadCopies EXCEPT ![c] = IF there THEN @ + 1 ELSE @]
        /\ missed' = IF there THEN missed ELSE missed \cup {c}
  BY DEF ForwardToDLQ
<1>2. serving = "forward" /\ pushed # <<>> /\ UNCHANGED <<events, subscribed, pushed, handled, ends>>
  BY DEF ForwardToDLQ, SyncerTypeOK
<1>3. /\ 1 \in DOMAIN pushed /\ Current = pushed[1] /\ c \in Event /\ Current.n \in Nat
      /\ Current.n <= NATSMaxDeliver /\ Current.n <= events[c].n
      /\ \A i \in DOMAIN pushed : i # 1 /\ pushed[i].e = c => Current.n < pushed[i].n
  BY <1>2, FirstPushed
<1>4. c \in Unreadable /\ Current.n = NATSMaxDeliver /\ events[c].n = NATSMaxDeliver
  BY <1>2, <1>3, SyncerBounds, SyncerNumbers DEF ServingSound, IsLast, EventsOK
<1>5. deadCopies \in [Event -> Nat] /\ deadCopies[c] <= ends /\ ends \in Nat
  BY <1>2, <1>3, <1>4 DEF LastNotYetForwarded, SyncerTypeOK
<1>6. /\ deadCopies' \in [Event -> Nat] /\ deadCopies'[c] <= ends + 1 /\ deadCopies[c] <= deadCopies'[c] /\ deadCopies'[c] \in Nat
      /\ there => deadCopies'[c] > 0
      /\ \A k \in Event : k # c => deadCopies'[k] = deadCopies[k]
  BY <1>1, <1>3, <1>5
<1>7. missed \subseteq missed' /\ missed' \subseteq Event /\ (~there => c \in missed')
  BY <1>1, <1>3 DEF SyncerTypeOK
<1>8. serving' \in {"ack", "nak"} /\ (serving' = "ack" => there)
  BY <1>1 DEF AfterForward
<1> HIDE DEF c
<1>9. SyncerTypeOK'
  BY <1>2, <1>6, <1>7, <1>8 DEF SyncerTypeOK
<1>10. (EventsOK /\ PushedInOrder /\ PushedOfEvents)'
  BY <1>2 DEF EventsOK, PushedInOrder, PushedOfEvents
<1>11. (HandledSoFar /\ HandlesOncePerEntry)'
  BY <1>2, <1>8 DEF HandledSoFar, HandlesOncePerEntry, Before
<1>12. AckedIsAccountedFor' /\ SpentHasACause'
  <2>1. \A k \in Event : deadCopies[k] > 0 => deadCopies'[k] > 0
    BY <1>3, <1>5, <1>6
  <2>2. \A k \in Event : deadCopies'[k] > 0 => k \in Unreadable
    BY <1>4, <1>6 DEF DeadIsUnreadable
  <2> QED BY <1>2, <1>7, <2>1, <2>2 DEF AckedIsAccountedFor, SpentHasACause
<1>13. DeadIsUnreadable'
  BY <1>4, <1>6 DEF DeadIsUnreadable
<1>14. ForwardedOnce'
  <2> SUFFICES ASSUME NEW k \in Event
               PROVE  deadCopies'[k] <= ends + 1 /\ (events[k].n < NATSMaxDeliver => deadCopies'[k] <= ends)
    BY <1>2 DEF ForwardedOnce
  <2>1. CASE k = c
    BY <1>4, <1>6, <2>1, SyncerBounds
  <2>2. CASE k # c
    BY <1>6, <2>2 DEF ForwardedOnce
  <2> QED BY <2>1, <2>2
<1>15. LastNotYetForwarded'
  <2> SUFFICES ASSUME NEW i \in DOMAIN pushed, pushed[i].n = NATSMaxDeliver, i # 1
               PROVE  deadCopies'[pushed[i].e] <= ends
    BY <1>2, <1>8 DEF LastNotYetForwarded
  <2>1. pushed[i].e # c
    BY <1>3, <1>4
  <2> QED BY <1>2, <1>6, <2>1, PushedAreTyped DEF LastNotYetForwarded
<1>16. ServingSound'
  <2>1. Current' = Current
    BY <1>2 DEF Current
  <2> QED BY <1>6, <1>7, <1>8, <2>1 DEF ServingSound, IsLast, c
<1> QED BY <1>9, <1>10, <1>11, <1>12, <1>13, <1>14, <1>15, <1>16

\* A server that ends drops what was pushed; a shutdown also starts the counts anew.
LEMMA EndingKeeps ==
  ASSUME SyncInv, Ending, events' \in [Event -> MessageState],
         \A e \in Event : events'[e] = events[e] \/ (events'[e] = NewMessage /\ events[e].at # "acked")
  PROVE  SyncInv'
<1> USE DEF SyncInv, Consumed, Forwarded
<1>1. /\ ends < MaxEnds /\ ends' = ends + 1 /\ ends \in Nat /\ ends' \in 0 .. MaxEnds
      /\ subscribed' = FALSE /\ pushed' = <<>> /\ serving' = "none" /\ UNCHANGED <<handled, deadCopies, missed>>
  BY SyncerBounds DEF Ending, SyncerTypeOK
<1>2. DOMAIN pushed' = {}
  BY <1>1, EmptySeq
<1>3. NewMessage.n = 0 /\ NewMessage.at = "ready"
  BY DEF NewMessage
<1>4. \A e \in Event : events'[e].n \in Nat /\ events[e].n \in Nat /\ events[e].n <= NATSMaxDeliver
  BY <1>3, SyncerNumbers DEF EventsOK
<1>5. SyncerTypeOK'
  <2>1. pushed' \in Seq([e : Event, n : 1 .. NATSMaxDeliver])
    BY <1>1, EmptySeq
  <2> QED BY <1>1, <2>1 DEF SyncerTypeOK
<1>6. AckedIsAccountedFor' /\ SpentHasACause' /\ DeadIsUnreadable'
  BY <1>1, <1>3 DEF AckedIsAccountedFor, SpentHasACause, DeadIsUnreadable
<1>7. EventsOK'
  BY <1>3, SyncerBounds DEF EventsOK
<1>8. HandledSoFar'
  <2>1. Before(ends') = Before(ends) + NATSMaxDeliver /\ Before(ends) \in Nat
    BY <1>1, BeforeCounts
  <2> SUFFICES ASSUME NEW e \in Event PROVE handled[e] <= Before(ends') + events'[e].n
    BY <1>1 DEF HandledSoFar, Before
  <2> QED BY <1>4, <2>1, SyncerNumbers DEF HandledSoFar
<1>9. ForwardedOnce'
  BY <1>1, SyncerNumbers DEF ForwardedOnce
<1> QED BY <1>1, <1>2, <1>5, <1>6, <1>7, <1>8, <1>9
        DEF PushedInOrder, PushedOfEvents, HandlesOncePerEntry, LastNotYetForwarded, ServingSound

LEMMA SyncerKeeps == ASSUME SyncInv, [SyncerNext]_syncerVars PROVE SyncInv'
<1> USE DEF SyncInv
<1>1. CASE UNCHANGED syncerVars
  BY <1>1 DEF syncerVars, SyncerTypeOK, AckedIsAccountedFor, SpentHasACause, Consumed, Forwarded, EventsOK, PushedInOrder,
     PushedOfEvents, HandledSoFar, HandlesOncePerEntry, ForwardedOnce, LastNotYetForwarded, DeadIsUnreadable,
     ServingSound, Current, IsLast, Before
<1>2. CASE Subscribe
  BY <1>2 DEF Subscribe, SyncerTypeOK, AckedIsAccountedFor, SpentHasACause, Consumed, Forwarded, EventsOK, PushedInOrder,
     PushedOfEvents, HandledSoFar, HandlesOncePerEntry, ForwardedOnce, LastNotYetForwarded, DeadIsUnreadable,
     ServingSound, Current, IsLast, Before
<1>3. CASE AckEvent
  <2>1. serving = "ack" /\ pushed # <<>>
    BY <1>3 DEF AckEvent, SyncerTypeOK
  <2>2. Current.e \in Event /\ events[Current.e] \in MessageState
    BY <2>1, FirstPushed, SyncerNumbers
  <2>3. PICK x \in AckOutcomes(events[Current.e]) : events' = [events EXCEPT ![Current.e] = x]
    BY <1>3 DEF AckEvent
  <2>4. x \in MessageState /\ x.n = events[Current.e].n /\ (x.at = events[Current.e].at \/ x.at = "acked")
    BY <2>2, AckKeeps
  <2>5. handled[Current.e] > 0 \/ deadCopies[Current.e] > 0
    BY <2>1 DEF Forwarded, ServingSound
  <2>6. (x.at = "ready" => events[Current.e].at = "ready") /\ (x.at = "spent" => events[Current.e].at = "spent")
    BY <2>4
  <2>7. missed \subseteq missed' /\ missed' \subseteq Event
    BY <1>3 DEF AckEvent, SyncerTypeOK
  <2>8. UNCHANGED <<subscribed, handled, deadCopies, ends>> /\ Served
    BY <1>3 DEF AckEvent
  <2> QED BY <2>1, <2>2, <2>3, <2>4, <2>5, <2>6, <2>7, <2>8, EventMoves
<1>4. CASE NakEvent
  <2>1. serving = "nak" /\ pushed # <<>>
    BY <1>4 DEF NakEvent, SyncerTypeOK
  <2>2. /\ Current.e \in Event /\ events[Current.e] \in MessageState /\ Current.n \in Nat
        /\ events[Current.e].n \in Nat /\ NATSMaxDeliver \in Nat
    BY <2>1, FirstPushed, SyncerNumbers
  <2>3. PICK x \in NakOutcomes(events[Current.e], Current.n, NATSMaxDeliver) : events' = [events EXCEPT ![Current.e] = x]
    BY <1>4 DEF NakEvent
  <2>4. /\ x \in MessageState /\ x.n = events[Current.e].n
        /\ \/ x.at = events[Current.e].at
           \/ /\ events[Current.e].n = Current.n
              /\ x.at = IF events[Current.e].n >= NATSMaxDeliver THEN "spent" ELSE "ready"
    BY <2>2, NakKeeps
  <2>5. IsLast(Current.n) => deadCopies[Current.e] > 0 \/ Current.e \in missed
    BY <2>1 DEF Forwarded, ServingSound
  <2>6. missed' = missed /\ missed' \subseteq Event
    BY <1>4 DEF NakEvent, SyncerTypeOK
  <2>7. x.at = "ready" => events[Current.e].at = "ready" \/ x.n < NATSMaxDeliver
    BY <2>2, <2>4
  <2>8. x.at = "acked" => events[Current.e].at = "acked"
    BY <2>4
  <2>9. x.at = "spent" => events[Current.e].at = "spent" \/ deadCopies[Current.e] > 0 \/ Current.e \in missed'
    BY <2>2, <2>4, <2>5, <2>6 DEF IsLast
  <2>10. UNCHANGED <<subscribed, handled, deadCopies, ends>> /\ Served
    BY <1>4 DEF NakEvent
  <2> QED BY <2>1, <2>2, <2>3, <2>4, <2>6, <2>7, <2>8, <2>9, <2>10, EventMoves
<1>5. ASSUME NEW e \in Event, EventTimesOut(e) PROVE SyncInv'
  <2>1. events[e] \in MessageState /\ events[e].n \in Nat /\ NATSMaxDeliver \in Nat
    BY SyncerNumbers
  <2> DEFINE x == Returned(events[e], NATSMaxDeliver)
  <2>2. /\ x \in MessageState /\ x.n = events[e].n
        /\ x.at = IF events[e].n >= NATSMaxDeliver THEN "spent" ELSE "ready"
    BY <2>1, ReturnedKeeps
  <2>3. events' = [events EXCEPT ![e] = x] /\ missed' = (IF IsLast(events[e].n) THEN missed \cup {e} ELSE missed)
    BY <1>5 DEF EventTimesOut
  <2> HIDE DEF x
  <2>4. (x.at = "ready" => x.n < NATSMaxDeliver) /\ x.at # "acked" /\ (x.at = "spent" => e \in missed')
    BY <2>1, <2>2, <2>3 DEF IsLast
  <2>5. missed \subseteq missed' /\ missed' \subseteq Event
    BY <2>3 DEF SyncerTypeOK
  <2>6. UNCHANGED <<subscribed, pushed, serving, handled, deadCopies, ends>>
    BY <1>5 DEF EventTimesOut
  <2> QED BY <2>2, <2>3, <2>4, <2>5, <2>6, EventMoves
<1>6. CASE CloseConsumer
  <2>1. NewMessage \in MessageState
    BY DEF NewMessage, MessageState
  <2>2. events' = [e \in Event |-> Unsubscribed(events[e])]
    BY <1>6 DEF CloseConsumer
  <2>3. \A e \in Event : /\ Unsubscribed(events[e]) = events[e]
                            \/ (Unsubscribed(events[e]) = NewMessage /\ events[e].at # "acked")
                         /\ Unsubscribed(events[e]) \in MessageState
    BY <2>1, SyncerNumbers DEF Unsubscribed
  <2> QED BY <1>6, <2>2, <2>3, EndingKeeps DEF CloseConsumer
<1>7. CASE ServerCrashes
  BY <1>7, EndingKeeps DEF ServerCrashes, SyncerTypeOK
<1> QED BY <1>1, <1>2, <1>3, <1>4, <1>5, <1>6, <1>7, CallHandlerKeeps, ForwardKeeps, PushEventKeeps DEF SyncerNext

LEMMA SyncSound == SyncInv => SyncerInv
<1> SUFFICES ASSUME SyncInv PROVE HandledPerDelivery
  BY DEF SyncInv, SyncerInv
<1> USE DEF SyncInv, Consumed, Forwarded
<1>1. /\ NATSMaxDeliver * (1 + ends) = Before(ends) + NATSMaxDeliver
      /\ Before(ends) \in Nat
  BY SyncerNumbers, BeforeCounts
<1>2. ASSUME NEW e \in Event
      PROVE  handled[e] <= NATSMaxDeliver * (1 + ends) /\ deadCopies[e] <= 1 + ends
  BY <1>1, SyncerNumbers DEF HandledSoFar, EventsOK, ForwardedOnce
<1> QED BY <1>2 DEF HandledPerDelivery

\* In every behaviour of the sync service's consumer an event is handled or
\* forwarded before it leaves the stream, only an unreadable one is forwarded,
\* and each at most once in a delivery, counting anew after each shutdown
\* (SyncConsumer.CallHandler, ForwardToDLQ, CloseConsumer).
THEOREM SyncerIsSound == SyncerSpec => []SyncerInv
<1> QED BY SyncSound, SyncerInitially, SyncerKeeps, PTL DEF SyncerSpec


-------------------------------------------------------------------------------
(* ClassifyConsumer.  No two deliveries in the workers' batches are the      *)
(* same; the first result of a message is stored by the only holder of its   *)
(* first delivery, and its last delivery is held until it is dealt with.     *)

Entry == [m : Msg, n : 1 .. MaxDeliver]
WorkerRecord == [at : {"fetch", "parse", "publish", "ack", "nak", "deadletter"}, ctx : BOOLEAN,
                 batch : Seq(Entry), tries : 0 .. Attempts - 1]
BreakerRecord == [st : {"closed", "open", "half-open"}, failures : 0 .. Threshold - 1, trials : 0 .. HalfOpenMax - 1]

WorkersOK ==
  /\ inbox \in [Msg -> MessageState] /\ worker \in [Classifier -> WorkerRecord]
  /\ breaker \in [Classifier -> BreakerRecord] /\ results \in [Msg -> 0 .. 2] /\ stops \in Nat
  /\ dead \subseteq Msg /\ lost \subseteq Msg /\ dropped \subseteq Msg
InboxOK == \A m \in Msg : inbox[m].n <= MaxDeliver /\ (inbox[m].at = "ready" => inbox[m].n < MaxDeliver)
BatchesFit ==
  \A w \in Classifier : Len(worker[w].batch) <= Batch /\ (worker[w].at = "fetch" <=> worker[w].batch = <<>>)
HeldOfInbox ==
  \A w \in Classifier : \A i \in DOMAIN worker[w].batch : worker[w].batch[i].n <= inbox[worker[w].batch[i].m].n
HeldOnce ==
  \A w, v \in Classifier : \A i \in DOMAIN worker[w].batch, j \in DOMAIN worker[v].batch :
    worker[w].batch[i] = worker[v].batch[j] => w = v /\ i = j
ResultsOfDelivered == \A m \in Msg : inbox[m].n = 0 => results[m] = 0
FirstResultIsAcked ==
  \A m \in Msg \ lost : inbox[m].n <= 1 /\ results[m] > 0 =>
    \A w \in Classifier : \A i \in DOMAIN worker[w].batch :
      worker[w].batch[i].m = m => i = 1 /\ worker[w].at = "ack"
AckHasResult == \A w \in Classifier : worker[w].at = "ack" => results[Mine(w).m] > 0
LastIsHeld ==
  \A m \in Msg \ (Malformed \cup dropped) : inbox[m].n = MaxDeliver /\ results[m] = 0 =>
    m \in dead \/ \E w \in Classifier : \E i \in DOMAIN worker[w].batch :
                    worker[w].batch[i].m = m /\ worker[w].batch[i].n = MaxDeliver
SpentIsLast == \A m \in Msg : inbox[m].at = "spent" => inbox[m].n = MaxDeliver

Held == BatchesFit /\ HeldOfInbox /\ HeldOnce /\ LastIsHeld
Answered == ResultsOfDelivered /\ FirstResultIsAcked /\ AckHasResult /\ AckedHasResult /\ SecondResultHasACause
WInv == WorkersOK /\ InboxOK /\ SpentIsLast /\ Held /\ Answered

LEMMA FreshIsTyped == Fresh \in WorkerRecord /\ Closed \in BreakerRecord /\ Fresh.batch = <<>> /\ Fresh.at = "fetch"
<1>1. Attempts \in Nat \ {0} /\ Threshold \in Nat \ {0} /\ HalfOpenMax \in Nat \ {0}
  BY ClassifyBounds
<1>2. <<>> \in Seq(Entry)
  BY EmptySeq
<1> QED BY <1>1, <1>2 DEF Fresh, Closed, WorkerRecord, BreakerRecord

LEMMA ClassifyNumbers ==
  ASSUME WorkersOK
  PROVE  /\ MaxDeliver \in Nat \ {0} /\ Batch \in Nat \ {0} /\ Attempts \in Nat \ {0}
         /\ \A m \in Msg : inbox[m] \in MessageState /\ inbox[m].n \in Nat /\ results[m] \in 0 .. 2
<1>1. \A m \in Msg : inbox[m] \in MessageState /\ results[m] \in 0 .. 2
  BY DEF WorkersOK
<1> QED BY <1>1, ClassifyBounds DEF MessageState

LEMMA BatchesAreTyped ==
  ASSUME WorkersOK, NEW w \in Classifier
  PROVE  /\ worker[w] \in WorkerRecord /\ worker[w].batch \in Seq(Entry)
         /\ \A i \in DOMAIN worker[w].batch :
              /\ i \in Nat \ {0} /\ worker[w].batch[i] \in Entry
              /\ worker[w].batch[i].m \in Msg /\ worker[w].batch[i].n \in 1 .. MaxDeliver
<1>1. worker[w] \in WorkerRecord
  BY DEF WorkersOK
<1>2. worker[w].batch \in Seq(Entry)
  BY <1>1 DEF WorkerRecord
<1>3. \A i \in DOMAIN worker[w].batch : i \in Nat \ {0} /\ worker[w].batch[i] \in Entry
  BY <1>2, ElementOfSeq, LenProperties
<1> QED BY <1>1, <1>2, <1>3 DEF Entry

LEMMA ClassifyInitially == ClassifyInit => WInv
<1> SUFFICES ASSUME ClassifyInit PROVE WInv
  OBVIOUS
<1> USE DEF ClassifyInit
<1>1. /\ NewMessage \in MessageState /\ NewMessage.n = 0 /\ NewMessage.at = "ready"
      /\ MaxDeliver \in Nat \ {0} /\ Batch \in Nat \ {0}
  BY ClassifyBounds DEF NewMessage, MessageState
<1>2. WorkersOK
  BY <1>1, FreshIsTyped DEF WorkersOK
<1>3. InboxOK /\ SpentIsLast
  BY <1>1 DEF InboxOK, SpentIsLast
<1>4. \A w \in Classifier : worker[w].batch = <<>> /\ worker[w].at = "fetch" /\ DOMAIN worker[w].batch = {}
                           /\ Len(worker[w].batch) = 0
  BY FreshIsTyped, EmptySeq
<1>5. Held
  BY <1>1, <1>4 DEF Held, BatchesFit, HeldOfInbox, HeldOnce, LastIsHeld
<1>6. Answered
  BY <1>1, <1>4 DEF Answered, ResultsOfDelivered, FirstResultIsAcked, AckHasResult, AckedHasResult, SecondResultHasACause
<1> QED BY <1>2, <1>3, <1>5, <1>6 DEF WInv

\* A worker that is done with the first message of its batch, or not.
LEMMA BatchGoesOn ==
  ASSUME NEW b \in Seq(Entry), NEW c, c = b \/ (b # <<>> /\ c = Tail(b))
  PROVE  /\ c \in Seq(Entry) /\ Len(c) \in Nat /\ Len(b) \in Nat /\ Len(c) <= Len(b)
         /\ \E d \in {0, 1} :
              /\ d = 0 => c = b
              /\ d = 1 => c # b
              /\ \A i \in DOMAIN c : i \in Nat \ {0} /\ i + d \in DOMAIN b /\ c[i] = b[i + d]
              /\ \A k \in DOMAIN b : k \in Nat \ {0} /\ (k = d \/ (k - d \in DOMAIN c /\ c[k - d] = b[k]))
<1> DEFINE Shift(d) ==
             /\ d = 0 => c = b
             /\ d = 1 => c # b
             /\ \A i \in DOMAIN c : i \in Nat \ {0} /\ i + d \in DOMAIN b /\ c[i] = b[i + d]
             /\ \A k \in DOMAIN b : k \in Nat \ {0} /\ (k = d \/ (k - d \in DOMAIN c /\ c[k - d] = b[k]))
<1>1. Len(b) \in Nat /\ DOMAIN b = 1 .. Len(b)
  BY LenProperties
<1>2. CASE c = b
  <2>1. \A i \in DOMAIN b : i \in Nat \ {0} /\ i + 0 = i /\ i - 0 = i
    BY <1>1
  <2>2. Shift(0)
    BY <1>2, <2>1
  <2>3. \E d \in {0, 1} : Shift(d)
    BY <2>2
  <2> HIDE DEF Shift
  <2>4. c \in Seq(Entry) /\ Len(c) \in Nat /\ Len(b) \in Nat /\ Len(c) <= Len(b)
    BY <1>1, <1>2
  <2> QED BY <2>3, <2>4 DEF Shift
<1>3. CASE b # <<>> /\ c = Tail(b)
  <2>1. /\ c \in Seq(Entry) /\ Len(c) = Len(b) - 1 /\ Len(b) \in Nat \ {0}
        /\ \A i \in 1 .. Len(b) - 1 : c[i] = b[i + 1]
    BY <1>1, <1>3, HeadTailProperties, EmptySeq
  <2>2. DOMAIN c = 1 .. Len(b) - 1
    BY <2>1, LenProperties
  <2>3. \A i \in DOMAIN c : i \in Nat \ {0} /\ i + 1 \in DOMAIN b /\ c[i] = b[i + 1]
    BY <1>1, <2>1, <2>2
  <2>4. \A k \in DOMAIN b : k \in Nat \ {0} /\ (k = 1 \/ (k - 1 \in DOMAIN c /\ c[k - 1] = b[k]))
    BY <1>1, <2>1, <2>2
  <2>5. c # b
    BY <1>1, <2>1
  <2>6. Shift(1)
    BY <2>3, <2>4, <2>5
  <2>7. \E d \in {0, 1} : Shift(d)
    BY <2>6
  <2> HIDE DEF Shift
  <2>8. Len(c) \in Nat /\ Len(b) \in Nat /\ Len(c) <= Len(b)
    BY <2>1
  <2> QED BY <2>1, <2>7, <2>8 DEF Shift
<1> QED BY <1>2, <1>3


\* What an answer, or none, makes of the messages in the stream.
InboxGoes ==
  /\ inbox' \in [Msg -> MessageState]
  /\ \A m \in Msg :
       /\ inbox'[m].n = inbox[m].n
       /\ inbox'[m].at = "ready" => inbox[m].at = "ready" \/ inbox[m].n < MaxDeliver
       /\ inbox'[m].at = "spent" => inbox[m].at = "spent" \/ inbox[m].n = MaxDeliver
       /\ inbox'[m].at = "acked" => inbox[m].at = "acked" \/ results[m] > 0 \/ m \in dead' \cup Malformed

\* Whatever a worker does with the first message of its batch: answer it in the
\* stream, store a result or none, give it up or keep it.
LEMMA WorkerGoesOn ==
  ASSUME WInv, NEW w \in Classifier, NEW y \in WorkerRecord, worker' = [worker EXCEPT ![w] = y],
         y.batch = worker[w].batch \/ (worker[w].batch # <<>> /\ y.batch = Tail(worker[w].batch)),
         y.at = "fetch" <=> y.batch = <<>>,
         y.at = "ack" => y.batch = worker[w].batch /\ results'[Mine(w).m] > 0,
         worker[w].at = "ack" /\ y.batch = worker[w].batch => y.at = "ack",
         y.batch # worker[w].batch =>
           Mine(w).n < MaxDeliver \/ results[Mine(w).m] > 0 \/ Mine(w).m \in dead' \cup dropped' \cup Malformed,
         InboxGoes,
         breaker' \in [Classifier -> BreakerRecord], stops' \in Nat,
         dead \subseteq dead', dead' \subseteq Msg, dropped \subseteq dropped', dropped' \subseteq Msg,
         \/ UNCHANGED <<results, lost>>
         \/ /\ worker[w].at = "publish"
            /\ \E r \in 1 .. 2 :
                 /\ results' = [results EXCEPT ![Mine(w).m] = r] /\ r >= results[Mine(w).m]
                 /\ \/ lost' = lost \cup {Mine(w).m}
                    \/ /\ lost' = lost /\ y.at = "ack" /\ y.batch = worker[w].batch
                       /\ r = 2 => results[Mine(w).m] > 0
  PROVE  WInv'
<1> USE DEF WInv, InboxGoes
<1> DEFINE b == worker[w].batch
           Stores == worker[w].at = "publish"
                     /\ \E r \in 1 .. 2 :
                          /\ results' = [results EXCEPT ![Mine(w).m] = r] /\ r >= results[Mine(w).m]
                          /\ \/ lost' = lost \cup {Mine(w).m}
                             \/ /\ lost' = lost /\ y.at = "ack" /\ y.batch = worker[w].batch
                                /\ r = 2 => results[Mine(w).m] > 0
<1>1. /\ worker' \in [Classifier -> WorkerRecord] /\ worker'[w] = y
      /\ \A v \in Classifier : v # w => worker'[v] = worker[v]
  BY DEF WorkersOK
<1>2. b \in Seq(Entry) /\ \A i \in DOMAIN b : i \in Nat \ {0} /\ b[i] \in Entry /\ b[i].m \in Msg /\ b[i].n \in 1 .. MaxDeliver
  BY BatchesAreTyped
<1>3. /\ Len(y.batch) \in Nat /\ Len(b) \in Nat /\ Len(y.batch) <= Len(b)
      /\ \E d \in {0, 1} :
           /\ d = 0 => y.batch = b
           /\ d = 1 => y.batch # b
           /\ \A i \in DOMAIN y.batch : i \in Nat \ {0} /\ i + d \in DOMAIN b /\ y.batch[i] = b[i + d]
           /\ \A k \in DOMAIN b : k \in Nat \ {0} /\ (k = d \/ (k - d \in DOMAIN y.batch /\ y.batch[k - d] = b[k]))
  <2> DEFINE c == y.batch
  <2>1. b \in Seq(Entry) /\ (c = b \/ (b # <<>> /\ c = Tail(b)))
    BY <1>2
  <2> HIDE DEF b, c
  <2> SUFFICES /\ Len(c) \in Nat /\ Len(b) \in Nat /\ Len(c) <= Len(b)
               /\ \E d \in {0, 1} :
                    /\ d = 0 => c = b
                    /\ d = 1 => c # b
                    /\ \A i \in DOMAIN c : i \in Nat \ {0} /\ i + d \in DOMAIN b /\ c[i] = b[i + d]
                    /\ \A k \in DOMAIN b : k \in Nat \ {0} /\ (k = d \/ (k - d \in DOMAIN c /\ c[k - d] = b[k]))
    BY DEF c
  <2> QED BY <2>1, BatchGoesOn
<1>4. PICK d \in {0, 1} :
        /\ d = 0 => y.batch = b
        /\ d = 1 => y.batch # b
        /\ \A i \in DOMAIN y.batch : i \in Nat \ {0} /\ i + d \in DOMAIN b /\ y.batch[i] = b[i + d]
        /\ \A k \in DOMAIN b : k \in Nat \ {0} /\ (k = d \/ (k - d \in DOMAIN y.batch /\ y.batch[k - d] = b[k]))
  BY <1>3
<1> DEFINE Off(u) == IF u = w THEN d ELSE 0
<1>5. ASSUME NEW u \in Classifier
      PROVE  /\ Off(u) \in {0, 1}
             /\ \A i \in DOMAIN worker'[u].batch :
                  /\ i \in Nat \ {0} /\ i + Off(u) \in DOMAIN worker[u].batch
                  /\ worker'[u].batch[i] = worker[u].batch[i + Off(u)]
  <2>1. CASE u = w
    BY <1>1, <1>4, <2>1
  <2>2. CASE u # w
    <3>1. worker'[u] = worker[u] /\ Off(u) = 0
      BY <1>1, <2>2
    <3>2. \A i \in DOMAIN worker[u].batch : i \in Nat \ {0} /\ i + 0 = i
      BY BatchesAreTyped
    <3> QED BY <3>1, <3>2
  <2> QED BY <2>1, <2>2
<1>6. b # <<>> => 1 \in DOMAIN b /\ Mine(w) = b[1] /\ Mine(w) \in Entry /\ Mine(w).m \in Msg /\ Mine(w).n \in 1 .. MaxDeliver
  BY <1>2, RestOf DEF Mine
<1>7. Stores => b # <<>>
  BY DEF Held, BatchesFit
<1>8. /\ results' \in [Msg -> 0 .. 2] /\ lost \subseteq lost' /\ lost' \subseteq Msg
      /\ \A m \in Msg : results[m] \in 0 .. 2 /\ results'[m] \in 0 .. 2 /\ results[m] <= results'[m]
  <2>1. results \in [Msg -> 0 .. 2] /\ lost \subseteq Msg
    BY DEF WorkersOK
  <2>2. CASE UNCHANGED <<results, lost>>
    BY <2>1, <2>2
  <2>3. CASE Stores
    <3>1. Mine(w).m \in Msg
      BY <1>6, <1>7, <2>3
    <3> QED BY <2>1, <2>3, <3>1
  <2> QED BY <2>2, <2>3
<1>9. ASSUME NEW m \in Msg, results'[m] # results[m]
      PROVE  /\ Stores /\ m = Mine(w).m
             /\ \/ m \in lost'
                \/ /\ lost' = lost /\ y.at = "ack" /\ d = 0
                   /\ results'[m] > 1 => results[m] > 0
  <2>1. Stores
    BY <1>9
  <2>2. PICK r \in 1 .. 2 :
          /\ results' = [results EXCEPT ![Mine(w).m] = r]
          /\ \/ lost' = lost \cup {Mine(w).m}
             \/ /\ lost' = lost /\ y.at = "ack" /\ y.batch = worker[w].batch
                /\ r = 2 => results[Mine(w).m] > 0
    BY <2>1
  <2>3. m = Mine(w).m /\ results'[m] = r
    BY <1>9, <2>2 DEF WorkersOK
  <2>4. r > 1 => r = 2
    BY <2>2
  <2> QED BY <1>4, <2>1, <2>2, <2>3, <2>4
<1> HIDE DEF Stores, Off
<1>10. WorkersOK'
  BY <1>1, <1>8 DEF WorkersOK
<1>11. \A m \in Msg : inbox[m].n \in Nat /\ inbox'[m].n = inbox[m].n
  BY ClassifyNumbers
<1>12. InboxOK' /\ SpentIsLast'
  BY ClassifyNumbers DEF InboxOK, SpentIsLast
<1>13. BatchesFit'
  <2>1. Len(worker[w].batch) <= Batch
    BY DEF Held, BatchesFit
  <2>2. Len(y.batch) <= Batch
    BY <1>3, <2>1, ClassifyBounds
  <2> QED BY <1>1, <2>2 DEF Held, BatchesFit
<1>14. HeldOfInbox'
  <2> SUFFICES ASSUME NEW u \in Classifier, NEW i \in DOMAIN worker'[u].batch
               PROVE  worker'[u].batch[i].n <= inbox'[worker'[u].batch[i].m].n
    BY DEF HeldOfInbox
  <2>1. i + Off(u) \in DOMAIN worker[u].batch /\ worker'[u].batch[i] = worker[u].batch[i + Off(u)]
    BY <1>5
  <2>2. worker[u].batch[i + Off(u)].m \in Msg
    BY <2>1, BatchesAreTyped
  <2> QED BY <1>11, <2>1, <2>2 DEF Held, HeldOfInbox
<1>15. HeldOnce'
  <2> SUFFICES ASSUME NEW u \in Classifier, NEW v \in Classifier,
                      NEW i \in DOMAIN worker'[u].batch, NEW j \in DOMAIN worker'[v].batch,
                      worker'[u].batch[i] = worker'[v].batch[j]
               PROVE  u = v /\ i = j
    BY DEF HeldOnce
  <2>1. /\ i \in Nat /\ i + Off(u) \in DOMAIN worker[u].batch /\ worker'[u].batch[i] = worker[u].batch[i + Off(u)]
        /\ j \in Nat /\ j + Off(v) \in DOMAIN worker[v].batch /\ worker'[v].batch[j] = worker[v].batch[j + Off(v)]
        /\ Off(u) \in {0, 1} /\ Off(v) \in {0, 1}
    BY <1>5
  <2>2. u = v /\ i + Off(u) = j + Off(v)
    BY <2>1 DEF Held, HeldOnce
  <2> QED BY <2>1, <2>2
<1>16. LastIsHeld'
  <2> SUFFICES ASSUME NEW m \in Msg, m \notin Malformed \cup dropped', inbox[m].n = MaxDeliver, results'[m] = 0,
                      m \notin dead'
               PROVE  \E v \in Classifier : \E i \in DOMAIN worker'[v].batch :
                        worker'[v].batch[i].m = m /\ worker'[v].batch[i].n = MaxDeliver
    BY <1>11 DEF LastIsHeld
  <2>1. results[m] = 0
    BY <1>8
  <2>2. PICK v \in Classifier : \E k \in DOMAIN worker[v].batch :
          worker[v].batch[k].m = m /\ worker[v].batch[k].n = MaxDeliver
    BY <2>1 DEF Held, LastIsHeld
  <2>3. PICK k \in DOMAIN worker[v].batch : worker[v].batch[k].m = m /\ worker[v].batch[k].n = MaxDeliver
    BY <2>2
  <2>4. CASE v # w
    BY <1>1, <2>3, <2>4
  <2>5. CASE v = w /\ k # d
    <3>1. k - d \in DOMAIN y.batch /\ y.batch[k - d] = b[k]
      BY <1>4, <2>3, <2>5
    <3> QED BY <1>1, <2>3, <2>5, <3>1
  <2>6. CASE v = w /\ k = d
    <3>1. k = 1 /\ d = 1 /\ y.batch # b /\ b # <<>>
      BY <1>2, <1>4, <2>3, <2>6
    <3>2. Mine(w) = b[k]
      BY <1>6, <3>1
    <3>3. Mine(w).m = m /\ ~(Mine(w).n < MaxDeliver)
      BY <2>3, <2>6, <3>2, ClassifyBounds
    <3> QED BY <2>1, <3>1, <3>3
  <2> QED BY <2>4, <2>5, <2>6
<1>17. ResultsOfDelivered'
  <2> SUFFICES ASSUME NEW m \in Msg, inbox[m].n = 0, results'[m] # 0 PROVE FALSE
    BY <1>11 DEF ResultsOfDelivered
  <2>1. results'[m] # results[m]
    BY DEF Answered, ResultsOfDelivered
  <2>2. b # <<>> /\ m = Mine(w).m
    BY <1>7, <1>9, <2>1
  <2>3. Mine(w).n \in 1 .. MaxDeliver /\ Mine(w).n <= inbox[m].n
    BY <1>6, <2>2 DEF Held, HeldOfInbox
  <2> QED BY <2>3, ClassifyBounds
<1>18. FirstResultIsAcked'
  <2> SUFFICES ASSUME NEW m \in Msg, m \notin lost', inbox[m].n <= 1, results'[m] > 0,
                      NEW u \in Classifier, NEW i \in DOMAIN worker'[u].batch, worker'[u].batch[i].m = m
               PROVE  i = 1 /\ worker'[u].at = "ack"
    BY <1>11 DEF FirstResultIsAcked
  <2>1. /\ i \in Nat \ {0} /\ Off(u) \in {0, 1} /\ i + Off(u) \in DOMAIN worker[u].batch
        /\ worker[u].batch[i + Off(u)].m = m /\ m \notin lost
    BY <1>5, <1>8
  <2>2. CASE results'[m] = results[m]
    <3>1. i + Off(u) = 1 /\ worker[u].at = "ack"
      BY <2>1, <2>2 DEF Answered, FirstResultIsAcked
    <3>2. i = 1 /\ Off(u) = 0
      BY <2>1, <3>1
    <3> QED BY <1>1, <1>4, <3>1, <3>2 DEF Off
  <2>3. CASE results'[m] # results[m]
    <3>1. Stores /\ m = Mine(w).m /\ y.at = "ack" /\ d = 0 /\ b # <<>>
      BY <1>7, <1>9, <2>3
    <3>2. worker[u].batch[i + Off(u)] \in Entry /\ worker[u].batch[i + Off(u)].n \in 1 .. MaxDeliver
      BY <2>1, BatchesAreTyped
    <3>3. worker[u].batch[i + Off(u)].n <= inbox[m].n /\ Mine(w).n <= inbox[m].n
      BY <1>6, <2>1, <3>1 DEF Held, HeldOfInbox
    <3>4. worker[u].batch[i + Off(u)].n = 1 /\ Mine(w).n = 1
      BY <1>6, <3>1, <3>2, <3>3, <1>11, ClassifyBounds
    <3>5. worker[u].batch[i + Off(u)] = Mine(w)
      BY <1>6, <2>1, <3>1, <3>2, <3>4 DEF Entry
    <3>6. u = w /\ i + Off(u) = 1
      BY <1>6, <2>1, <3>1, <3>5 DEF Held, HeldOnce
    <3>7. i = 1
      BY <2>1, <3>6
    <3> QED BY <1>1, <3>1, <3>6, <3>7
  <2> QED BY <2>2, <2>3
<1>19. AckHasResult'
  <2> SUFFICES ASSUME NEW u \in Classifier, worker'[u].at = "ack" PROVE results'[Head(worker'[u].batch).m] > 0
    BY DEF AckHasResult, Mine
  <2>1. CASE u = w
    BY <1>1, <2>1 DEF Mine
  <2>2. CASE u # w
    <3>1. worker[u].at = "ack" /\ worker[u].batch # <<>> /\ worker'[u].batch = worker[u].batch
      BY <1>1, <2>2 DEF Held, BatchesFit
    <3>2. results[Mine(u).m] > 0
      BY <3>1 DEF Answered, AckHasResult
    <3>3. Mine(u).m \in Msg
      BY <3>1, BatchesAreTyped, RestOf DEF Mine
    <3> QED BY <1>8, <3>1, <3>2, <3>3 DEF Mine
  <2> QED BY <2>1, <2>2
<1>20. AckedHasResult'
  <2>1. \A m \in Msg : results[m] > 0 => results'[m] > 0
    BY <1>8
  <2> QED BY <2>1 DEF Answered, AckedHasResult
<1>21. SecondResultHasACause'
  <2> SUFFICES ASSUME NEW m \in Msg, results'[m] > 1, m \notin lost', ~(inbox[m].n > 1) PROVE FALSE
    BY <1>11 DEF SecondResultHasACause
  <2>1. CASE results'[m] = results[m]
    BY <1>8, <2>1 DEF Answered, SecondResultHasACause
  <2>2. CASE results'[m] # results[m]
    <3>1. Stores /\ m = Mine(w).m /\ results[m] > 0 /\ b # <<>> /\ m \notin lost
      BY <1>7, <1>8, <1>9, <2>2
    <3>2. inbox[m].n <= 1
      BY <1>11
    <3>3. worker[w].at = "ack"
      BY <1>6, <3>1, <3>2 DEF Answered, FirstResultIsAcked
    <3> QED BY <3>1, <3>3 DEF Stores
  <2> QED BY <2>1, <2>2
<1> QED BY <1>10, <1>12, <1>13, <1>14, <1>15, <1>16, <1>17, <1>18, <1>19, <1>20, <1>21 DEF Held, Answered


LEMMA FirstHeld ==
  ASSUME WInv, NEW w \in Classifier, worker[w].at # "fetch"
  PROVE  /\ worker[w] \in WorkerRecord /\ worker[w].batch # <<>> /\ worker[w].batch \in Seq(Entry)
         /\ Mine(w) \in Entry /\ Mine(w).m \in Msg /\ Mine(w).n \in 1 .. MaxDeliver
<1> USE DEF WInv
<1>1. worker[w].batch # <<>> /\ worker[w].batch \in Seq(Entry)
  BY BatchesAreTyped DEF Held, BatchesFit
<1>2. 1 \in DOMAIN worker[w].batch /\ Mine(w) = worker[w].batch[1]
  BY <1>1, RestOf DEF Mine
<1> QED BY <1>1, <1>2, BatchesAreTyped

\* The ways a worker leaves the first message of its batch or keeps it.
GoesTo(w, y) ==
  /\ worker' = [worker EXCEPT ![w] = y]
  /\ y.batch = worker[w].batch \/ (worker[w].batch # <<>> /\ y.batch = Tail(worker[w].batch))
  /\ y.at = "fetch" <=> y.batch = <<>>

LEMMA NextMoves ==
  ASSUME WInv, NEW w \in Classifier, worker[w].at # "fetch", Next_(w)
  PROVE  \E y \in WorkerRecord : GoesTo(w, y) /\ y.batch = Tail(worker[w].batch) /\ y.at # "ack"
<1> DEFINE b == worker[w].batch
           y == [at |-> IF Len(b) = 1 THEN "fetch" ELSE "parse", ctx |-> worker[w].ctx, batch |-> Tail(b), tries |-> 0]
<1>1. worker[w] \in WorkerRecord /\ b # <<>> /\ b \in Seq(Entry)
  BY FirstHeld
<1>2. Tail(b) \in Seq(Entry) /\ Len(Tail(b)) = Len(b) - 1 /\ Len(b) \in Nat
  BY <1>1, HeadTailProperties, LenProperties
<1>3. Tail(b) = <<>> <=> Len(b) = 1
  <2> DEFINE t == Tail(b)
  <2>1. t \in Seq(Entry) /\ Len(t) = Len(b) - 1
    BY <1>2
  <2> HIDE DEF t
  <2>2. t = <<>> <=> Len(t) = 0
    BY <2>1, EmptySeq
  <2>3. Len(b) - 1 = 0 <=> Len(b) = 1
    BY <1>2
  <2> QED BY <2>1, <2>2, <2>3 DEF t
<1>4. y \in WorkerRecord
  BY <1>1, <1>2, ClassifyBounds DEF WorkerRecord
<1>5. worker' = [worker EXCEPT ![w] = y]
  BY DEF Next_, WInv, WorkersOK
<1>6. y.batch = Tail(b) /\ y.at # "ack" /\ (y.at = "fetch" <=> y.batch = <<>>)
  BY <1>3
<1> QED BY <1>1, <1>4, <1>5, <1>6 DEF GoesTo

LEMMA AtMoves ==
  ASSUME WInv, NEW w \in Classifier, worker[w].at # "fetch",
         NEW at \in {"publish", "ack", "nak", "deadletter"}, At(w, at)
  PROVE  \E y \in WorkerRecord : GoesTo(w, y) /\ y.batch = worker[w].batch /\ y.at = at
<1> DEFINE y == [worker[w] EXCEPT !.at = at]
<1>1. worker[w] \in WorkerRecord /\ worker[w].batch # <<>>
  BY FirstHeld
<1>2. y \in WorkerRecord /\ y.batch = worker[w].batch /\ y.at = at
  BY <1>1 DEF WorkerRecord
<1>3. worker' = [worker EXCEPT ![w] = y]
  BY DEF At
<1> QED BY <1>1, <1>2, <1>3 DEF GoesTo

LEMMA FailedMoves ==
  ASSUME WInv, NEW w \in Classifier, worker[w].at # "fetch", Failed(w)
  PROVE  \E y \in WorkerRecord :
           GoesTo(w, y) /\ y.at # "ack" /\ (y.batch # worker[w].batch => Mine(w).n < MaxDeliver)
<1>1. CASE LastDelivery(w)
  BY <1>1, AtMoves DEF Failed
<1>2. CASE ~LastDelivery(w)
  <2>1. Mine(w).n < MaxDeliver
    BY <1>2, FirstHeld, ClassifyBounds DEF LastDelivery
  <2> QED BY <1>2, <2>1, NextMoves DEF Failed
<1> QED BY <1>1, <1>2

LEMMA AgainMoves ==
  ASSUME WInv, NEW w \in Classifier, worker[w].at = "publish", Again(w)
  PROVE  \E y \in WorkerRecord :
           GoesTo(w, y) /\ y.at # "ack" /\ (y.batch # worker[w].batch => Mine(w).n < MaxDeliver)
<1>1. CASE worker[w].tries + 1 >= Attempts
  BY <1>1, AtMoves DEF Again, Exhausted
<1>2. CASE ~(worker[w].tries + 1 >= Attempts) /\ ~worker[w].ctx
  BY <1>2, FailedMoves DEF Again
<1>3. CASE ~(worker[w].tries + 1 >= Attempts) /\ worker[w].ctx
  <2> DEFINE y == [worker[w] EXCEPT !.tries = @ + 1]
  <2>1. worker[w] \in WorkerRecord /\ worker[w].batch # <<>>
    BY FirstHeld
  <2>2. worker[w].tries + 1 \in 0 .. Attempts - 1
    BY <1>3, <2>1, ClassifyBounds DEF WorkerRecord
  <2>3. y \in WorkerRecord /\ y.batch = worker[w].batch /\ y.at = "publish"
    BY <2>1, <2>2 DEF WorkerRecord
  <2>4. worker' = [worker EXCEPT ![w] = y]
    BY <1>3 DEF Again
  <2> QED BY <2>1, <2>3, <2>4 DEF GoesTo
<1> QED BY <1>1, <1>2, <1>3

LEMMA InboxMoves ==
  ASSUME WInv, NEW m \in Msg, NEW x \in MessageState, inbox' = [inbox EXCEPT ![m] = x], x.n = inbox[m].n,
         x.at = inbox[m].at \/ x.at = "acked" \/ x.at = IF inbox[m].n >= MaxDeliver THEN "spent" ELSE "ready",
         x.at = "acked" => inbox[m].at = "acked" \/ results[m] > 0 \/ m \in dead' \cup Malformed
  PROVE  InboxGoes
<1> USE DEF WInv
<1>1. inbox' \in [Msg -> MessageState] /\ inbox'[m] = x /\ \A k \in Msg : k # m => inbox'[k] = inbox[k]
  BY DEF WorkersOK
<1>2. inbox[m].n \in Nat /\ MaxDeliver \in Nat /\ inbox[m].n <= MaxDeliver
  BY ClassifyNumbers DEF InboxOK
<1>3. x.at = "ready" => inbox[m].at = "ready" \/ inbox[m].n < MaxDeliver
  BY <1>2
<1>4. x.at = "spent" => inbox[m].at = "spent" \/ inbox[m].n = MaxDeliver
  BY <1>2
<1> QED BY <1>1, <1>3, <1>4 DEF InboxGoes

LEMMA InboxStays ==
  ASSUME WInv, UNCHANGED inbox
  PROVE  InboxGoes
BY DEF WInv, WorkersOK, InboxGoes


LEMMA AckClassifyKeeps == ASSUME WInv, NEW w \in Classifier, Ack(w) PROVE WInv'
<1> USE DEF WInv
<1>1. /\ worker[w].at = "ack" /\ Next_(w) /\ UNCHANGED <<breaker, results, dead, stops, lost, dropped>>
      /\ \E x \in AckOutcomes(inbox[Mine(w).m]) : inbox' = [inbox EXCEPT ![Mine(w).m] = x]
  BY DEF Ack
<1>2. worker[w].at # "fetch" /\ Mine(w).m \in Msg /\ inbox[Mine(w).m] \in MessageState
  BY <1>1, FirstHeld, ClassifyNumbers
<1>3. PICK y \in WorkerRecord : GoesTo(w, y) /\ y.batch = Tail(worker[w].batch) /\ y.at # "ack"
  BY <1>1, <1>2, NextMoves
<1>4. PICK x \in AckOutcomes(inbox[Mine(w).m]) : inbox' = [inbox EXCEPT ![Mine(w).m] = x]
  BY <1>1
<1>5. x \in MessageState /\ x.n = inbox[Mine(w).m].n /\ (x.at = inbox[Mine(w).m].at \/ x.at = "acked")
  BY <1>2, AckKeeps
<1>6. results[Mine(w).m] > 0
  BY <1>1 DEF Answered, AckHasResult
<1>7. InboxGoes
  BY <1>2, <1>4, <1>5, <1>6, InboxMoves
<1>8. worker[w].at = "ack" /\ y.batch = worker[w].batch => y.at = "ack"
  <2> DEFINE b == worker[w].batch
             c == Tail(b)
  <2>1. b \in Seq(Entry) /\ b # <<>>
    BY <1>2, FirstHeld
  <2>2. Len(c) = Len(b) - 1 /\ Len(b) \in Nat
    BY <2>1, HeadTailProperties, LenProperties
  <2>3. y.batch = c
    BY <1>3
  <2> HIDE DEF b, c
  <2>4. c # b
    BY <2>2
  <2> QED BY <2>3, <2>4 DEF b
<1>9. breaker' \in [Classifier -> BreakerRecord] /\ stops' \in Nat /\ dead' \subseteq Msg /\ dropped' \subseteq Msg
  BY <1>1 DEF WorkersOK
<1> QED BY <1>1, <1>3, <1>6, <1>7, <1>8, <1>9, WorkerGoesOn DEF GoesTo

LEMMA NakClassifyKeeps == ASSUME WInv, NEW w \in Classifier, NakWithDelay(w) PROVE WInv'
<1> USE DEF WInv
<1>1. /\ worker[w].at = "nak" /\ Failed(w) /\ UNCHANGED <<breaker, results, dead, stops, lost, dropped>>
      /\ \E x \in NakOutcomes(inbox[Mine(w).m], Mine(w).n, MaxDeliver) : inbox' = [inbox EXCEPT ![Mine(w).m] = x]
  BY DEF NakWithDelay
<1>2. /\ worker[w].at # "fetch" /\ Mine(w).m \in Msg /\ Mine(w).n \in 1 .. MaxDeliver
      /\ inbox[Mine(w).m] \in MessageState /\ MaxDeliver \in Nat
  BY <1>1, FirstHeld, ClassifyNumbers
<1>3. PICK y \in WorkerRecord :
        GoesTo(w, y) /\ y.at # "ack" /\ (y.batch # worker[w].batch => Mine(w).n < MaxDeliver)
  BY <1>1, <1>2, FailedMoves
<1>4. PICK x \in NakOutcomes(inbox[Mine(w).m], Mine(w).n, MaxDeliver) : inbox' = [inbox EXCEPT ![Mine(w).m] = x]
  BY <1>1
<1>5. /\ x \in MessageState /\ x.n = inbox[Mine(w).m].n
      /\ x.at = inbox[Mine(w).m].at \/ x.at = IF inbox[Mine(w).m].n >= MaxDeliver THEN "spent" ELSE "ready"
  BY <1>2, NakKeeps
<1>6. inbox[Mine(w).m].at = "acked" \/ x.at # "acked"
  BY <1>5
<1>7. InboxGoes
  BY <1>2, <1>4, <1>5, <1>6, InboxMoves
<1>8. breaker' \in [Classifier -> BreakerRecord] /\ stops' \in Nat /\ dead' \subseteq Msg /\ dropped' \subseteq Msg
  BY <1>1 DEF WorkersOK
<1> QED BY <1>1, <1>3, <1>7, <1>8, WorkerGoesOn DEF GoesTo

LEMMA UnmarshalKeeps == ASSUME WInv, NEW w \in Classifier, Unmarshal(w) PROVE WInv'
<1> USE DEF WInv
<1>1. worker[w].at = "parse" /\ UNCHANGED <<breaker, results, dead, stops, lost, dropped>>
  BY DEF Unmarshal
<1>2. worker[w].at # "fetch" /\ Mine(w).m \in Msg /\ inbox[Mine(w).m] \in MessageState
  BY <1>1, FirstHeld, ClassifyNumbers
<1>3. breaker' \in [Classifier -> BreakerRecord] /\ stops' \in Nat /\ dead' \subseteq Msg /\ dropped' \subseteq Msg
  BY <1>1 DEF WorkersOK
<1>4. CASE Mine(w).m \in Malformed
  <2>1. PICK x \in AckOutcomes(inbox[Mine(w).m]) : inbox' = [inbox EXCEPT ![Mine(w).m] = x]
    BY <1>4 DEF Unmarshal
  <2>2. x \in MessageState /\ x.n = inbox[Mine(w).m].n /\ (x.at = inbox[Mine(w).m].at \/ x.at = "acked")
    BY <1>2, AckKeeps
  <2>3. InboxGoes
    BY <1>2, <1>4, <2>1, <2>2, InboxMoves
  <2>4. Failed(w)
    BY <1>4 DEF Unmarshal
  <2>5. PICK y \in WorkerRecord :
          GoesTo(w, y) /\ y.at # "ack" /\ (y.batch # worker[w].batch => Mine(w).n < MaxDeliver)
    BY <1>2, <2>4, FailedMoves
  <2> QED BY <1>1, <1>3, <2>3, <2>5, WorkerGoesOn DEF GoesTo
<1>5. CASE Mine(w).m \notin Malformed
  <2>1. At(w, "publish") /\ UNCHANGED inbox
    BY <1>5 DEF Unmarshal
  <2>2. PICK y \in WorkerRecord : GoesTo(w, y) /\ y.batch = worker[w].batch /\ y.at = "publish"
    BY <1>2, <2>1, AtMoves
  <2>3. InboxGoes
    BY <2>1, InboxStays
  <2>4. y.at # "ack" /\ y.batch = worker[w].batch
    BY <2>2
  <2> QED BY <1>1, <1>3, <2>2, <2>3, <2>4, WorkerGoesOn DEF GoesTo
<1> QED BY <1>4, <1>5

LEMMA DeadLetterKeeps == ASSUME WInv, NEW w \in Classifier, SendToDLQ(w) PROVE WInv'
<1> USE DEF WInv
<1>1. worker[w].at = "deadletter" /\ Next_(w) /\ UNCHANGED <<breaker, results, stops, lost>>
  BY DEF SendToDLQ
<1>2. worker[w].at # "fetch" /\ Mine(w).m \in Msg /\ inbox[Mine(w).m] \in MessageState
  BY <1>1, FirstHeld, ClassifyNumbers
<1>3. PICK y \in WorkerRecord : GoesTo(w, y) /\ y.batch = Tail(worker[w].batch) /\ y.at # "ack"
  BY <1>1, <1>2, NextMoves
<1>4. breaker' \in [Classifier -> BreakerRecord] /\ stops' \in Nat /\ dead \subseteq Msg /\ dropped \subseteq Msg
  BY <1>1 DEF WorkersOK
<1>5. CASE dropped' = dropped \cup {Mine(w).m} /\ UNCHANGED <<dead, inbox>>
  <2>1. InboxGoes
    BY <1>5, InboxStays
  <2>2. dropped \subseteq dropped' /\ dropped' \subseteq Msg /\ dead \subseteq dead' /\ dead' \subseteq Msg
        /\ Mine(w).m \in dropped'
    BY <1>2, <1>4, <1>5
  <2> QED BY <1>1, <1>3, <1>4, <2>1, <2>2, WorkerGoesOn DEF GoesTo
<1>6. CASE /\ dead' = dead \cup {Mine(w).m} /\ UNCHANGED dropped
           /\ \E x \in AckOutcomes(inbox[Mine(w).m]) : inbox' = [inbox EXCEPT ![Mine(w).m] = x]
  <2>1. PICK x \in AckOutcomes(inbox[Mine(w).m]) : inbox' = [inbox EXCEPT ![Mine(w).m] = x]
    BY <1>6
  <2>2. x \in MessageState /\ x.n = inbox[Mine(w).m].n /\ (x.at = inbox[Mine(w).m].at \/ x.at = "acked")
    BY <1>2, AckKeeps
  <2>3. dropped \subseteq dropped' /\ dropped' \subseteq Msg /\ dead \subseteq dead' /\ dead' \subseteq Msg
        /\ Mine(w).m \in dead'
    BY <1>2, <1>4, <1>6
  <2>4. InboxGoes
    BY <1>2, <2>1, <2>2, <2>3, InboxMoves
  <2> QED BY <1>1, <1>3, <1>4, <2>3, <2>4, WorkerGoesOn DEF GoesTo
<1> QED BY <1>5, <1>6 DEF SendToDLQ

LEMMA CancelKeeps == ASSUME WInv, NEW w \in Classifier, Cancel(w) PROVE WInv'
<1> USE DEF WInv
<1> DEFINE y == [worker[w] EXCEPT !.ctx = FALSE]
<1>1. worker' = [worker EXCEPT ![w] = y] /\ stops' = stops + 1 /\ UNCHANGED <<inbox, breaker, results, dead, lost, dropped>>
  BY DEF Cancel
<1>2. worker[w] \in WorkerRecord
  BY BatchesAreTyped
<1>3. y \in WorkerRecord /\ y.batch = worker[w].batch /\ y.at = worker[w].at
  BY <1>2 DEF WorkerRecord
<1> HIDE DEF y
<1>4. /\ breaker' \in [Classifier -> BreakerRecord] /\ stops' \in Nat /\ dead \subseteq dead' /\ dead' \subseteq Msg
      /\ dropped \subseteq dropped' /\ dropped' \subseteq Msg
  BY <1>1 DEF WorkersOK
<1>5. InboxGoes
  BY <1>1, InboxStays
<1>6. y.at = "fetch" <=> y.batch = <<>>
  BY <1>3 DEF Held, BatchesFit
<1>7. y.at = "ack" => y.batch = worker[w].batch /\ results'[Mine(w).m] > 0
  BY <1>1, <1>3 DEF Answered, AckHasResult
<1> QED BY <1>1, <1>3, <1>4, <1>5, <1>6, <1>7, WorkerGoesOn


LEMMA BreakerMoves ==
  ASSUME NEW b \in BreakerRecord
  PROVE  /\ b.st # "open" => AfterSuccess(b) \in BreakerRecord /\ AfterFailure(b) \in BreakerRecord
         /\ [st |-> "half-open", failures |-> 0, trials |-> 0] \in BreakerRecord
<1> USE ClassifyBounds
<1>1. /\ b.st \in {"closed", "open", "half-open"} /\ b.failures \in 0 .. Threshold - 1 /\ b.trials \in 0 .. HalfOpenMax - 1
      /\ Threshold \in Nat \ {0} /\ HalfOpenMax \in Nat \ {0}
  BY DEF BreakerRecord
<1>2. [st |-> "half-open", failures |-> 0, trials |-> 0] \in BreakerRecord
  BY <1>1 DEF BreakerRecord
<1>3. AfterSuccess(b) \in BreakerRecord
  <2>1. CASE b.st = "half-open" /\ b.trials + 1 < HalfOpenMax
    <3>1. b.trials + 1 \in 0 .. HalfOpenMax - 1
      BY <1>1, <2>1
    <3> QED BY <2>1, <3>1 DEF AfterSuccess, BreakerRecord
  <2>2. CASE ~(b.st = "half-open" /\ b.trials + 1 < HalfOpenMax)
    BY <2>2, FreshIsTyped DEF AfterSuccess
  <2> QED BY <2>1, <2>2
<1>4. AfterFailure(b) \in BreakerRecord
  <2> DEFINE f == [b EXCEPT !.failures = @ + 1]
  <2>1. /\ f = [st |-> b.st, failures |-> b.failures + 1, trials |-> b.trials]
        /\ AfterFailure(b) = IF b.st = "half-open" \/ Opens(f) THEN [f EXCEPT !.st = "open", !.failures = 0] ELSE f
    BY DEF AfterFailure, BreakerRecord
  <2> HIDE DEF f
  <2> DEFINE Counting == [st : {"closed", "open", "half-open"}, failures : Nat,
                         trials : 0 .. HalfOpenMax - 1]
             g == [f EXCEPT !.st = "open", !.failures = 0]
  <2>2. f \in Counting
    BY <1>1, <2>1
  <2>3. g \in Counting /\ g.failures = 0
    BY <2>2
  <2>4. g \in BreakerRecord
    <3> HIDE DEF g
    <3> QED BY <1>1, <2>3 DEF BreakerRecord
  <2>5. ASSUME ~Opens(f) PROVE f \in BreakerRecord
    <3>1. b.failures + 1 \in 0 .. Threshold - 1
      BY <1>1, <2>1, <2>5 DEF Opens
    <3> QED BY <1>1, <2>1, <3>1 DEF BreakerRecord
  <2> QED BY <2>1, <2>4, <2>5
<1> QED BY <1>2, <1>3, <1>4

LEMMA PublishClassifyKeeps == ASSUME WInv, NEW w \in Classifier, Publish(w) PROVE WInv'
<1> USE DEF WInv
<1> DEFINE m == Mine(w).m
           b == breaker[w]
<1>1. worker[w].at = "publish" /\ UNCHANGED <<inbox, dead, stops, dropped>>
  BY DEF Publish
<1>2. worker[w].at # "fetch" /\ Mine(w).m \in Msg /\ results[m] \in 0 .. 2 /\ b \in BreakerRecord
  BY <1>1, FirstHeld, ClassifyNumbers DEF WorkersOK
<1>3. InboxGoes /\ stops' \in Nat /\ dead \subseteq dead' /\ dead' \subseteq Msg /\ dropped \subseteq dropped' /\ dropped' \subseteq Msg
  BY <1>1, InboxStays DEF WorkersOK
<1>4. CASE b.st = "open" /\ Again(w) /\ UNCHANGED <<breaker, results, lost>>
  <2>1. PICK y \in WorkerRecord :
          GoesTo(w, y) /\ y.at # "ack" /\ (y.batch # worker[w].batch => Mine(w).n < MaxDeliver)
    BY <1>1, <1>4, AgainMoves
  <2>2. breaker' \in [Classifier -> BreakerRecord] /\ UNCHANGED <<results, lost>>
    BY <1>4 DEF WorkersOK
  <2> QED BY <1>1, <1>3, <2>1, <2>2, WorkerGoesOn DEF GoesTo
<1>5. CASE /\ b.st # "open" /\ Accepted(w)
           /\ breaker' = [breaker EXCEPT ![w] = AfterSuccess(b)]
           /\ \E more \in {0, 1} :
                /\ Stored(m, 1 + more)
                /\ lost' = IF more = 1 THEN lost \cup {m} ELSE lost
  <2>1. PICK y \in WorkerRecord : GoesTo(w, y) /\ y.batch = worker[w].batch /\ y.at = "ack"
    BY <1>2, <1>5, AtMoves DEF Accepted
  <2>2. breaker' \in [Classifier -> BreakerRecord]
    BY <1>2, <1>5, BreakerMoves DEF WorkersOK
  <2>3. PICK more \in {0, 1} :
          /\ Stored(m, 1 + more)
          /\ lost' = IF more = 1 THEN lost \cup {m} ELSE lost
    BY <1>5
  <2> DEFINE r == IF results[m] + (1 + more) > 2 THEN 2 ELSE results[m] + (1 + more)
  <2>4. results' = [results EXCEPT ![m] = r]
    BY <2>3 DEF Stored
  <2>5. r \in 1 .. 2 /\ r >= results[m] /\ (more = 0 /\ r = 2 => results[m] > 0)
    BY <1>2
  <2> HIDE DEF r
  <2>6. results'[Mine(w).m] > 0
    BY <1>2, <2>4, <2>5 DEF WorkersOK
  <2>7. \E q \in 1 .. 2 :
          /\ results' = [results EXCEPT ![Mine(w).m] = q] /\ q >= results[Mine(w).m]
          /\ \/ lost' = lost \cup {Mine(w).m}
             \/ /\ lost' = lost /\ y.at = "ack" /\ y.batch = worker[w].batch
                /\ q = 2 => results[Mine(w).m] > 0
    BY <2>1, <2>3, <2>4, <2>5
  <2> QED BY <1>1, <1>3, <2>1, <2>2, <2>6, <2>7, WorkerGoesOn DEF GoesTo
<1>6. CASE /\ b.st # "open" /\ Again(w)
           /\ breaker' = [breaker EXCEPT ![w] = AfterFailure(b)]
           /\ \/ UNCHANGED <<results, lost>>
              \/ Stored(m, 1) /\ lost' = lost \cup {m}
  <2>1. PICK y \in WorkerRecord :
          GoesTo(w, y) /\ y.at # "ack" /\ (y.batch # worker[w].batch => Mine(w).n < MaxDeliver)
    BY <1>1, <1>6, AgainMoves
  <2>2. breaker' \in [Classifier -> BreakerRecord]
    BY <1>2, <1>6, BreakerMoves DEF WorkersOK
  <2>3. CASE UNCHANGED <<results, lost>>
    BY <1>1, <1>3, <2>1, <2>2, <2>3, WorkerGoesOn DEF GoesTo
  <2>4. CASE Stored(m, 1) /\ lost' = lost \cup {m}
    <3> DEFINE r == IF results[m] + 1 > 2 THEN 2 ELSE results[m] + 1
    <3>1. results' = [results EXCEPT ![m] = r]
      BY <2>4 DEF Stored
    <3>2. r \in 1 .. 2 /\ r >= results[m]
      BY <1>2
    <3> HIDE DEF r
    <3>3. \E q \in 1 .. 2 :
            /\ results' = [results EXCEPT ![Mine(w).m] = q] /\ q >= results[Mine(w).m]
            /\ \/ lost' = lost \cup {Mine(w).m}
               \/ /\ lost' = lost /\ y.at = "ack" /\ y.batch = worker[w].batch
                  /\ q = 2 => results[Mine(w).m] > 0
      BY <2>4, <3>1, <3>2
    <3> QED BY <1>1, <1>3, <2>1, <2>2, <3>3, WorkerGoesOn DEF GoesTo
  <2> QED BY <1>6, <2>3, <2>4
<1> QED BY <1>4, <1>5, <1>6 DEF Publish


\* A worker started anew drops its batch, the last deliveries in it for good.
LEMMA FreshWorker ==
  ASSUME WInv, NEW w \in Classifier, worker' = [worker EXCEPT ![w] = Fresh], breaker' = [breaker EXCEPT ![w] = Closed],
         UNCHANGED <<inbox, results, dead, lost>>, stops' \in Nat, dropped \subseteq dropped', dropped' \subseteq Msg,
         \A i \in DOMAIN worker[w].batch : worker[w].batch[i].n = MaxDeliver => worker[w].batch[i].m \in dropped'
  PROVE  WInv'
<1> USE DEF WInv
<1>1. /\ worker' \in [Classifier -> WorkerRecord] /\ worker'[w] = Fresh
      /\ \A v \in Classifier : v # w => worker'[v] = worker[v]
  BY FreshIsTyped DEF WorkersOK
<1>2. WorkersOK'
  BY <1>1, FreshIsTyped DEF WorkersOK
<1>3. DOMAIN Fresh.batch = {} /\ Len(Fresh.batch) = 0 /\ Batch \in Nat
  BY FreshIsTyped, EmptySeq, ClassifyBounds
<1>4. InboxOK' /\ SpentIsLast' /\ ResultsOfDelivered' /\ AckedHasResult' /\ SecondResultHasACause'
  BY DEF InboxOK, SpentIsLast, ResultsOfDelivered, AckedHasResult, SecondResultHasACause, Answered
<1>5. BatchesFit'
  BY <1>1, <1>3, FreshIsTyped DEF Held, BatchesFit
<1>6. \A v \in Classifier : \A i \in DOMAIN worker'[v].batch : v # w /\ worker'[v] = worker[v]
  BY <1>1, <1>3
<1>7. HeldOfInbox' /\ HeldOnce'
  BY <1>6 DEF Held, HeldOfInbox, HeldOnce
<1>8. LastIsHeld'
  <2> SUFFICES ASSUME NEW m \in Msg, m \notin Malformed \cup dropped', inbox[m].n = MaxDeliver, results[m] = 0, m \notin dead
               PROVE  \E v \in Classifier : \E i \in DOMAIN worker'[v].batch :
                        worker'[v].batch[i].m = m /\ worker'[v].batch[i].n = MaxDeliver
    BY DEF LastIsHeld
  <2>1. PICK v \in Classifier : \E i \in DOMAIN worker[v].batch :
          worker[v].batch[i].m = m /\ worker[v].batch[i].n = MaxDeliver
    BY DEF Held, LastIsHeld
  <2>2. v # w
    BY <2>1
  <2> QED BY <1>1, <2>1, <2>2
<1>9. FirstResultIsAcked'
  BY <1>6 DEF Answered, FirstResultIsAcked
<1>10. AckHasResult'
  BY <1>1, FreshIsTyped DEF Answered, AckHasResult, Mine
<1> QED BY <1>2, <1>4, <1>5, <1>7, <1>8, <1>9, <1>10 DEF Held, Answered

LEMMA AckWaitKeeps == ASSUME WInv, NEW m \in Msg, AckWaitOver(m) PROVE WInv'
<1> USE DEF WInv
<1> DEFINE x == Redelivered(inbox[m])
<1>1. inbox' = [inbox EXCEPT ![m] = x] /\ UNCHANGED <<worker, breaker, results, dead, stops, lost, dropped>>
  BY DEF AckWaitOver
<1>2. inbox[m] \in MessageState /\ MaxDeliver \in Nat
  BY ClassifyNumbers
<1>3. /\ x \in MessageState /\ x.n = inbox[m].n
      /\ x.at = IF inbox[m].n >= MaxDeliver THEN "spent" ELSE "ready"
  BY <1>2, ReturnedKeeps DEF Redelivered
<1> HIDE DEF x
<1>4. x.at # "acked"
  BY <1>3
<1>5. InboxGoes
  BY <1>1, <1>3, <1>4, InboxMoves
<1>6. WorkersOK'
  BY <1>1, <1>5 DEF WorkersOK, InboxGoes
<1>7. \A k \in Msg : inbox'[k].n = inbox[k].n
  BY <1>5 DEF InboxGoes
<1>8. InboxOK' /\ SpentIsLast'
  BY <1>5 DEF InboxOK, SpentIsLast, InboxGoes
<1>9. BatchesFit' /\ HeldOnce' /\ LastIsHeld'
  BY <1>1, <1>7 DEF Held, BatchesFit, HeldOnce, LastIsHeld
<1>10. HeldOfInbox'
  <2>1. \A w \in Classifier : \A i \in DOMAIN worker[w].batch : worker[w].batch[i].m \in Msg
    BY BatchesAreTyped
  <2> QED BY <1>1, <1>7, <2>1 DEF Held, HeldOfInbox
<1>11. ResultsOfDelivered' /\ FirstResultIsAcked' /\ SecondResultHasACause'
  BY <1>1, <1>7 DEF Answered, ResultsOfDelivered, FirstResultIsAcked, SecondResultHasACause
<1>12. AckHasResult'
  BY <1>1 DEF Answered, AckHasResult, Mine
<1>13. AckedHasResult'
  BY <1>1, <1>5 DEF Answered, AckedHasResult, InboxGoes
<1> QED BY <1>6, <1>8, <1>9, <1>10, <1>11, <1>12, <1>13 DEF Held, Answered

LEMMA FetchKeeps == ASSUME WInv, NEW w \in Classifier, Fetch(w) PROVE WInv'
<1> USE DEF WInv
<1>1. worker[w].at = "fetch" /\ UNCHANGED <<breaker, results, dead, stops, lost, dropped>>
  BY DEF Fetch
<1>2. PICK S \in SUBSET {m \in Msg : inbox[m].at = "ready"} :
        /\ S # {} /\ Cardinality(S \cup Outstanding) <= Batch
        /\ inbox' = [m \in Msg |-> IF m \in S THEN Delivered(inbox[m]) ELSE inbox[m]]
        /\ \E q \in SetToSeqs(S) :
             worker' = [worker EXCEPT ![w].at = "parse",
                                      ![w].batch = [i \in DOMAIN q |-> [m |-> q[i], n |-> inbox[q[i]].n + 1]]]
  BY DEF Fetch
<1>3. PICK q \in SetToSeqs(S) :
        worker' = [worker EXCEPT ![w].at = "parse",
                                 ![w].batch = [i \in DOMAIN q |-> [m |-> q[i], n |-> inbox[q[i]].n + 1]]]
  BY <1>2
<1> DEFINE nb == [i \in DOMAIN q |-> [m |-> q[i], n |-> inbox[q[i]].n + 1]]
           c == Cardinality(S)
<1>4. /\ IsFiniteSet(S) /\ c \in Nat /\ c # 0 /\ c <= Batch /\ S \subseteq Msg
  <2>1. IsFiniteSet(S) /\ IsFiniteSet(S \cup Outstanding)
    BY <1>2, ClassifyBounds, FS_Subset DEF Outstanding
  <2>2. c <= Cardinality(S \cup Outstanding) /\ c \in Nat /\ Cardinality(S \cup Outstanding) \in Nat
    BY <2>1, FS_Subset, FS_CardinalityType
  <2>3. c # 0
    BY <1>2, <2>1, FS_EmptySet
  <2> QED BY <1>2, <2>1, <2>2, <2>3, ClassifyBounds
<1>5. q \in [1 .. c -> S] /\ (\A i, j \in 1 .. c : i # j => q[i] # q[j]) /\ DOMAIN q = 1 .. c
  BY DEF SetToSeqs
<1>6. \A m \in S : \E i \in 1 .. c : q[i] = m
  <2>1. IsFiniteSet(1 .. c) /\ Cardinality(1 .. c) = c
    BY <1>4, FS_Interval
  <2>2. q \in Injection(1 .. c, S)
    BY <1>5 DEF Injection, IsInjective
  <2>3. q \in Surjection(1 .. c, S)
    BY <1>4, <2>1, <2>2, FS_Injection
  <2> QED BY <2>3 DEF Surjection
<1>7. \A m \in S : inbox[m] \in MessageState /\ inbox[m].n \in Nat /\ inbox[m].n < MaxDeliver
  BY <1>2, ClassifyNumbers DEF InboxOK
<1>8. \A i \in 1 .. c : /\ q[i] \in S /\ [m |-> q[i], n |-> inbox[q[i]].n + 1] \in Entry
  BY <1>4, <1>5, <1>7, ClassifyBounds DEF Entry
<1>9. /\ nb \in Seq(Entry) /\ DOMAIN nb = 1 .. c /\ nb # <<>> /\ Len(nb) = c
      /\ \A i \in 1 .. c : nb[i].m = q[i] /\ nb[i].n = inbox[q[i]].n + 1
  <2>1. nb \in [1 .. c -> Entry]
    BY <1>5, <1>8
  <2>2. nb \in Seq(Entry) /\ DOMAIN nb = 1 .. c /\ Len(nb) = c
    BY <1>4, <2>1
  <2>3. nb # <<>>
    BY <1>4, <2>2, EmptySeq
  <2> QED BY <1>5, <2>2, <2>3
<1> HIDE DEF nb, c
<1>10. /\ worker' \in [Classifier -> WorkerRecord] /\ worker'[w].at = "parse" /\ worker'[w].batch = nb
       /\ \A v \in Classifier : v # w => worker'[v] = worker[v]
  <2> DEFINE y == [[worker[w] EXCEPT !.at = "parse"] EXCEPT !.batch = nb]
  <2>1. worker' = [worker EXCEPT ![w].at = "parse", ![w].batch = nb]
    BY <1>3 DEF nb
  <2>2. worker[w] \in WorkerRecord
    BY DEF WorkersOK
  <2>3. y \in WorkerRecord /\ y.at = "parse" /\ y.batch = nb
    BY <1>9, <2>2 DEF WorkerRecord
  <2>4. worker' = [worker EXCEPT ![w] = y]
    BY <2>1 DEF WorkersOK
  <2> HIDE DEF y
  <2> QED BY <2>3, <2>4 DEF WorkersOK
<1>11. inbox' = [m \in Msg |-> IF m \in S THEN Delivered(inbox[m]) ELSE inbox[m]]
  BY <1>2
<1>12. /\ inbox' \in [Msg -> MessageState]
       /\ \A m \in S : inbox'[m].at = "out" /\ inbox'[m].n = inbox[m].n + 1
       /\ \A m \in Msg : m \notin S => inbox'[m] = inbox[m]
       /\ \A m \in Msg : inbox[m].n \in Nat /\ inbox'[m].n \in Nat /\ inbox[m].n <= inbox'[m].n
  <2>1. \A m \in Msg : inbox[m] \in MessageState /\ inbox[m].n \in Nat
    BY ClassifyNumbers
  <2>2. \A m \in S : Delivered(inbox[m]) \in MessageState /\ Delivered(inbox[m]).n = inbox[m].n + 1
                     /\ Delivered(inbox[m]).at = "out"
    BY <1>7, DeliveredCounts
  <2>3. inbox' \in [Msg -> MessageState]
    BY <1>11, <2>1, <2>2
  <2>4. /\ \A m \in S : inbox'[m].at = "out" /\ inbox'[m].n = inbox[m].n + 1
        /\ \A m \in Msg : m \notin S => inbox'[m] = inbox[m]
    BY <1>4, <1>11, <2>2
  <2> QED BY <1>4, <2>1, <2>3, <2>4
<1> DEFINE New(u, i) == u = w /\ i \in 1 .. c /\ worker'[u].batch[i].m \in S
                        /\ worker'[u].batch[i].m = q[i] /\ worker'[u].batch[i].n = inbox[q[i]].n + 1
           Old(u, i) == u # w /\ i \in DOMAIN worker[u].batch /\ worker'[u] = worker[u]
                        /\ worker'[u].batch[i].m \in Msg
                        /\ worker'[u].batch[i].n \in Nat /\ worker'[u].batch[i].n <= inbox[worker'[u].batch[i].m].n
<1>13. ASSUME NEW u \in Classifier, NEW i \in DOMAIN worker'[u].batch PROVE New(u, i) \/ Old(u, i)
  <2>1. CASE u = w
    BY <1>8, <1>9, <1>10, <2>1
  <2>2. CASE u # w
    BY <1>10, <2>2, BatchesAreTyped DEF Held, HeldOfInbox
  <2> QED BY <2>1, <2>2
<1>14. WorkersOK'
  BY <1>1, <1>10, <1>12 DEF WorkersOK
<1>15. InboxOK' /\ SpentIsLast'
  <2>1. \A m \in S : inbox[m].n + 1 <= MaxDeliver
    BY <1>7, ClassifyBounds
  <2>2. InboxOK'
    BY <1>12, <2>1 DEF InboxOK
  <2>3. SpentIsLast'
    BY <1>12 DEF SpentIsLast
  <2> QED BY <2>2, <2>3
<1>16. BatchesFit'
  BY <1>4, <1>9, <1>10 DEF Held, BatchesFit
<1>17. HeldOfInbox'
  <2> SUFFICES ASSUME NEW u \in Classifier, NEW i \in DOMAIN worker'[u].batch
               PROVE  worker'[u].batch[i].n <= inbox'[worker'[u].batch[i].m].n
    BY DEF HeldOfInbox
  <2>1. CASE New(u, i)
    BY <1>4, <1>12, <2>1
  <2>2. CASE Old(u, i)
    BY <1>12, <2>2
  <2> QED BY <1>13, <2>1, <2>2
<1>18. HeldOnce'
  <2> SUFFICES ASSUME NEW u \in Classifier, NEW v \in Classifier,
                      NEW i \in DOMAIN worker'[u].batch, NEW j \in DOMAIN worker'[v].batch,
                      worker'[u].batch[i] = worker'[v].batch[j]
               PROVE  u = v /\ i = j
    BY DEF HeldOnce
  <2>1. CASE New(u, i) /\ New(v, j)
    BY <1>5, <2>1
  <2>2. CASE New(u, i) /\ Old(v, j)
    BY <1>7, <2>2
  <2>3. CASE Old(u, i) /\ New(v, j)
    BY <1>7, <2>3
  <2>4. CASE Old(u, i) /\ Old(v, j)
    BY <2>4 DEF Held, HeldOnce
  <2> QED BY <1>13, <2>1, <2>2, <2>3, <2>4
<1>19. LastIsHeld'
  <2> SUFFICES ASSUME NEW m \in Msg, m \notin Malformed \cup dropped, inbox'[m].n = MaxDeliver, results[m] = 0, m \notin dead
               PROVE  \E v \in Classifier : \E i \in DOMAIN worker'[v].batch :
                        worker'[v].batch[i].m = m /\ worker'[v].batch[i].n = MaxDeliver
    BY <1>1 DEF LastIsHeld
  <2>1. CASE m \in S
    <3>1. PICK i \in 1 .. c : q[i] = m
      BY <1>6, <2>1
    <3>2. i \in DOMAIN worker'[w].batch /\ worker'[w].batch[i].m = m /\ worker'[w].batch[i].n = MaxDeliver
      BY <1>9, <1>10, <1>12, <2>1, <3>1
    <3> QED BY <3>2
  <2>2. CASE m \notin S
    <3>1. PICK v \in Classifier : \E i \in DOMAIN worker[v].batch :
            worker[v].batch[i].m = m /\ worker[v].batch[i].n = MaxDeliver
      BY <1>12, <2>2 DEF Held, LastIsHeld
    <3>2. worker[w].batch = <<>>
      BY <1>1 DEF Held, BatchesFit
    <3>3. v # w
      BY <3>1, <3>2, EmptySeq
    <3> QED BY <1>10, <3>1, <3>3
  <2> QED BY <2>1, <2>2
<1>20. ResultsOfDelivered'
  BY <1>1, <1>12 DEF Answered, ResultsOfDelivered
<1>21. FirstResultIsAcked'
  <2> SUFFICES ASSUME NEW m \in Msg, m \notin lost, inbox'[m].n <= 1, results[m] > 0,
                      NEW u \in Classifier, NEW i \in DOMAIN worker'[u].batch, worker'[u].batch[i].m = m
               PROVE  i = 1 /\ worker'[u].at = "ack"
    BY <1>1 DEF FirstResultIsAcked
  <2>1. m \notin S
    BY <1>12, ClassifyNumbers DEF Answered, ResultsOfDelivered
  <2>2. Old(u, i)
    BY <1>13, <2>1
  <2> QED BY <1>12, <2>1, <2>2 DEF Answered, FirstResultIsAcked
<1>22. AckHasResult'
  BY <1>1, <1>10 DEF Answered, AckHasResult, Mine
<1>23. AckedHasResult'
  BY <1>1, <1>12 DEF Answered, AckedHasResult
<1>24. SecondResultHasACause'
  BY <1>1, <1>12 DEF Answered, SecondResultHasACause
<1> QED BY <1>14, <1>15, <1>16, <1>17, <1>18, <1>19, <1>20, <1>21, <1>22, <1>23, <1>24 DEF Held, Answered


LEMMA HalfOpensKeeps == ASSUME WInv, NEW w \in Classifier, HalfOpens(w) PROVE WInv'
<1> USE DEF WInv
<1>1. breaker[w] \in BreakerRecord
  BY DEF WorkersOK
<1>2. breaker' \in [Classifier -> BreakerRecord]
  BY <1>1, BreakerMoves DEF HalfOpens, WorkersOK
<1>3. UNCHANGED <<inbox, worker, results, dead, stops, lost, dropped>>
  BY DEF HalfOpens
<1>4. WorkersOK'
  BY <1>2, <1>3 DEF WorkersOK
<1> QED BY <1>3, <1>4 DEF InboxOK, SpentIsLast, Held, BatchesFit, HeldOfInbox, HeldOnce, LastIsHeld, Answered,
     ResultsOfDelivered, FirstResultIsAcked, AckHasResult, AckedHasResult, SecondResultHasACause, Mine

LEMMA WorkerDiesKeeps == ASSUME WInv, NEW w \in Classifier, WorkerDies(w) PROVE WInv'
<1> USE DEF WInv
<1> DEFINE b == worker[w].batch
           gone == {x.m : x \in {x \in ToSet(b) : x.n = MaxDeliver}}
<1>1. /\ worker' = [worker EXCEPT ![w] = Fresh] /\ breaker' = [breaker EXCEPT ![w] = Closed]
      /\ stops' = stops + 1 /\ dropped' = dropped \cup gone /\ UNCHANGED <<inbox, results, dead, lost>>
  BY DEF WorkerDies
<1>2. \A i \in DOMAIN b : b[i].m \in Msg
  BY BatchesAreTyped
<1>3. gone \subseteq Msg /\ \A i \in DOMAIN b : b[i].n = MaxDeliver => b[i].m \in gone
  BY <1>2 DEF ToSet
<1> HIDE DEF gone
<1>4. /\ stops' \in Nat /\ dropped \subseteq dropped' /\ dropped' \subseteq Msg
      /\ \A i \in DOMAIN b : b[i].n = MaxDeliver => b[i].m \in dropped'
  BY <1>1, <1>3 DEF WorkersOK
<1> QED BY <1>1, <1>4, FreshWorker

LEMMA WorkerStartsKeeps == ASSUME WInv, NEW w \in Classifier, WorkerStarts(w) PROVE WInv'
<1> USE DEF WInv
<1>1. worker[w].batch = <<>>
  BY DEF WorkerStarts, Held, BatchesFit
<1>2. DOMAIN worker[w].batch = {}
  BY <1>1, EmptySeq
<1>3. stops' \in Nat /\ dropped \subseteq dropped' /\ dropped' \subseteq Msg
  BY DEF WorkerStarts, WorkersOK
<1> QED BY <1>2, <1>3, FreshWorker DEF WorkerStarts

LEMMA ClassifyKeeps == ASSUME WInv, [ClassifyNext]_classifyVars PROVE WInv'
<1>1. CASE UNCHANGED classifyVars
  BY <1>1 DEF classifyVars, WInv, WorkersOK, InboxOK, SpentIsLast, Held, BatchesFit, HeldOfInbox, HeldOnce, LastIsHeld,
     Answered, ResultsOfDelivered, FirstResultIsAcked, AckHasResult, AckedHasResult, SecondResultHasACause, Mine
<1> QED BY <1>1, FetchKeeps, UnmarshalKeeps, PublishClassifyKeeps, AckClassifyKeeps, NakClassifyKeeps, DeadLetterKeeps,
           WorkerStartsKeeps, HalfOpensKeeps, CancelKeeps, WorkerDiesKeeps, AckWaitKeeps
        DEF ClassifyNext, WorkerStep

LEMMA WorkersSound == WInv => ClassifyInv
<1> SUFFICES ASSUME WInv PROVE ClassifyTypeOK /\ SpentIsDeadLettered
  BY DEF ClassifyInv, WInv, Answered
<1> USE DEF WInv
<1>1. ClassifyTypeOK
  <2>1. \A w \in Classifier : breaker[w] \in BreakerRecord
    BY DEF WorkersOK
  <2>2. \A w \in Classifier : worker[w].batch \in Seq([m : Msg, n : 1 .. MaxDeliver])
    BY BatchesAreTyped DEF Entry
  <2>3. \A w \in Classifier : Len(worker[w].batch) <= Batch
    BY DEF Held, BatchesFit
  <2> QED BY <2>1, <2>2, <2>3, BatchesAreTyped
          DEF ClassifyTypeOK, WorkersOK, InboxOK, BreakerRecord, WorkerRecord
<1>2. SpentIsDeadLettered
  <2> SUFFICES ASSUME NEW m \in Msg \ (Malformed \cup dropped), inbox[m].at = "spent", results[m] = 0, m \notin dead
               PROVE  \E w \in Classifier : \E x \in ToSet(worker[w].batch) : x.m = m /\ x.n = MaxDeliver
    BY DEF SpentIsDeadLettered
  <2>1. inbox[m].n = MaxDeliver
    BY DEF SpentIsLast
  <2>2. PICK w \in Classifier : \E i \in DOMAIN worker[w].batch :
          worker[w].batch[i].m = m /\ worker[w].batch[i].n = MaxDeliver
    BY <2>1 DEF Held, LastIsHeld
  <2> QED BY <2>2 DEF ToSet
<1> QED BY <1>1, <1>2

\* In every behaviour of the classification workers, with any messages, batches,
\* crashes and lost answers, no message is acked without a result or a dead
\* letter, a second result has a cause, and a message that used up its
\* deliveries is a dead letter or its last delivery is still held
\* (ClassifyConsumer.Publish, Ack, SendToDLQ).
THEOREM ClassifyIsSound == ClassifySpec => []ClassifyInv
<1> QED BY WorkersSound, ClassifyInitially, ClassifyKeeps, PTL DEF ClassifySpec

\* The same of the whole way of an event, whichever of its parts moves.
THEOREM ConsumersAreSound == Spec => [](ClassifyInv /\ PipelineInv /\ SyncerInv)
<1>1. Init => ClassifyInit /\ PipelineInit /\ SyncerInit
  BY DEF Init
<1>2. [Next]_consumers => [ClassifyNext]_classifyVars /\ [PipelineNext]_pipelineVars /\ [SyncerNext]_syncerVars
  BY DEF Next, consumers, WorkerMoves
<1>3. WInv /\ PipeInv /\ SyncInv => ClassifyInv /\ PipelineInv /\ SyncerInv
  BY WorkersSound, SyncSound DEF PipeInv, PipelineInv
<1> QED BY <1>1, <1>2, <1>3, ClassifyInitially, ClassifyKeeps, PipelineInitially, PipelineKeeps,
           SyncerInitially, SyncerKeeps, PTL DEF Spec

-------------------------------------------------------------------------------
(* MailAssembly.  A goroutine at work counted its thread up once, every      *)
(* address of its mail is a contact of the user or belongs to a participant  *)
(* still left, and the mail it answers lies in the thread it joined.         *)

Ids == UNION {ToSet(Header[m].asked) : m \in Email}
Owners == {Header[m].user : m \in Email}
ContactRecord == [user : Owners, name : {Header[m].name : m \in Email} \cup {""}]
Dedups == {"contact", "names", "node", "links"}
Threaded == {"insert"} \cup Dedups
Places == {"idle", "ask", "join", "create", "publish"} \cup Threaded
AsmRecord == [at : Places, mail : Email \cup {None}, asked : Seq(Ids), thread : Keys \cup {None}, fuzzy : BOOLEAN,
              apart : BOOLEAN, left : SUBSET Nat, links : SUBSET Address, tries : 0 .. 3]

GraphTypes == contacts \in [Address -> ContactRecord \cup {None}] /\ similar \subseteq Address \X Address
StoreTypes ==
  /\ threads \in [Keys -> [count : Nat, last : 0 .. Today]]
  /\ row \in [Email -> Keys \cup {None}] /\ wasted \in [Keys -> Nat]
LetterTypes ==
  /\ ingested \subseteq Email /\ deadLetters \subseteq Email /\ silent \subseteq Email /\ apart \subseteq Email
  /\ taken \in 0 .. MaxAssemblies /\ upsets \in 0 .. MaxUpsets

\* What a goroutine relies on.
Known(e, u) == contacts[e] # None /\ contacts[e].user = u
ThreadOK(a) ==
  asm[a].at \in {"join"} \cup Threaded => asm[a].thread \in Keys /\ asm[a].thread.user = OwnerOf(a)
AskedOK(a) ==
  /\ asm[a].at = "ask" /\ ~asm[a].apart => asm[a].asked = Header[asm[a].mail].asked
  /\ asm[a].at = "create" \/ asm[a].fuzzy => asm[a].apart \/ Header[asm[a].mail].asked = <<>>
  /\ asm[a].at \in {"join"} \cup Threaded /\ ~asm[a].apart /\ Header[asm[a].mail].asked # <<>> =>
       \E p \in StoredWith(Head(Header[asm[a].mail].asked), OwnerOf(a)) : row[p] = asm[a].thread
PeopleOK(a) ==
  /\ asm[a].at \in Dedups => asm[a].left # {} /\ asm[a].left \subseteq Participants(asm[a].mail)
  /\ asm[a].at = "insert" => asm[a].left = {}
  /\ asm[a].at \in Threaded =>
       \A e \in Contacts(asm[a].mail) :
         Known(e, OwnerOf(a)) \/ \E i \in asm[a].left : AddressAt(asm[a].mail, i) = e
LinksOK(a) ==
  /\ asm[a].at \in {"ask", "join", "create", "contact", "names"} => asm[a].links = {}
  /\ asm[a].at \in {"node", "links"} => \A e \in asm[a].links : e # Person(a).email /\ Known(e, OwnerOf(a))
  /\ asm[a].at = "links" => Known(Person(a).email, OwnerOf(a))
AssemblerOK(a) ==
  asm[a].at # "idle" => asm[a].mail \in Email /\ ThreadOK(a) /\ AskedOK(a) /\ PeopleOK(a) /\ LinksOK(a)

RowsOK ==
  \A m \in Email : row[m] # None =>
    row[m].user = Header[m].user /\ \A e \in Contacts(m) : Known(e, Header[m].user)
RepliesJoined ==
  \A m \in Email : row[m] # None /\ m \notin apart /\ Header[m].asked # <<>> =>
    \E p \in StoredWith(Head(Header[m].asked), Header[m].user) : row[p] = row[m]
EdgesOK ==
  \A s \in similar : /\ s[1] # s[2] /\ contacts[s[1]] # None /\ contacts[s[2]] # None
                     /\ contacts[s[1]].user = contacts[s[2]].user

ATypes == asm \in [Assembler -> AsmRecord] /\ GraphTypes /\ StoreTypes /\ LetterTypes
AInv ==
  /\ ATypes /\ (\A a \in Assembler : AssemblerOK(a))
  /\ RowsOK /\ RepliesJoined /\ EdgesOK /\ StoredIsPublished /\ CountCoversMail

LEMMA NoneIsNothing == None \notin Keys /\ None \notin ContactRecord
<1>1. \A m \in Email : KeyOf(m) # None
  BY DEF KeyOf, None
<1>2. ASSUME NEW c \in ContactRecord PROVE c # None
  <2>1. PICK u, n : c = [user |-> u, name |-> n]
    BY DEF ContactRecord
  <2>2. [user |-> u, name |-> n] # <<>>
    OBVIOUS
  <2> QED BY <2>1, <2>2 DEF None
<1> QED BY <1>1, <1>2 DEF Keys

LEMMA CountedPlace ==
  ASSUME NEW a \in Assembler, AssemblerOK(a), asm[a] \in AsmRecord
  PROVE  Counted(a) <=> asm[a].at \in Threaded
BY NoneIsNothing DEF Counted, AssemblerOK, ThreadOK, Threaded, Dedups

-------------------------------------------------------------------------------
\* The recipients.

LEMMA LeastPosition ==
  ASSUME NEW S \in SUBSET Nat, S # {}
  PROVE  Min(S) \in S /\ \A y \in S : Min(S) <= y
<1>1. PICK x \in S : \A y \in S : <<y, x>> \notin OpToRel(<, Nat)
  BY NatLessThanWellFounded, WFMin, Zenon
<1>2. \A y \in S : ~(y < x)
  BY <1>1 DEF OpToRel
<1>3. \A y \in S : x <= y
  BY <1>2
<1> QED BY <1>3 DEF Min

LEMMA PositionsAreContacts ==
  ASSUME NEW m \in Email
  PROVE  /\ Len(Header[m].to) \in Nat /\ Participants(m) \in SUBSET Nat
         /\ \A i \in 0 .. Len(Header[m].to) : AddressAt(m, i) \in Contacts(m)
         /\ \A e \in Contacts(m) : \E i \in 0 .. Len(Header[m].to) : AddressAt(m, i) = e
<1>1. PICK to \in Seq(ToSet(Header[m].to)) : to = Header[m].to
  BY MailAssumption
<1>2. Len(to) \in Nat /\ DOMAIN to = 1 .. Len(to) /\ ToSet(to) = {to[i] : i \in 1 .. Len(to)}
  BY DEF ToSet
<1>3. Participants(m) \in SUBSET Nat
  BY <1>1, <1>2 DEF Participants
<1>4. ASSUME NEW i \in 0 .. Len(to) PROVE AddressAt(m, i) \in Contacts(m)
  <2>1. CASE i = 0
    BY <2>1 DEF AddressAt, Contacts, People
  <2>2. CASE i # 0
    <3>1. to[i] \in ToSet(to)
      BY <1>2, <2>2
    <3> QED BY <1>1, <2>2, <3>1 DEF AddressAt, Contacts, People
  <2> QED BY <2>1, <2>2
<1>5. ASSUME NEW e \in Contacts(m) PROVE \E i \in 0 .. Len(to) : AddressAt(m, i) = e
  <2>1. PICK q \in People(m) : e = Canonical(q)
    BY DEF Contacts
  <2>2. CASE q = Header[m].from
    BY <1>2, <2>1, <2>2 DEF AddressAt
  <2>3. CASE q \in ToSet(to)
    BY <1>2, <1>1, <2>1, <2>3 DEF AddressAt
  <2> QED BY <1>1, <2>1, <2>2, <2>3 DEF People
<1> QED BY <1>1, <1>2, <1>3, <1>4, <1>5

\* Every address is that of a participant: of the first position it stands at.
LEMMA ParticipantsCover ==
  ASSUME NEW m \in Email
  PROVE  /\ Participants(m) # {} /\ \A i \in Participants(m) : AddressAt(m, i) \in Contacts(m)
         /\ \A e \in Contacts(m) : \E i \in Participants(m) : AddressAt(m, i) = e
<1> DEFINE n == Len(Header[m].to)
<1>1. n \in Nat /\ Participants(m) \subseteq 0 .. n
  BY PositionsAreContacts DEF Participants
<1>2. \A i \in Participants(m) : AddressAt(m, i) \in Contacts(m)
  BY <1>1, PositionsAreContacts
<1>3. ASSUME NEW e \in Contacts(m) PROVE \E i \in Participants(m) : AddressAt(m, i) = e
  <2> DEFINE S == {i \in 0 .. n : AddressAt(m, i) = e}
  <2>1. S \in SUBSET Nat /\ S # {}
    BY <1>1, PositionsAreContacts
  <2>2. Min(S) \in S /\ \A y \in S : Min(S) <= y
    BY <2>1, LeastPosition
  <2>3. PICK i \in S : \A y \in S : i <= y
    BY <2>2
  <2>4. ASSUME NEW j \in 0 .. i - 1 PROVE AddressAt(m, j) # AddressAt(m, i)
    <3>1. j \in 0 .. n /\ ~(i <= j)
      BY <1>1, <2>3
    <3> QED BY <2>3, <3>1
  <2> QED BY <2>3, <2>4 DEF Participants
<1>4. Contacts(m) # {}
  BY DEF Contacts, People
<1> QED BY <1>2, <1>3, <1>4

LEMMA PersonIsLeft ==
  ASSUME NEW a \in Assembler, asm[a].mail \in Email, PeopleOK(a), asm[a].at \in Dedups
  PROVE  /\ Min(asm[a].left) \in asm[a].left /\ asm[a].left \in SUBSET Nat
         /\ Person(a).email = AddressAt(asm[a].mail, Min(asm[a].left))
         /\ Person(a).email \in Contacts(asm[a].mail) /\ Person(a).email \in Address
<1>1. asm[a].left # {} /\ asm[a].left \subseteq Participants(asm[a].mail)
  BY DEF PeopleOK
<1>2. asm[a].left \in SUBSET Nat
  BY <1>1, PositionsAreContacts
<1>3. Min(asm[a].left) \in asm[a].left
  BY <1>1, <1>2, LeastPosition
<1>4. AddressAt(asm[a].mail, Min(asm[a].left)) \in Contacts(asm[a].mail)
  BY <1>1, <1>3, ParticipantsCover
<1> QED BY <1>2, <1>3, <1>4 DEF Person, Address

LEMMA AInvIsSound == AInv => AssemblyInv
<1> SUFFICES ASSUME AInv PROVE AssemblyInv
  OBVIOUS
<1>1. AssemblyTypeOK
  <2>1. \A e \in Address : contacts[e] # None => contacts[e].user \in {Header[m].user : m \in Email}
    BY DEF AInv, ATypes, GraphTypes, ContactRecord, Owners
  <2>2. \A a \in Assembler : asm[a].tries \in 0 .. 3 /\ (Counted(a) => asm[a].thread \in Keys)
    <3> TAKE a \in Assembler
    <3>1. asm[a] \in AsmRecord
      BY DEF AInv, ATypes
    <3>2. asm[a].tries \in 0 .. 3 /\ asm[a].thread \in Keys \cup {None}
      BY <3>1 DEF AsmRecord
    <3> QED BY <3>2 DEF Counted
  <2> QED BY <2>1, <2>2 DEF AInv, ATypes, GraphTypes, StoreTypes, LetterTypes, AssemblyTypeOK
<1>2. ReplyJoinsParent
  <2> SUFFICES ASSUME NEW m \in Email, NEW p \in Email, row[m] # None, m \notin apart, Header[m].asked # <<>>,
                      p \in StoredWith(Head(Header[m].asked), Header[m].user)
               PROVE  row[m] = row[p]
    BY DEF ReplyJoinsParent
  <2>1. PICK q \in StoredWith(Head(Header[m].asked), Header[m].user) : row[q] = row[m]
    BY DEF AInv, RepliesJoined
  <2>2. q = p
    BY MailAssumption DEF StoredWith
  <2> QED BY <2>1, <2>2
<1>3. UsersStayApart
  BY DEF AInv, RowsOK, EdgesOK, Known, UsersStayApart
<1> QED BY <1>1, <1>2, <1>3 DEF AInv, AssemblyInv

\* Contacts and rows are written once.
Grows ==
  /\ \A e \in Address : contacts[e] # None => contacts'[e] = contacts[e]
  /\ \A m \in Email : row[m] # None => row'[m] = row[m]

LEMMA ContactsAreAddresses == \A m \in Email : Contacts(m) \subseteq Address
BY DEF Address

\* What a goroutine relies on outlasts the steps of the others.
LEMMA OthersGoOn ==
  ASSUME NEW b \in Assembler, AssemblerOK(b), asm[b] \in AsmRecord, asm'[b] = asm[b], Grows
  PROVE  AssemblerOK(b)'
<1> SUFFICES ASSUME asm[b].at # "idle"
             PROVE  asm[b].mail \in Email /\ ThreadOK(b)' /\ AskedOK(b)' /\ PeopleOK(b)' /\ LinksOK(b)'
  BY DEF AssemblerOK
<1>1. asm[b].mail \in Email /\ ThreadOK(b) /\ AskedOK(b) /\ PeopleOK(b) /\ LinksOK(b)
  BY DEF AssemblerOK
<1>2. OwnerOf(b)' = OwnerOf(b) /\ Person(b)' = Person(b)
  BY DEF OwnerOf, Person
<1>3. \A e \in Address : Known(e, OwnerOf(b)) => Known(e, OwnerOf(b))'
  BY <1>2 DEF Known, Grows
<1>4. ThreadOK(b)'
  BY <1>1, <1>2 DEF ThreadOK
<1>5. AskedOK(b)'
  <2>1. \A i : (\E p \in StoredWith(i, OwnerOf(b)) : row[p] = asm[b].thread)
               => \E p \in StoredWith(i, OwnerOf(b))' : row'[p] = asm[b].thread
    BY <1>2 DEF Grows, StoredWith
  <2> QED BY <1>1, <1>2, <2>1 DEF AskedOK
<1>6. PeopleOK(b)'
  <2>1. Contacts(asm[b].mail) \subseteq Address
    BY <1>1, ContactsAreAddresses
  <2> QED BY <1>1, <1>2, <1>3, <2>1 DEF PeopleOK
<1>7. LinksOK(b)'
  <2>1. asm[b].links \subseteq Address
    BY DEF AsmRecord
  <2>2. asm[b].at = "links" => Person(b).email \in Address
    BY <1>1, PersonIsLeft DEF Dedups
  <2> QED BY <1>1, <1>2, <1>3, <2>1, <2>2 DEF LinksOK
<1> QED BY <1>1, <1>4, <1>5, <1>6, <1>7

-------------------------------------------------------------------------------
\* The count of a thread.

Works(a, k) == Counted(a) /\ asm[a].thread = k
Workers(k) == {a \in Assembler : Counted(a) /\ asm[a].thread = k}
RowsOf(k) == {m \in Email : row[m] = k}

LEMMA WorkersMove ==
  ASSUME NEW a \in Assembler, NEW k, \A b \in Assembler \ {a} : asm'[b] = asm[b]
  PROVE  /\ Cardinality(Workers(k)) \in Nat
         /\ (Works(a, k)' <=> Works(a, k)) => Workers(k)' = Workers(k)
         /\ ~Works(a, k) /\ Works(a, k)' => Cardinality(Workers(k)') = Cardinality(Workers(k)) + 1
         /\ Works(a, k) /\ ~Works(a, k)' => Cardinality(Workers(k)') = Cardinality(Workers(k)) - 1
<1>1. IsFiniteSet(Workers(k)) /\ Cardinality(Workers(k)) \in Nat
  BY MailAssumption, FS_Subset, FS_CardinalityType DEF Workers
<1>2. \A b \in Assembler \ {a} : b \in Workers(k)' <=> b \in Workers(k)
  BY DEF Workers, Counted
<1>3. (a \in Workers(k) <=> Works(a, k)) /\ (a \in Workers(k)' <=> Works(a, k)')
  BY DEF Workers, Works
<1>4. Workers(k) \subseteq Assembler /\ Workers(k)' \subseteq Assembler
  BY DEF Workers
<1>5. ASSUME Works(a, k)' <=> Works(a, k) PROVE Workers(k)' = Workers(k)
  BY <1>2, <1>3, <1>4, <1>5
<1>6. ASSUME ~Works(a, k), Works(a, k)' PROVE Cardinality(Workers(k)') = Cardinality(Workers(k)) + 1
  <2>1. Workers(k)' = Workers(k) \cup {a} /\ a \notin Workers(k)
    BY <1>2, <1>3, <1>4, <1>6
  <2> QED BY <1>1, <2>1, FS_AddElement
<1>7. ASSUME Works(a, k), ~Works(a, k)' PROVE Cardinality(Workers(k)') = Cardinality(Workers(k)) - 1
  <2>1. Workers(k)' = Workers(k) \ {a} /\ a \in Workers(k)
    BY <1>2, <1>3, <1>4, <1>7
  <2> QED BY <1>1, <2>1, FS_RemoveElement
<1> QED BY <1>1, <1>5, <1>6, <1>7

LEMMA CountIs ==
  CountCoversMail <=>
    \A k \in Keys : threads[k].count = Cardinality(RowsOf(k)) + Cardinality(Workers(k)) + wasted[k]
BY DEF CountCoversMail, RowsOf, Workers

LEMMA CountIsNext ==
  CountCoversMail' <=>
    \A k \in Keys : threads'[k].count = Cardinality(RowsOf(k)') + Cardinality(Workers(k)') + wasted'[k]
BY DEF CountCoversMail, RowsOf, Workers

LEMMA RowsAreCounted == \A k : IsFiniteSet(RowsOf(k)) /\ Cardinality(RowsOf(k)) \in Nat
<1> TAKE k
<1>1. IsFiniteSet(RowsOf(k))
  BY MailAssumption, FS_Subset DEF RowsOf
<1> QED BY <1>1, FS_CardinalityType

LEMMA CountStays ==
  ASSUME CountCoversMail, NEW a \in Assembler, \A b \in Assembler \ {a} : asm'[b] = asm[b],
         UNCHANGED <<threads, row, wasted>>, \A k \in Keys : Works(a, k)' <=> Works(a, k)
  PROVE  CountCoversMail'
<1>1. ASSUME NEW k \in Keys PROVE Workers(k)' = Workers(k) /\ RowsOf(k)' = RowsOf(k)
  BY WorkersMove DEF RowsOf
<1> QED BY <1>1, CountIs, CountIsNext

\* A goroutine gives up: what it counted is wasted.
LEMMA WasteCounts ==
  ASSUME AInv, NEW a \in Assembler, \A b \in Assembler \ {a} : asm'[b] = asm[b], ~Counted(a)',
         Waste(a), UNCHANGED <<threads, row>>
  PROVE  CountCoversMail' /\ wasted' \in [Keys -> Nat]
<1>1. wasted \in [Keys -> Nat] /\ threads \in [Keys -> [count : Nat, last : 0 .. Today]]
  BY DEF AInv, ATypes, StoreTypes
<1>2. \A k \in Keys : threads[k].count = Cardinality(RowsOf(k)) + Cardinality(Workers(k)) + wasted[k]
  BY CountIs DEF AInv
<1>3. wasted' \in [Keys -> Nat]
  <2>1. Counted(a) => asm[a].thread \in Keys
    <3>1. asm[a] \in AsmRecord
      BY DEF AInv, ATypes
    <3> QED BY <3>1 DEF Counted, AsmRecord
  <2>2. CASE Counted(a)
    <3>1. PICK k \in Keys : k = asm[a].thread
      BY <2>1, <2>2
    <3>2. wasted' = [wasted EXCEPT ![k] = wasted[k] + 1]
      BY <2>2, <3>1 DEF Waste
    <3> QED BY <1>1, <3>2
  <2>3. CASE ~Counted(a)
    BY <1>1, <2>3 DEF Waste
  <2> QED BY <2>2, <2>3
<1>4. ASSUME NEW k \in Keys
      PROVE  threads'[k].count = Cardinality(RowsOf(k)') + Cardinality(Workers(k)') + wasted'[k]
  <2>1. RowsOf(k)' = RowsOf(k) /\ Cardinality(RowsOf(k)) \in Nat
    BY RowsAreCounted DEF RowsOf
  <2>2. ~Works(a, k)'
    BY DEF Works
  <2>3. CASE Works(a, k)
    <3>1. wasted'[k] = wasted[k] + 1
      BY <1>1, <2>3 DEF Waste, Works
    <3>2. Cardinality(Workers(k)') = Cardinality(Workers(k)) - 1 /\ Cardinality(Workers(k)) \in Nat
      BY <2>2, <2>3, WorkersMove
    <3> QED BY <1>1, <1>2, <2>1, <3>1, <3>2
  <2>4. CASE ~Works(a, k)
    <3>1. wasted'[k] = wasted[k]
      BY <1>1, <2>4 DEF Waste, Works
    <3>2. Workers(k)' = Workers(k)
      BY <2>2, <2>4, WorkersMove
    <3> QED BY <1>2, <2>1, <3>1, <3>2
  <2> QED BY <2>3, <2>4
<1> QED BY <1>3, <1>4, CountIsNext

-------------------------------------------------------------------------------
\* What the steps have in common.

LEMMA AsmMoves ==
  ASSUME ATypes, NEW a \in Assembler, NEW x \in AsmRecord, Goes(a, x)
  PROVE  /\ asm' \in [Assembler -> AsmRecord] /\ asm'[a] = x
         /\ \A b \in Assembler \ {a} : asm'[b] = asm[b]
BY DEF ATypes, Goes

LEMMA RowsStay ==
  ASSUME RowsOK, RepliesJoined, Grows, UNCHANGED <<row, apart>>
  PROVE  RowsOK' /\ RepliesJoined'
<1>1. RowsOK'
  BY ContactsAreAddresses DEF RowsOK, Grows, Known
<1>2. RepliesJoined'
  BY DEF RepliesJoined, StoredWith
<1> QED BY <1>1, <1>2

LEMMA EdgesStay ==
  ASSUME EdgesOK, GraphTypes, Grows, UNCHANGED similar
  PROVE  EdgesOK'
<1> SUFFICES ASSUME NEW s \in similar
             PROVE  /\ s[1] # s[2] /\ contacts'[s[1]] # None /\ contacts'[s[2]] # None
                    /\ contacts'[s[1]].user = contacts'[s[2]].user
  BY DEF EdgesOK
<1>1. s[1] \in Address /\ s[2] \in Address
  BY DEF GraphTypes
<1> QED BY <1>1 DEF EdgesOK, Grows

LEMMA PublishStays ==
  ASSUME StoredIsPublished, NEW a \in Assembler, \A b \in Assembler \ {a} : asm'[b] = asm[b], UNCHANGED row,
         ingested \subseteq ingested', deadLetters \subseteq deadLetters', silent \subseteq silent',
         asm[a].at = "publish" => \/ asm[a].mail \in ingested' \cup deadLetters' \cup silent'
                                  \/ asm'[a].at = "publish" /\ asm'[a].mail = asm[a].mail
  PROVE  StoredIsPublished'
<1> SUFFICES ASSUME NEW m \in Email, row[m] # None
             PROVE  \/ m \in ingested' \cup deadLetters' \cup silent'
                    \/ \E b \in Assembler : asm'[b].at = "publish" /\ asm'[b].mail = m
  BY DEF StoredIsPublished, IsAt
<1>1. CASE m \in ingested \cup deadLetters \cup silent
  BY <1>1
<1>2. ASSUME NEW b \in Assembler, asm[b].at = "publish", asm[b].mail = m
      PROVE  \/ m \in ingested' \cup deadLetters' \cup silent'
             \/ \E d \in Assembler : asm'[d].at = "publish" /\ asm'[d].mail = m
  BY <1>2
<1> QED BY <1>1, <1>2 DEF StoredIsPublished, IsAt

\* A goroutine moves, and no row, no count and no event with it.
LEMMA QuietMove ==
  ASSUME AInv, NEW a \in Assembler, NEW x \in AsmRecord, Goes(a, x), asm[a].at # "publish",
         Grows, GraphTypes', EdgesOK', upsets' \in 0 .. MaxUpsets, taken' \in 0 .. MaxAssemblies,
         UNCHANGED <<threads, row, wasted, apart, ingested, deadLetters, silent>>,
         AssemblerOK(a)', x.at \in Threaded <=> asm[a].at \in Threaded,
         x.at \in Threaded => x.thread = asm[a].thread
  PROVE  AInv'
<1>1. /\ asm' \in [Assembler -> AsmRecord] /\ asm'[a] = x
      /\ \A b \in Assembler \ {a} : asm'[b] = asm[b]
  BY AsmMoves DEF AInv
<1>2. \A b \in Assembler \ {a} : AssemblerOK(b)'
  BY <1>1, OthersGoOn DEF AInv, ATypes
<1>3. RowsOK' /\ RepliesJoined'
  BY RowsStay DEF AInv
<1>4. StoredIsPublished'
  BY <1>1, PublishStays DEF AInv
<1>5. Counted(a) <=> asm[a].at \in Threaded
  BY CountedPlace DEF AInv, ATypes
<1>6. Counted(a)' <=> x.at \in Threaded
  BY <1>1, NoneIsNothing DEF Counted, AssemblerOK, ThreadOK, Threaded, Dedups
<1>7. \A k \in Keys : Works(a, k)' <=> Works(a, k)
  BY <1>1, <1>5, <1>6 DEF Works
<1>8. CountCoversMail'
  BY <1>1, <1>7, CountStays DEF AInv
<1>9. StoreTypes' /\ LetterTypes'
  BY DEF AInv, ATypes, StoreTypes, LetterTypes
<1> QED BY <1>1, <1>2, <1>3, <1>4, <1>8, <1>9 DEF AInv, ATypes

LEMMA UpsetTypes == ASSUME AInv PROVE /\ Upset => upsets' \in 0 .. MaxUpsets
                                      /\ UNCHANGED upsets => upsets' \in 0 .. MaxUpsets
                                      /\ UNCHANGED taken => taken' \in 0 .. MaxAssemblies
BY AssemblyBounds DEF AInv, ATypes, LetterTypes, Upset

LEMMA NothingGrows ==
  ASSUME AInv, UNCHANGED <<graphVars, row>>
  PROVE  Grows /\ GraphTypes' /\ EdgesOK'
BY DEF AInv, ATypes, GraphTypes, EdgesOK, graphVars, Grows

LEMMA IdleIsRecord == Unassigned \in AsmRecord /\ Unassigned.at = "idle"
<1>1. <<>> \in Seq(Ids)
  OBVIOUS
<1> QED BY <1>1 DEF Unassigned, AsmRecord, Places, None

\* AssembleEvent returns an error, or the goroutine is gone.
LEMMA GiveUpKeeps ==
  ASSUME AInv, NEW a \in Assembler, GiveUp(a), upsets' \in 0 .. MaxUpsets, UNCHANGED taken,
         UNCHANGED <<threads, graphVars, row, ingested, deadLetters, apart>>,
         silent' = silent \/ (asm[a].mail \in Email /\ silent' = silent \cup {asm[a].mail}),
         asm[a].at = "publish" => asm[a].mail \in silent'
  PROVE  AInv'
<1>1. /\ asm' \in [Assembler -> AsmRecord] /\ asm'[a] = Unassigned
      /\ \A b \in Assembler \ {a} : asm'[b] = asm[b]
  BY AsmMoves, IdleIsRecord DEF AInv, GiveUp
<1>2. Grows /\ GraphTypes' /\ EdgesOK'
  BY NothingGrows
<1>3. \A b \in Assembler \ {a} : AssemblerOK(b)'
  BY <1>1, <1>2, OthersGoOn DEF AInv, ATypes
<1>4. AssemblerOK(a)'
  BY <1>1, IdleIsRecord DEF AssemblerOK
<1>5. RowsOK' /\ RepliesJoined'
  BY <1>2, RowsStay DEF AInv
<1>6. StoredIsPublished'
  BY <1>1, PublishStays DEF AInv
<1>7. ~Counted(a)'
  BY <1>1, IdleIsRecord DEF Counted
<1>8. CountCoversMail' /\ wasted' \in [Keys -> Nat]
  BY <1>1, <1>7, WasteCounts DEF GiveUp
<1>9. StoreTypes' /\ LetterTypes'
  BY <1>8 DEF AInv, ATypes, StoreTypes, LetterTypes
<1> QED BY <1>1, <1>2, <1>3, <1>4, <1>5, <1>6, <1>8, <1>9 DEF AInv, ATypes

-------------------------------------------------------------------------------
\* FindOrCreateThread.

LEMMA TakeMailKeeps == ASSUME AInv, NEW a \in Assembler, NEW m \in Email, TakeMail(a, m) PROVE AInv'
<1> DEFINE x == [Unassigned EXCEPT !.at = "ask", !.mail = m, !.asked = Header[m].asked]
<1>1. Header[m].asked \in Seq(Ids)
  <2>1. PICK s : s = Header[m].asked
    OBVIOUS
  <2>2. s \in Seq(ToSet(s)) /\ ToSet(s) \subseteq Ids
    BY <2>1, MailAssumption DEF Ids
  <2>3. s \in Seq(Ids)
    <3>1. Len(s) \in Nat /\ \A i \in 1 .. Len(s) : s[i] \in ToSet(s)
      BY <2>2
    <3> QED BY <2>2, <3>1, IsASeq
  <2> QED BY <2>1, <2>3
<1>2. x \in AsmRecord /\ x.at = "ask" /\ x.mail = m /\ x.asked = Header[m].asked /\ ~x.fuzzy /\ ~x.apart /\ x.links = {}
  BY <1>1, IdleIsRecord DEF Unassigned, AsmRecord, Places
<1>3. Goes(a, x) /\ asm[a].at = "idle" /\ taken' \in 0 .. MaxAssemblies
  BY AssemblyBounds DEF TakeMail, IsAt, AInv, ATypes, LetterTypes
<1> HIDE DEF x
<1>4. asm'[a] = x
  BY <1>2, <1>3, AsmMoves DEF AInv
<1>5. Grows /\ GraphTypes' /\ EdgesOK'
  BY NothingGrows DEF TakeMail
<1>6. AssemblerOK(a)'
  BY <1>2, <1>4 DEF AssemblerOK, ThreadOK, AskedOK, PeopleOK, LinksOK, Threaded, Dedups, OwnerOf
<1>7. UNCHANGED <<threads, row, wasted, apart, ingested, deadLetters, silent>> /\ upsets' \in 0 .. MaxUpsets
  BY UpsetTypes DEF TakeMail, busVars
<1> QED BY <1>2, <1>3, <1>5, <1>6, <1>7, QuietMove DEF Threaded, Dedups

\* What is known of a goroutine that has work.
LEMMA AtWork ==
  ASSUME AInv, NEW a \in Assembler, asm[a].at # "idle"
  PROVE  /\ asm[a] \in AsmRecord /\ asm[a].mail \in Email
         /\ ThreadOK(a) /\ AskedOK(a) /\ PeopleOK(a) /\ LinksOK(a)
         /\ KeyOf(asm[a].mail) \in Keys /\ KeyOf(asm[a].mail).user = OwnerOf(a)
<1>1. asm[a] \in AsmRecord /\ asm[a].mail \in Email /\ ThreadOK(a) /\ AskedOK(a) /\ PeopleOK(a) /\ LinksOK(a)
  BY DEF AInv, ATypes, AssemblerOK
<1>2. KeyOf(asm[a].mail) \in Keys /\ KeyOf(asm[a].mail).user = OwnerOf(a)
  BY <1>1 DEF KeyOf, Keys, OwnerOf
<1> QED BY <1>1, <1>2

\* Before a thread is counted up, a step is about nothing but the goroutine.
LEMMA ThreadingMove ==
  ASSUME AInv, NEW a \in Assembler, asm[a].at \in {"ask", "join", "create"},
         NEW x \in AsmRecord, Goes(a, x), x.at \in {"ask", "join", "create"}, x.mail = asm[a].mail, x.links = {},
         x.at = "join" => x.thread \in Keys /\ x.thread.user = OwnerOf(a),
         x.at = "ask" /\ ~x.apart => x.asked = Header[x.mail].asked,
         x.at = "create" \/ x.fuzzy => x.apart \/ Header[x.mail].asked = <<>>,
         x.at = "join" /\ ~x.apart /\ Header[x.mail].asked # <<>> =>
            \E p \in StoredWith(Head(Header[x.mail].asked), OwnerOf(a)) : row[p] = x.thread,
         UNCHANGED <<threads, graphVars, row, busVars, apart, wasted, taken>>, upsets' \in 0 .. MaxUpsets
  PROVE  AInv'
<1>1. asm'[a] = x
  BY AsmMoves DEF AInv
<1>2. Grows /\ GraphTypes' /\ EdgesOK'
  BY NothingGrows
<1>3. x.mail \in Email /\ OwnerOf(a)' = OwnerOf(a)
  BY <1>1, AtWork DEF OwnerOf
<1>4. \A i, u : StoredWith(i, u)' = StoredWith(i, u)
  BY DEF StoredWith
<1>5. AssemblerOK(a)'
  BY <1>1, <1>3, <1>4 DEF AssemblerOK, ThreadOK, AskedOK, PeopleOK, LinksOK, Threaded, Dedups
<1>6. UNCHANGED <<threads, row, wasted, apart, ingested, deadLetters, silent>> /\ taken' \in 0 .. MaxAssemblies
  BY UpsetTypes DEF busVars
<1> QED BY <1>2, <1>5, <1>6, QuietMove DEF Threaded, Dedups

LEMMA LookUpKeeps == ASSUME AInv, NEW a \in Assembler, LookUp(a) PROVE AInv'
<1>1. asm[a].at = "ask" /\ asm[a].asked # <<>>
  BY DEF LookUp, IsAt
<1>2. /\ asm[a] \in AsmRecord /\ asm[a].mail \in Email /\ AskedOK(a) /\ LinksOK(a)
  BY <1>1, AtWork
<1>3. PICK y \in AsmRecord : y = asm[a]
  BY <1>2
<1>4. y.at = "ask" /\ y.links = {} /\ (y.fuzzy => y.apart \/ Header[y.mail].asked = <<>>)
      /\ (~y.apart => y.asked = Header[y.mail].asked)
  BY <1>1, <1>2, <1>3 DEF AskedOK, LinksOK
<1>5. UNCHANGED <<threads, graphVars, row, busVars, apart, wasted, taken>> /\ upsets' \in 0 .. MaxUpsets
  BY UpsetTypes DEF LookUp
<1>6. CASE Goes(a, [asm[a] EXCEPT !.asked = Tail(@), !.apart = TRUE])
  <2> DEFINE x == [y EXCEPT !.asked = Tail(@), !.apart = TRUE]
  <2>1. y.asked \in Seq(Ids) /\ y.asked # <<>>
    BY <1>1, <1>3 DEF AsmRecord
  <2>2. Tail(y.asked) \in Seq(Ids)
    BY <2>1
  <2>3. x \in AsmRecord /\ x.at = "ask" /\ x.apart /\ x.mail = y.mail /\ x.links = y.links
    BY <1>4, <2>2 DEF AsmRecord
  <2>4. Goes(a, x)
    BY <1>3, <1>6
  <2> HIDE DEF x
  <2> QED BY <1>1, <1>3, <1>4, <1>5, <2>3, <2>4, ThreadingMove
<1>7. ASSUME NEW p \in StoredWith(Head(asm[a].asked), Header[asm[a].mail].user),
             Goes(a, [Going(a, "join") EXCEPT !.thread = row[p]])
      PROVE  AInv'
  <2> DEFINE x == [y EXCEPT !.at = "join", !.thread = row[p]]
  <2>1. row[p] \in Keys /\ row[p].user = Header[p].user /\ Header[p].user = Header[y.mail].user
    BY <1>3, <1>7 DEF StoredWith, AInv, ATypes, StoreTypes, RowsOK
  <2>2. /\ x \in AsmRecord /\ x.at = "join" /\ x.thread = row[p] /\ x.apart = y.apart /\ x.mail = y.mail
        /\ x.links = y.links /\ x.fuzzy = y.fuzzy
    BY <1>4, <2>1 DEF AsmRecord, Places
  <2>3. Goes(a, x)
    BY <1>3, <1>7 DEF Going
  <2>4. OwnerOf(a) = Header[y.mail].user
    BY <1>3 DEF OwnerOf
  <2> HIDE DEF x
  <2>5. ~x.apart => p \in StoredWith(Head(Header[x.mail].asked), OwnerOf(a))
    BY <1>3, <1>4, <1>7, <2>2, <2>4
  <2> QED BY <1>1, <1>3, <1>4, <1>5, <2>1, <2>2, <2>3, <2>4, <2>5, ThreadingMove
<1> QED BY <1>6, <1>7 DEF LookUp

LEMMA FuzzyMatchKeeps == ASSUME AInv, NEW a \in Assembler, FuzzyMatch(a) PROVE AInv'
<1>1. asm[a].at = "ask" /\ asm[a].asked = <<>>
  BY DEF FuzzyMatch, IsAt
<1>2. /\ asm[a] \in AsmRecord /\ asm[a].mail \in Email /\ AskedOK(a) /\ LinksOK(a)
  BY <1>1, AtWork
<1>3. PICK y \in AsmRecord : y = asm[a]
  BY <1>2
<1>4. y.at = "ask" /\ y.links = {} /\ (y.apart \/ Header[y.mail].asked = <<>>)
  BY <1>1, <1>2, <1>3 DEF AskedOK, LinksOK
<1>5. UNCHANGED <<threads, graphVars, row, busVars, apart, wasted, taken>> /\ upsets' \in 0 .. MaxUpsets
  BY UpsetTypes DEF FuzzyMatch
<1>6. CASE Goes(a, Going(a, "create"))
  <2> DEFINE x == [y EXCEPT !.at = "create"]
  <2>1. x \in AsmRecord /\ x.at = "create" /\ x.apart = y.apart /\ x.mail = y.mail /\ x.links = y.links
    BY <1>4 DEF AsmRecord, Places
  <2>2. Goes(a, x)
    BY <1>3, <1>6 DEF Going
  <2> HIDE DEF x
  <2> QED BY <1>1, <1>3, <1>4, <1>5, <2>1, <2>2, ThreadingMove
<1>7. ASSUME NEW k \in Candidates(asm[a].mail), Goes(a, [Going(a, "join") EXCEPT !.thread = k, !.fuzzy = TRUE])
      PROVE  AInv'
  <2> DEFINE x == [y EXCEPT !.at = "join", !.thread = k, !.fuzzy = TRUE]
  <2>1. k \in Keys /\ k.user = OwnerOf(a)
    BY <1>7 DEF Candidates, OwnerOf
  <2>2. /\ x \in AsmRecord /\ x.at = "join" /\ x.thread = k /\ x.apart = y.apart /\ x.mail = y.mail /\ x.links = y.links
    BY <1>4, <2>1 DEF AsmRecord, Places
  <2>3. Goes(a, x)
    BY <1>3, <1>7 DEF Going
  <2> HIDE DEF x
  <2> QED BY <1>1, <1>3, <1>4, <1>5, <2>1, <2>2, <2>3, ThreadingMove
<1> QED BY <1>6, <1>7 DEF FuzzyMatch

\* A thread is counted up for the goroutine, which has yet to store the row.
LEMMA CountsUp ==
  ASSUME AInv, NEW a \in Assembler, asm[a].at \in {"join", "create"}, NEW k \in Keys, k.user = OwnerOf(a),
         ~asm[a].apart /\ Header[asm[a].mail].asked # <<>> =>
            \E p \in StoredWith(Head(Header[asm[a].mail].asked), OwnerOf(a)) : row[p] = k,
         Goes(a, WithThread(a, k)), NEW t \in 0 .. Today,
         threads' = [threads EXCEPT ![k] = [count |-> threads[k].count + 1, last |-> t]],
         UNCHANGED <<graphVars, row, busVars, apart, wasted, taken, upsets>>
  PROVE  AInv'
<1>1. /\ asm[a] \in AsmRecord /\ asm[a].mail \in Email /\ LinksOK(a) /\ AskedOK(a)
  BY AtWork
<1>2. PICK y \in AsmRecord : y = asm[a]
  BY <1>1
<1> DEFINE x == [y EXCEPT !.at = "contact", !.thread = k, !.left = Participants(y.mail)]
<1>3. Participants(y.mail) \in SUBSET Nat
  BY <1>1, <1>2, PositionsAreContacts
<1>4. /\ x \in AsmRecord /\ x.at = "contact" /\ x.thread = k /\ x.apart = y.apart /\ x.mail = y.mail
      /\ x.links = y.links /\ x.fuzzy = y.fuzzy /\ x.left = Participants(y.mail)
  BY <1>3 DEF AsmRecord, Places, Threaded, Dedups
<1>5. Goes(a, x)
  BY <1>2 DEF WithThread, Going
<1>6. y.links = {} /\ (y.fuzzy => y.apart \/ Header[y.mail].asked = <<>>)
  BY <1>1, <1>2 DEF LinksOK, AskedOK
<1> HIDE DEF x
<1>7. asm' \in [Assembler -> AsmRecord] /\ asm'[a] = x /\ \A b \in Assembler \ {a} : asm'[b] = asm[b]
  BY <1>4, <1>5, AsmMoves DEF AInv
<1>8. Grows /\ GraphTypes' /\ EdgesOK'
  BY NothingGrows
<1>9. \A b \in Assembler \ {a} : AssemblerOK(b)'
  BY <1>7, <1>8, OthersGoOn DEF AInv, ATypes
<1>10. AssemblerOK(a)'
  <2>1. \A i, u : StoredWith(i, u)' = StoredWith(i, u)
    BY DEF StoredWith
  <2>2. OwnerOf(a)' = OwnerOf(a)
    BY <1>2, <1>4, <1>7 DEF OwnerOf
  <2>3. PeopleOK(a)'
    BY <1>1, <1>2, <1>4, <1>7, ParticipantsCover DEF PeopleOK, Threaded, Dedups
  <2>4. ThreadOK(a)' /\ LinksOK(a)'
    BY <1>4, <1>6, <1>7, <2>2 DEF ThreadOK, LinksOK
  <2>5. AskedOK(a)'
    BY <1>2, <1>4, <1>6, <1>7, <2>1, <2>2 DEF AskedOK
  <2> QED BY <1>1, <1>2, <1>4, <1>7, <2>3, <2>4, <2>5 DEF AssemblerOK
<1>11. RowsOK' /\ RepliesJoined'
  BY <1>8, RowsStay DEF AInv
<1>12. StoredIsPublished'
  BY <1>7, PublishStays DEF AInv, busVars
<1>13. threads \in [Keys -> [count : Nat, last : 0 .. Today]]
  BY DEF AInv, ATypes, StoreTypes
<1>14. /\ threads' \in [Keys -> [count : Nat, last : 0 .. Today]]
       /\ threads'[k].count = threads[k].count + 1
       /\ \A j \in Keys \ {k} : threads'[j] = threads[j]
  <2> DEFINE v == [count |-> threads[k].count + 1, last |-> t]
  <2>1. v \in [count : Nat, last : 0 .. Today] /\ v.count = threads[k].count + 1
    BY <1>13
  <2>2. threads' = [threads EXCEPT ![k] = v]
    OBVIOUS
  <2> HIDE DEF v
  <2> QED BY <1>13, <2>1, <2>2
<1>15. CountCoversMail'
  <2>1. ~Counted(a)
    BY DEF Counted
  <2>2. Counted(a)'
    BY <1>4, <1>7, NoneIsNothing DEF Counted
  <2>3. \A j : ~Works(a, j) /\ (Works(a, j)' <=> j = k)
    BY <1>4, <1>7, <2>1, <2>2 DEF Works
  <2>4. \A j \in Keys : threads[j].count = Cardinality(RowsOf(j)) + Cardinality(Workers(j)) + wasted[j]
    BY CountIs DEF AInv
  <2>5. ASSUME NEW j \in Keys
        PROVE  threads'[j].count = Cardinality(RowsOf(j)') + Cardinality(Workers(j)') + wasted'[j]
    <3>1. RowsOf(j)' = RowsOf(j) /\ Cardinality(RowsOf(j)) \in Nat /\ Cardinality(Workers(j)) \in Nat
      BY <1>7, RowsAreCounted, WorkersMove DEF RowsOf
    <3>2. wasted[j] \in Nat /\ threads[j].count \in Nat
      BY <1>13 DEF AInv, ATypes, StoreTypes
    <3>3. CASE j = k
      <4>1. Cardinality(Workers(j)') = Cardinality(Workers(j)) + 1
        BY <1>7, <2>3, <3>3, WorkersMove
      <4> QED BY <1>14, <2>4, <3>1, <3>2, <3>3, <4>1
    <3>4. CASE j # k
      <4>1. Workers(j)' = Workers(j)
        BY <1>7, <2>3, <3>4, WorkersMove
      <4> QED BY <1>14, <2>4, <3>1, <3>4, <4>1
    <3> QED BY <3>3, <3>4
  <2> QED BY <2>5, CountIsNext
<1>16. StoreTypes' /\ LetterTypes'
  BY <1>14 DEF AInv, ATypes, StoreTypes, LetterTypes, busVars
<1> QED BY <1>7, <1>8, <1>9, <1>10, <1>11, <1>12, <1>15, <1>16 DEF AInv, ATypes

\* Giving up before anything was counted.
LEMMA EndsEarly ==
  ASSUME AInv, NEW a \in Assembler, asm[a].at \in {"join", "create"}, Goes(a, Unassigned), upsets' \in 0 .. MaxUpsets,
         UNCHANGED <<threads, graphVars, row, busVars, apart, wasted, taken>>
  PROVE  AInv'
<1>1. ~Counted(a)
  BY DEF Counted
<1>2. GiveUp(a)
  BY <1>1 DEF GiveUp, Waste
<1>3. silent' = silent /\ UNCHANGED <<threads, graphVars, row, ingested, deadLetters, apart>>
  BY DEF busVars
<1> QED BY <1>2, <1>3, GiveUpKeeps

LEMMA IncrementKeepsMail == ASSUME AInv, NEW a \in Assembler, IncrementAndReturn(a) PROVE AInv'
<1>1. asm[a].at = "join"
  BY DEF IncrementAndReturn, IsAt
<1>2. /\ asm[a] \in AsmRecord /\ asm[a].mail \in Email /\ ThreadOK(a) /\ AskedOK(a) /\ LinksOK(a)
  BY <1>1, AtWork
<1>3. asm[a].thread \in Keys /\ asm[a].thread.user = OwnerOf(a)
  BY <1>1, <1>2 DEF ThreadOK
<1>4. PICK k \in Keys : k = asm[a].thread
  BY <1>3
<1>5. CASE /\ threads' = [threads EXCEPT ![k] = [count |-> threads[k].count + 1, last |-> Today]]
           /\ Goes(a, WithThread(a, k)) /\ UNCHANGED upsets
  <2>1. UNCHANGED <<graphVars, row, busVars, apart, wasted, taken, upsets>> /\ Today \in 0 .. Today
    BY <1>5, MailAssumption DEF IncrementAndReturn
  <2>2. ~asm[a].apart /\ Header[asm[a].mail].asked # <<>> =>
            \E p \in StoredWith(Head(Header[asm[a].mail].asked), OwnerOf(a)) : row[p] = k
    BY <1>1, <1>2, <1>4 DEF AskedOK
  <2> QED BY <1>1, <1>3, <1>4, <1>5, <2>1, <2>2, CountsUp
<1>6. CASE Upset /\ UNCHANGED threads
           /\ Goes(a, IF asm[a].fuzzy THEN [Going(a, "create") EXCEPT !.thread = None] ELSE Unassigned)
  <2>1. UNCHANGED <<threads, graphVars, row, busVars, apart, wasted, taken>> /\ upsets' \in 0 .. MaxUpsets
    BY <1>6, UpsetTypes DEF IncrementAndReturn
  <2>2. CASE ~asm[a].fuzzy
    BY <1>1, <1>6, <2>1, <2>2, EndsEarly
  <2>3. CASE asm[a].fuzzy
    <3>1. PICK y \in AsmRecord : y = asm[a]
      BY <1>2
    <3> DEFINE x == [y EXCEPT !.at = "create", !.thread = None]
    <3>2. /\ x \in AsmRecord /\ x.at = "create" /\ x.apart = y.apart /\ x.mail = y.mail /\ x.links = y.links
      BY DEF AsmRecord, Places
    <3>3. Goes(a, x)
      BY <1>6, <2>3, <3>1 DEF Going
    <3> HIDE DEF x
    <3>4. (y.apart \/ Header[y.mail].asked = <<>>) /\ y.links = {}
      BY <1>1, <1>2, <2>3, <3>1 DEF AskedOK, LinksOK
    <3> QED BY <1>1, <2>1, <3>1, <3>2, <3>3, <3>4, ThreadingMove
  <2> QED BY <2>2, <2>3
<1> QED BY <1>4, <1>5, <1>6 DEF IncrementAndReturn

LEMMA CreateThreadKeeps == ASSUME AInv, NEW a \in Assembler, CreateNewThread(a) PROVE AInv'
<1>1. asm[a].at = "create"
  BY DEF CreateNewThread, IsAt
<1>2. /\ asm[a].mail \in Email /\ AskedOK(a)
      /\ KeyOf(asm[a].mail) \in Keys /\ KeyOf(asm[a].mail).user = OwnerOf(a)
  BY <1>1, AtWork
<1>3. PICK k \in Keys : k = KeyOf(asm[a].mail)
  BY <1>2
<1>4. CASE threads' = [threads EXCEPT ![k] = Upserted(@, asm[a].mail)] /\ Goes(a, WithThread(a, k)) /\ UNCHANGED upsets
  <2>1. UNCHANGED <<graphVars, row, busVars, apart, wasted, taken, upsets>>
    BY <1>4 DEF CreateNewThread
  <2>2. PICK t \in 0 .. Today : t = Header[asm[a].mail].day
    BY <1>2, AssemblyBounds
  <2>3. threads' = [threads EXCEPT ![k] = [count |-> threads[k].count + 1, last |-> t]]
    BY <1>4, <2>2 DEF Upserted
  <2>4. asm[a].apart \/ Header[asm[a].mail].asked = <<>>
    BY <1>1, <1>2 DEF AskedOK
  <2> QED BY <1>1, <1>2, <1>3, <1>4, <2>1, <2>2, <2>3, <2>4, CountsUp
<1>5. CASE Upset /\ Goes(a, Unassigned) /\ UNCHANGED threads
  <2>1. UNCHANGED <<threads, graphVars, row, busVars, apart, wasted, taken>> /\ upsets' \in 0 .. MaxUpsets
    BY <1>5, UpsetTypes DEF CreateNewThread
  <2> QED BY <1>1, <1>5, <2>1, EndsEarly
<1> QED BY <1>3, <1>4, <1>5 DEF CreateNewThread

-------------------------------------------------------------------------------
\* Dedup.

\* The work on the participants goes on, with thread and mail as they were.
LEMMA DedupMove ==
  ASSUME AInv, NEW a \in Assembler, asm[a].at \in Dedups, NEW x \in AsmRecord, Goes(a, x), x.at \in Threaded,
         x.mail = asm[a].mail, x.thread = asm[a].thread, x.apart = asm[a].apart, x.fuzzy = asm[a].fuzzy,
         Grows, GraphTypes', EdgesOK', PeopleOK(a)', LinksOK(a)',
         UNCHANGED <<threads, row, busVars, apart, wasted, taken>>, upsets' \in 0 .. MaxUpsets
  PROVE  AInv'
<1>1. asm'[a] = x
  BY AsmMoves DEF AInv
<1>2. asm[a].mail \in Email /\ ThreadOK(a) /\ AskedOK(a)
  BY AtWork DEF Dedups
<1>3. OwnerOf(a)' = OwnerOf(a) /\ \A i, u : StoredWith(i, u)' = StoredWith(i, u)
  BY <1>1 DEF OwnerOf, StoredWith
<1>4. ThreadOK(a)'
  BY <1>1, <1>2, <1>3 DEF ThreadOK, Threaded
<1>5. AskedOK(a)'
  BY <1>1, <1>2, <1>3 DEF AskedOK, Threaded, Dedups
<1>6. AssemblerOK(a)'
  BY <1>1, <1>2, <1>4, <1>5 DEF AssemblerOK
<1>7. UNCHANGED <<threads, row, wasted, apart, ingested, deadLetters, silent>> /\ taken' \in 0 .. MaxAssemblies
  BY UpsetTypes DEF busVars
<1> QED BY <1>6, <1>7, QuietMove DEF Threaded, Dedups

LEMMA NextPersonMoves ==
  ASSUME AInv, NEW a \in Assembler, asm[a].at \in Dedups, Goes(a, NextPerson(a)), Grows, GraphTypes', EdgesOK',
         contacts'[Person(a).email] # None, contacts'[Person(a).email].user = OwnerOf(a),
         UNCHANGED <<threads, row, busVars, apart, wasted, taken>>, upsets' \in 0 .. MaxUpsets
  PROVE  AInv'
<1>1. asm[a] \in AsmRecord /\ asm[a].mail \in Email /\ PeopleOK(a)
  BY AtWork DEF Dedups
<1>2. PICK y \in AsmRecord : y = asm[a]
  BY <1>1
<1>3. PICK i \in Nat : i = Min(y.left)
  BY <1>1, <1>2, PersonIsLeft
<1>4. i \in y.left /\ y.left \in SUBSET Nat /\ Person(a).email = AddressAt(y.mail, i)
  BY <1>1, <1>2, <1>3, PersonIsLeft
<1> DEFINE x == [y EXCEPT !.at = IF y.left = {i} THEN "insert" ELSE "contact", !.left = y.left \ {i}, !.links = {}]
<1>5. /\ x \in AsmRecord /\ x.at = (IF y.left = {i} THEN "insert" ELSE "contact") /\ x.left = y.left \ {i}
      /\ x.links = {} /\ x.mail = y.mail /\ x.thread = y.thread /\ x.apart = y.apart /\ x.fuzzy = y.fuzzy
  BY <1>4 DEF AsmRecord, Places, Threaded, Dedups
<1>6. Goes(a, x)
  BY <1>2, <1>3 DEF NextPerson
<1> HIDE DEF x
<1>7. asm'[a] = x
  BY <1>5, <1>6, AsmMoves DEF AInv
<1>8. OwnerOf(a)' = OwnerOf(a)
  BY <1>2, <1>5, <1>7 DEF OwnerOf
<1>9. PeopleOK(a)'
  <2>1. y.left # {} /\ y.left \subseteq Participants(y.mail)
    BY <1>1, <1>2 DEF PeopleOK
  <2>2. ASSUME NEW e \in Contacts(y.mail) PROVE Known(e, OwnerOf(a))' \/ \E j \in x.left : AddressAt(y.mail, j) = e
    <3>1. e \in Address
      BY <1>1, <1>2, ContactsAreAddresses
    <3>2. CASE Known(e, OwnerOf(a))
      BY <1>8, <3>1, <3>2 DEF Known, Grows
    <3>3. ASSUME NEW j \in y.left, AddressAt(y.mail, j) = e
          PROVE  Known(e, OwnerOf(a))' \/ \E h \in x.left : AddressAt(y.mail, h) = e
      <4>1. CASE j = i
        BY <1>4, <1>8, <3>3, <4>1 DEF Known
      <4>2. CASE j # i
        BY <1>5, <3>3, <4>2
      <4> QED BY <4>1, <4>2
    <3> QED BY <1>1, <1>2, <3>2, <3>3 DEF PeopleOK, Threaded
  <2>3. x.at = "contact" => x.left # {}
    BY <1>4, <1>5, <2>1
  <2>4. x.at = "insert" => x.left = {}
    BY <1>5
  <2> QED BY <1>5, <1>7, <2>1, <2>2, <2>3, <2>4 DEF PeopleOK, Threaded, Dedups
<1>10. LinksOK(a)'
  BY <1>5, <1>7 DEF LinksOK
<1>11. x.at \in Threaded
  BY <1>5 DEF Threaded, Dedups
<1> QED BY <1>2, <1>5, <1>6, <1>9, <1>10, <1>11, DedupMove

\* The next query about the same participant.
LEMMA SamePersonMoves ==
  ASSUME AInv, NEW a \in Assembler, asm[a].at \in Dedups, NEW at \in Dedups, NEW links \in SUBSET Address,
         Goes(a, [asm[a] EXCEPT !.at = at, !.links = links]),
         Grows, GraphTypes', EdgesOK',
         at \in {"contact", "names"} => links = {},
         \A e \in links : e # Person(a).email /\ contacts'[e] # None /\ contacts'[e].user = OwnerOf(a),
         at = "links" => contacts'[Person(a).email] # None /\ contacts'[Person(a).email].user = OwnerOf(a),
         UNCHANGED <<threads, row, busVars, apart, wasted, taken>>, upsets' \in 0 .. MaxUpsets
  PROVE  AInv'
<1>1. asm[a] \in AsmRecord /\ asm[a].mail \in Email /\ PeopleOK(a)
  BY AtWork DEF Dedups
<1>2. PICK y \in AsmRecord : y = asm[a]
  BY <1>1
<1> DEFINE x == [y EXCEPT !.at = at, !.links = links]
<1>3. /\ x \in AsmRecord /\ x.at = at /\ x.left = y.left /\ x.links = links
      /\ x.mail = y.mail /\ x.thread = y.thread /\ x.apart = y.apart /\ x.fuzzy = y.fuzzy
  BY DEF AsmRecord, Places, Threaded, Dedups
<1>4. Goes(a, x)
  BY <1>2
<1> HIDE DEF x
<1>5. asm'[a] = x
  BY <1>3, <1>4, AsmMoves DEF AInv
<1>6. OwnerOf(a)' = OwnerOf(a) /\ Person(a)' = Person(a)
  BY <1>2, <1>3, <1>5 DEF OwnerOf, Person
<1>7. PeopleOK(a)'
  <2>1. \A e \in Contacts(y.mail) : Known(e, OwnerOf(a)) => Known(e, OwnerOf(a))'
    BY <1>1, <1>2, <1>6, ContactsAreAddresses DEF Known, Grows
  <2>2. y.left # {} /\ y.left \subseteq Participants(y.mail)
        /\ \A e \in Contacts(y.mail) : Known(e, OwnerOf(a)) \/ \E j \in y.left : AddressAt(y.mail, j) = e
    BY <1>1, <1>2 DEF PeopleOK, Threaded
  <2> QED BY <1>3, <1>5, <2>1, <2>2 DEF PeopleOK, Dedups
<1>8. LinksOK(a)'
  BY <1>3, <1>5, <1>6 DEF LinksOK, Known, Dedups
<1>9. x.at \in Threaded
  BY <1>3 DEF Threaded
<1> QED BY <1>2, <1>3, <1>4, <1>7, <1>8, <1>9, DedupMove

\* A query fails and the assembly with it.
LEMMA UpsetEnds ==
  ASSUME AInv, NEW a \in Assembler, asm[a].at \in Threaded, GiveUp(a), upsets' \in 0 .. MaxUpsets,
         UNCHANGED <<threads, graphVars, row, busVars, apart, taken>>
  PROVE  AInv'
<1>1. silent' = silent /\ UNCHANGED <<ingested, deadLetters>>
  BY DEF busVars
<1>2. asm[a].at # "publish"
  BY DEF Threaded, Dedups
<1> QED BY <1>1, <1>2, GiveUpKeeps

LEMMA FindContactKeeps == ASSUME AInv, NEW a \in Assembler, FindContactByEmail(a) PROVE AInv'
<1>1. asm[a].at = "contact" /\ asm[a].at \in Dedups /\ asm[a].at \in Threaded
  BY DEF FindContactByEmail, IsAt, Threaded, Dedups
<1>2. asm[a] \in AsmRecord /\ LinksOK(a)
  BY <1>1, AtWork
<1>3. asm[a].links = {}
  BY <1>1, <1>2 DEF LinksOK
<1>4. UNCHANGED <<threads, graphVars, row, busVars, apart, taken>> /\ upsets' \in 0 .. MaxUpsets
  BY UpsetTypes DEF FindContactByEmail
<1>5. Grows /\ GraphTypes' /\ EdgesOK'
  BY <1>4, NothingGrows
<1>6. CASE /\ contacts[Person(a).email] # None /\ contacts[Person(a).email].user = OwnerOf(a)
           /\ Goes(a, NextPerson(a)) /\ UNCHANGED <<wasted, upsets>>
  <2>1. UNCHANGED contacts
    BY <1>4 DEF graphVars
  <2> QED BY <1>1, <1>4, <1>5, <1>6, <2>1, NextPersonMoves
<1>7. ASSUME NEW at \in {"node", "names"}, Goes(a, Going(a, at)), UNCHANGED <<wasted, upsets>>
      PROVE  AInv'
  <2>1. Going(a, at) = [asm[a] EXCEPT !.at = at, !.links = {}]
    <3>1. PICK y \in AsmRecord : y = asm[a]
      BY <1>2
    <3>2. [y EXCEPT !.at = at] = [y EXCEPT !.at = at, !.links = {}]
      BY <1>3, <3>1 DEF AsmRecord
    <3> QED BY <3>1, <3>2 DEF Going
  <2>2. Goes(a, [asm[a] EXCEPT !.at = at, !.links = {}])
    BY <1>7, <2>1
  <2>3. at \in Dedups /\ {} \in SUBSET Address /\ at # "links"
    BY DEF Dedups
  <2> QED BY <1>1, <1>4, <1>5, <1>7, <2>2, <2>3, SamePersonMoves
<1>8. CASE Upset /\ GiveUp(a)
  BY <1>1, <1>4, <1>8, UpsetEnds
<1> QED BY <1>6, <1>7, <1>8 DEF FindContactByEmail

LEMMA FindNamesKeeps == ASSUME AInv, NEW a \in Assembler, FindContactsByName(a) PROVE AInv'
<1>1. asm[a].at = "names" /\ asm[a].at \in Dedups /\ asm[a].at \in Threaded
  BY DEF FindContactsByName, IsAt, Threaded, Dedups
<1>2. UNCHANGED <<threads, graphVars, row, busVars, apart, taken>> /\ upsets' \in 0 .. MaxUpsets
  BY UpsetTypes DEF FindContactsByName
<1>3. Grows /\ GraphTypes' /\ EdgesOK'
  BY <1>2, NothingGrows
<1>4. CASE Goes(a, [Going(a, "node") EXCEPT !.links = Alike(a)]) /\ UNCHANGED wasted
  <2>1. [Going(a, "node") EXCEPT !.links = Alike(a)] = [asm[a] EXCEPT !.at = "node", !.links = Alike(a)]
    BY DEF Going
  <2>2. PICK links \in SUBSET Address : links = Alike(a)
    BY DEF Alike
  <2>3. Goes(a, [asm[a] EXCEPT !.at = "node", !.links = links])
    BY <1>4, <2>1, <2>2
  <2>4. \A e \in links : e # Person(a).email /\ contacts'[e] # None /\ contacts'[e].user = OwnerOf(a)
    BY <1>2, <2>2 DEF Alike, graphVars
  <2>5. "node" \in Dedups
    BY DEF Dedups
  <2> QED BY <1>1, <1>2, <1>3, <1>4, <2>3, <2>4, <2>5, SamePersonMoves
<1>5. CASE Upset /\ GiveUp(a)
  BY <1>1, <1>2, <1>5, UpsetEnds
<1> QED BY <1>4, <1>5 DEF FindContactsByName

LEMMA CreateContactKeeps == ASSUME AInv, NEW a \in Assembler, CreateContact(a) PROVE AInv'
<1>1. asm[a].at = "node" /\ asm[a].at \in Dedups /\ asm[a].at \in Threaded
  BY DEF CreateContact, IsAt, Threaded, Dedups
<1>2. UNCHANGED <<threads, similar, row, busVars, apart, taken>> /\ upsets' \in 0 .. MaxUpsets
  BY UpsetTypes DEF CreateContact
<1>3. asm[a] \in AsmRecord /\ asm[a].mail \in Email /\ PeopleOK(a) /\ LinksOK(a)
  BY <1>1, AtWork
<1>4. PICK e \in Address : e = Person(a).email
  BY <1>1, <1>3, PersonIsLeft
<1>5. CASE UNCHANGED contacts /\ GiveUp(a)
  BY <1>1, <1>2, <1>5, UpsetEnds DEF graphVars
<1>6. CASE /\ contacts[e] = None
           /\ contacts' = [contacts EXCEPT ![e] = [user |-> OwnerOf(a), name |-> Person(a).name]]
           /\ Goes(a, IF asm[a].links = {} THEN NextPerson(a) ELSE Going(a, "links"))
           /\ UNCHANGED <<wasted, upsets>>
  <2> DEFINE c == [user |-> OwnerOf(a), name |-> Person(a).name]
  <2>1. c \in ContactRecord /\ c.user = OwnerOf(a)
    BY <1>3 DEF ContactRecord, Owners, OwnerOf, Person
  <2>2. contacts' = [contacts EXCEPT ![e] = c]
    BY <1>6
  <2> HIDE DEF c
  <2>3. contacts \in [Address -> ContactRecord \cup {None}] /\ similar \subseteq Address \X Address /\ EdgesOK /\ GraphTypes
    BY DEF AInv, ATypes, GraphTypes
  <2>4. /\ contacts' \in [Address -> ContactRecord \cup {None}] /\ contacts'[e] = c
        /\ \A d \in Address \ {e} : contacts'[d] = contacts[d]
    BY <2>1, <2>2, <2>3
  <2>5. Grows /\ GraphTypes'
    BY <1>2, <1>6, <2>3, <2>4 DEF Grows, GraphTypes
  <2>6. EdgesOK'
    BY <1>2, <2>3, <2>5, EdgesStay
  <2>7. contacts'[Person(a).email] # None /\ contacts'[Person(a).email].user = OwnerOf(a)
    BY <1>4, <2>1, <2>4, NoneIsNothing
  <2>8. CASE asm[a].links = {}
    BY <1>1, <1>2, <1>6, <2>5, <2>6, <2>7, <2>8, NextPersonMoves
  <2>9. CASE asm[a].links # {}
    <3>1. Going(a, "links") = [asm[a] EXCEPT !.at = "links", !.links = asm[a].links]
      <4>1. PICK y \in AsmRecord : y = asm[a]
        BY <1>3
      <4>2. [y EXCEPT !.at = "links"] = [y EXCEPT !.at = "links", !.links = y.links]
        BY DEF AsmRecord
      <4> QED BY <4>1, <4>2 DEF Going
    <3>2. PICK links \in SUBSET Address : links = asm[a].links
      BY <1>3 DEF AsmRecord
    <3>3. Goes(a, [asm[a] EXCEPT !.at = "links", !.links = links])
      BY <1>6, <2>9, <3>1, <3>2
    <3>4. \A d \in links : d # Person(a).email /\ contacts'[d] # None /\ contacts'[d].user = OwnerOf(a)
      BY <1>1, <1>3, <2>5, <3>2 DEF LinksOK, Known, Grows
    <3>5. "links" \in Dedups
      BY DEF Dedups
    <3> QED BY <1>1, <1>2, <1>6, <2>5, <2>6, <2>7, <3>3, <3>4, <3>5, SamePersonMoves
  <2> QED BY <2>8, <2>9
<1> QED BY <1>4, <1>5, <1>6 DEF CreateContact

LEMMA CreateEdgeKeeps == ASSUME AInv, NEW a \in Assembler, CreateSimilarToEdge(a) PROVE AInv'
<1>1. asm[a].at = "links" /\ asm[a].at \in Dedups /\ asm[a].at \in Threaded
  BY DEF CreateSimilarToEdge, IsAt, Threaded, Dedups
<1>2. UNCHANGED <<threads, contacts, row, busVars, apart, wasted, taken>> /\ upsets' \in 0 .. MaxUpsets
  BY UpsetTypes DEF CreateSimilarToEdge
<1>3. asm[a] \in AsmRecord /\ asm[a].mail \in Email /\ PeopleOK(a) /\ LinksOK(a)
  BY <1>1, AtWork
<1>4. PICK p \in Address : p = Person(a).email
  BY <1>1, <1>3, PersonIsLeft
<1>5. PICK e \in asm[a].links :
        /\ Goes(a, IF asm[a].links = {e} THEN NextPerson(a) ELSE [asm[a] EXCEPT !.links = @ \ {e}])
        /\ similar' = similar \cup {<<p, e>>} \/ UNCHANGED similar
  BY <1>4 DEF CreateSimilarToEdge
<1>6. e \in Address /\ asm[a].links \in SUBSET Address
  BY <1>3, <1>5 DEF AsmRecord
<1>7. Known(p, OwnerOf(a)) /\ \A d \in asm[a].links : d # p /\ Known(d, OwnerOf(a))
  BY <1>1, <1>3, <1>4 DEF LinksOK
<1>8. Grows
  BY <1>2 DEF Grows
<1>9. GraphTypes'
  BY <1>2, <1>4, <1>5, <1>6 DEF AInv, ATypes, GraphTypes
<1>10. EdgesOK'
  <2>1. EdgesOK
    BY DEF AInv
  <2>2. CASE UNCHANGED similar
    BY <1>2, <2>1, <2>2 DEF EdgesOK
  <2>3. CASE similar' = similar \cup {<<p, e>>}
    BY <1>2, <1>5, <1>7, <2>1, <2>3 DEF EdgesOK, Known
  <2> QED BY <1>5, <2>2, <2>3
<1>11. contacts'[Person(a).email] # None /\ contacts'[Person(a).email].user = OwnerOf(a)
  BY <1>2, <1>4, <1>7 DEF Known
<1>12. CASE asm[a].links = {e}
  BY <1>1, <1>2, <1>5, <1>8, <1>9, <1>10, <1>11, <1>12, NextPersonMoves
<1>13. CASE asm[a].links # {e}
  <2>1. PICK links \in SUBSET Address : links = asm[a].links \ {e}
    BY <1>6
  <2>2. [asm[a] EXCEPT !.links = @ \ {e}] = [asm[a] EXCEPT !.at = "links", !.links = links]
    <3>1. PICK y \in AsmRecord : y = asm[a]
      BY <1>3
    <3>2. [y EXCEPT !.links = links] = [y EXCEPT !.at = "links", !.links = links]
      BY <1>1, <3>1 DEF AsmRecord
    <3> QED BY <2>1, <3>1, <3>2
  <2>3. Goes(a, [asm[a] EXCEPT !.at = "links", !.links = links])
    BY <1>5, <1>13, <2>2
  <2>4. \A d \in links : d # Person(a).email /\ contacts'[d] # None /\ contacts'[d].user = OwnerOf(a)
    BY <1>2, <1>4, <1>7, <2>1 DEF Known
  <2>5. "links" \in Dedups
    BY DEF Dedups
  <2> QED BY <1>1, <1>2, <1>8, <1>9, <1>10, <1>11, <2>3, <2>4, <2>5, SamePersonMoves
<1> QED BY <1>12, <1>13


-------------------------------------------------------------------------------
\* The row and the event.

LEMMA ToPublish ==
  ASSUME AInv, NEW a \in Assembler, asm[a].at \in {"insert", "publish"}, NEW x \in AsmRecord, Goes(a, x),
         x.at = "publish", x.mail = asm[a].mail, x.apart = asm[a].apart, x.fuzzy = asm[a].fuzzy
  PROVE  AssemblerOK(a)' /\ ~Counted(a)'
<1>1. asm'[a] = x
  BY AsmMoves DEF AInv
<1>2. asm[a].mail \in Email /\ AskedOK(a)
  BY AtWork
<1>3. ThreadOK(a)' /\ LinksOK(a)' /\ ~Counted(a)'
  BY <1>1 DEF ThreadOK, LinksOK, Counted, Threaded, Dedups
<1>4. PeopleOK(a)'
  BY <1>1 DEF PeopleOK, Threaded, Dedups
<1>5. AskedOK(a)'
  BY <1>1, <1>2 DEF AskedOK, Threaded, Dedups
<1> QED BY <1>1, <1>2, <1>3, <1>4, <1>5 DEF AssemblerOK

\* A new row takes over the count of the goroutine that wrote it.
LEMMA RowCounts ==
  ASSUME AInv, NEW a \in Assembler, asm[a].at = "insert", NEW m \in Email, row[m] = None,
         NEW h \in Keys, h = asm[a].thread, row' = [row EXCEPT ![m] = h],
         ~Counted(a)', \A b \in Assembler \ {a} : asm'[b] = asm[b], UNCHANGED <<threads, wasted>>
  PROVE  CountCoversMail'
<1>1. row \in [Email -> Keys \cup {None}] /\ threads \in [Keys -> [count : Nat, last : 0 .. Today]] /\ wasted \in [Keys -> Nat]
  BY DEF AInv, ATypes, StoreTypes
<1>2. Counted(a)
  BY NoneIsNothing DEF Counted
<1>3. ASSUME NEW k \in Keys
      PROVE  threads'[k].count = Cardinality(RowsOf(k)') + Cardinality(Workers(k)') + wasted'[k]
  <2>1. threads[k].count = Cardinality(RowsOf(k)) + Cardinality(Workers(k)) + wasted[k]
    BY CountIs DEF AInv
  <2>2. IsFiniteSet(RowsOf(k)) /\ Cardinality(RowsOf(k)) \in Nat
    BY RowsAreCounted
  <2>3. ~Works(a, k)'
    BY DEF Works
  <2>4. CASE k = h
    <3>1. RowsOf(k)' = RowsOf(k) \cup {m} /\ m \notin RowsOf(k)
      BY <1>1, <2>4, NoneIsNothing DEF RowsOf
    <3>2. Cardinality(RowsOf(k)') = Cardinality(RowsOf(k)) + 1
      BY <2>2, <3>1, FS_AddElement
    <3>3. Works(a, k)
      BY <1>2, <2>4 DEF Works
    <3>4. Cardinality(Workers(k)) \in Nat /\ Cardinality(Workers(k)') = Cardinality(Workers(k)) - 1
      BY <2>3, <3>3, WorkersMove
    <3> QED BY <1>1, <2>1, <2>2, <3>2, <3>4
  <2>5. CASE k # h
    <3>1. RowsOf(k)' = RowsOf(k)
      BY <1>1, <2>5, NoneIsNothing DEF RowsOf
    <3>2. Workers(k)' = Workers(k)
      BY <2>3, <2>5, WorkersMove DEF Works
    <3> QED BY <2>1, <3>1, <3>2
  <2> QED BY <2>4, <2>5
<1> QED BY <1>3, CountIsNext

LEMMA NewRowKeeps ==
  ASSUME AInv, NEW a \in Assembler, asm[a].at = "insert", NEW m \in Email, m = asm[a].mail, row[m] = None,
         row' = [row EXCEPT ![m] = asm[a].thread],
         apart' = IF asm[a].apart THEN apart \cup {m} ELSE apart,
         NEW x \in AsmRecord, Goes(a, x), x.at = "publish", x.mail = m, x.apart = asm[a].apart, x.fuzzy = asm[a].fuzzy,
         UNCHANGED <<threads, graphVars, busVars, taken, wasted, upsets>>
  PROVE  AInv'
<1>1. /\ asm' \in [Assembler -> AsmRecord] /\ asm'[a] = x
      /\ \A b \in Assembler \ {a} : asm'[b] = asm[b]
  BY AsmMoves DEF AInv
<1>2. AssemblerOK(a)' /\ ~Counted(a)'
  BY ToPublish
<1>3. ThreadOK(a) /\ AskedOK(a) /\ PeopleOK(a)
  BY AtWork
<1>4. PICK h \in Keys : h = asm[a].thread /\ h.user = Header[m].user
  BY <1>3 DEF ThreadOK, OwnerOf, Threaded
<1>5. row \in [Email -> Keys \cup {None}] /\ row' = [row EXCEPT ![m] = h]
  BY <1>4 DEF AInv, ATypes, StoreTypes
<1>6. row' \in [Email -> Keys \cup {None}] /\ row'[m] = h /\ h # None /\ \A p \in Email \ {m} : row'[p] = row[p]
  BY <1>4, <1>5, NoneIsNothing
<1>7. Grows
  BY <1>6 DEF Grows, graphVars
<1>8. \A b \in Assembler \ {a} : AssemblerOK(b)'
  BY <1>1, <1>7, OthersGoOn DEF AInv, ATypes
<1>9. GraphTypes' /\ EdgesOK' /\ StoreTypes' /\ LetterTypes'
  BY <1>6 DEF AInv, ATypes, GraphTypes, EdgesOK, StoreTypes, LetterTypes, graphVars, busVars
<1>10. CountCoversMail'
  BY <1>1, <1>2, <1>4, <1>5, RowCounts
<1>11. \A u, e : Known(e, u)' <=> Known(e, u)
  BY DEF Known, graphVars
<1>12. RowsOK'
  <2> SUFFICES ASSUME NEW p \in Email, row'[p] # None
               PROVE  row'[p].user = Header[p].user /\ \A e \in Contacts(p) : Known(e, Header[p].user)
    BY <1>11 DEF RowsOK
  <2>1. CASE p = m
    <3>1. \A e \in Contacts(m) : Known(e, Header[m].user)
      BY <1>3 DEF PeopleOK, OwnerOf, Threaded
    <3> QED BY <1>4, <1>6, <2>1, <3>1
  <2>2. CASE p # m
    BY <1>6, <2>2 DEF AInv, RowsOK
  <2> QED BY <2>1, <2>2
<1>13. RepliesJoined'
  <2> SUFFICES ASSUME NEW p \in Email, row'[p] # None, p \notin apart', Header[p].asked # <<>>
               PROVE  \E q \in StoredWith(Head(Header[p].asked), Header[p].user)' : row'[q] = row'[p]
    BY DEF RepliesJoined
  <2>1. CASE p = m
    <3>1. ~asm[a].apart
      BY <2>1
    <3>2. \E q \in StoredWith(Head(Header[m].asked), Header[m].user) : row[q] = h
      BY <1>3, <1>4, <2>1, <3>1 DEF AskedOK, OwnerOf, Threaded
    <3>3. \E q \in StoredWith(Head(Header[m].asked), Header[m].user)' : row'[q] = h
      BY <1>7, <3>2 DEF Grows, StoredWith
    <3> QED BY <1>6, <2>1, <3>3
  <2>2. CASE p # m
    <3>1. row'[p] = row[p] /\ p \notin apart
      BY <1>6, <2>2
    <3>2. \E q \in StoredWith(Head(Header[p].asked), Header[p].user) : row[q] = row[p]
      BY <3>1 DEF AInv, RepliesJoined
    <3>3. \E q \in StoredWith(Head(Header[p].asked), Header[p].user)' : row'[q] = row[p]
      BY <1>7, <3>2 DEF Grows, StoredWith
    <3> QED BY <3>1, <3>3
  <2> QED BY <2>1, <2>2
<1>14. StoredIsPublished'
  <2> SUFFICES ASSUME NEW p \in Email, row'[p] # None
               PROVE  \/ p \in ingested' \cup deadLetters' \cup silent'
                      \/ \E b \in Assembler : asm'[b].at = "publish" /\ asm'[b].mail = p
    BY DEF StoredIsPublished, IsAt
  <2>1. CASE p = m
    BY <1>1, <2>1
  <2>2. CASE p # m
    <3>1. row[p] # None
      BY <1>6, <2>2
    <3>2. \/ p \in ingested \cup deadLetters \cup silent
          \/ \E b \in Assembler : asm[b].at = "publish" /\ asm[b].mail = p
      BY <3>1 DEF AInv, StoredIsPublished, IsAt
    <3>3. ASSUME NEW b \in Assembler, asm[b].at = "publish", asm[b].mail = p
          PROVE  \E d \in Assembler : asm'[d].at = "publish" /\ asm'[d].mail = p
      <4>1. b # a
        BY <3>3
      <4> QED BY <1>1, <3>3, <4>1
    <3> QED BY <3>2, <3>3 DEF busVars
  <2> QED BY <2>1, <2>2
<1> QED BY <1>1, <1>2, <1>8, <1>9, <1>10, <1>12, <1>13, <1>14 DEF AInv, ATypes

LEMMA InsertKeeps == ASSUME AInv, NEW a \in Assembler, InsertRawEmail(a) PROVE AInv'
<1>1. asm[a].at = "insert"
  BY DEF InsertRawEmail, IsAt
<1>2. UNCHANGED <<threads, graphVars, busVars, taken>> /\ upsets' \in 0 .. MaxUpsets
  BY UpsetTypes DEF InsertRawEmail
<1>3. asm[a] \in AsmRecord /\ asm[a].mail \in Email
  BY <1>1, AtWork
<1>4. PICK y \in AsmRecord : y = asm[a]
  BY <1>3
<1> DEFINE x == [y EXCEPT !.at = "publish"]
<1>5. x \in AsmRecord /\ x.at = "publish" /\ x.mail = y.mail /\ x.apart = y.apart /\ x.fuzzy = y.fuzzy
  BY DEF AsmRecord, Places
<1>6. Going(a, "publish") = x
  BY <1>4 DEF Going
<1> HIDE DEF x
<1>7. CASE /\ row[asm[a].mail] = None /\ row' = [row EXCEPT ![asm[a].mail] = asm[a].thread]
           /\ apart' = IF asm[a].apart THEN apart \cup {asm[a].mail} ELSE apart
           /\ Goes(a, Going(a, "publish")) /\ UNCHANGED <<wasted, upsets>>
  <2>1. PICK m \in Email : m = asm[a].mail
    BY <1>3
  <2>2. Goes(a, x) /\ x.mail = m /\ x.apart = asm[a].apart /\ x.fuzzy = asm[a].fuzzy
    BY <1>4, <1>5, <1>6, <1>7, <2>1
  <2>3. /\ row[m] = None /\ row' = [row EXCEPT ![m] = asm[a].thread]
        /\ apart' = IF asm[a].apart THEN apart \cup {m} ELSE apart
        /\ UNCHANGED <<threads, graphVars, busVars, taken, wasted, upsets>>
    BY <1>2, <1>7, <2>1
  <2> QED BY <1>1, <1>5, <2>1, <2>2, <2>3, NewRowKeeps
<1>8. CASE Goes(a, Going(a, "publish")) /\ Waste(a) /\ UNCHANGED <<row, apart, upsets>>
  <2>1. Goes(a, x)
    BY <1>6, <1>8
  <2>2. asm' \in [Assembler -> AsmRecord] /\ asm'[a] = x /\ \A b \in Assembler \ {a} : asm'[b] = asm[b]
    BY <1>5, <2>1, AsmMoves DEF AInv
  <2>3. Grows /\ GraphTypes' /\ EdgesOK'
    BY <1>2, <1>8, NothingGrows
  <2>4. \A b \in Assembler \ {a} : AssemblerOK(b)'
    BY <2>2, <2>3, OthersGoOn DEF AInv, ATypes
  <2>5. AssemblerOK(a)' /\ ~Counted(a)'
    BY <1>1, <1>4, <1>5, <2>1, ToPublish
  <2>6. CountCoversMail' /\ wasted' \in [Keys -> Nat]
    BY <1>2, <1>8, <2>2, <2>5, WasteCounts
  <2>7. RowsOK' /\ RepliesJoined'
    BY <1>8, <2>3, RowsStay DEF AInv
  <2>8. UNCHANGED <<ingested, deadLetters, silent>>
    BY <1>2 DEF busVars
  <2>9. StoredIsPublished'
    BY <1>1, <1>8, <2>2, <2>8, PublishStays DEF AInv
  <2>10. StoreTypes' /\ LetterTypes'
    BY <1>2, <1>8, <2>6, <2>8 DEF AInv, ATypes, StoreTypes, LetterTypes
  <2> QED BY <2>2, <2>3, <2>4, <2>5, <2>6, <2>7, <2>9, <2>10 DEF AInv, ATypes
<1>9. CASE GiveUp(a) /\ UNCHANGED <<row, apart>>
  <2>1. asm[a].at \in Threaded
    BY <1>1 DEF Threaded
  <2> QED BY <1>2, <1>9, <2>1, UpsetEnds
<1> QED BY <1>7, <1>8, <1>9 DEF InsertRawEmail

\* At its event a goroutine writes nothing but letters.
LEMMA PublishMove ==
  ASSUME AInv, NEW a \in Assembler, asm[a].at = "publish", NEW x \in AsmRecord, Goes(a, x),
         \/ x.at = "publish" /\ x.mail = asm[a].mail /\ x.apart = asm[a].apart /\ x.fuzzy = asm[a].fuzzy
         \/ x.at = "idle" /\ asm[a].mail \in ingested' \cup deadLetters' \cup silent',
         ingested \subseteq ingested', deadLetters \subseteq deadLetters', silent \subseteq silent',
         ingested' \subseteq Email, deadLetters' \subseteq Email, silent' \subseteq Email,
         UNCHANGED <<threads, graphVars, row, apart, wasted, taken>>, upsets' \in 0 .. MaxUpsets
  PROVE  AInv'
<1>1. asm' \in [Assembler -> AsmRecord] /\ asm'[a] = x /\ \A b \in Assembler \ {a} : asm'[b] = asm[b]
  BY AsmMoves DEF AInv
<1>2. Grows /\ GraphTypes' /\ EdgesOK'
  BY NothingGrows
<1>3. \A b \in Assembler \ {a} : AssemblerOK(b)'
  BY <1>1, <1>2, OthersGoOn DEF AInv, ATypes
<1>4. AssemblerOK(a)' /\ ~Counted(a)'
  <2>1. CASE x.at = "idle"
    BY <1>1, <2>1 DEF AssemblerOK, Counted
  <2>2. CASE x.at # "idle"
    BY <2>2, ToPublish
  <2> QED BY <2>1, <2>2
<1>5. CountCoversMail'
  <2>1. \A k \in Keys : Works(a, k)' <=> Works(a, k)
    BY <1>4 DEF Works, Counted
  <2> QED BY <1>1, <2>1, CountStays DEF AInv
<1>6. RowsOK' /\ RepliesJoined'
  BY <1>2, RowsStay DEF AInv
<1>7. StoredIsPublished'
  BY <1>1, PublishStays DEF AInv
<1>8. StoreTypes' /\ LetterTypes'
  BY DEF AInv, ATypes, StoreTypes, LetterTypes
<1> QED BY <1>1, <1>2, <1>3, <1>4, <1>5, <1>6, <1>7, <1>8 DEF AInv, ATypes

LEMMA AttemptKeeps == ASSUME AInv, NEW a \in Assembler, Attempt(a) PROVE AInv'
<1>1. asm[a].at = "publish" /\ asm[a].tries < 3
  BY DEF Attempt, IsAt
<1>2. UNCHANGED <<threads, graphVars, row, deadLetters, silent, apart, wasted, taken>> /\ upsets' \in 0 .. MaxUpsets
  BY UpsetTypes DEF Attempt
<1>3. asm[a] \in AsmRecord /\ asm[a].mail \in Email
  BY <1>1, AtWork
<1>4. ingested \subseteq Email /\ deadLetters \subseteq Email /\ silent \subseteq Email
  BY DEF AInv, ATypes, LetterTypes
<1>5. ingested' \in {ingested, ingested \cup {asm[a].mail}}
  BY DEF Attempt
<1>6. CASE Goes(a, Unassigned) /\ ingested' = ingested \cup {asm[a].mail}
  BY <1>1, <1>2, <1>3, <1>4, <1>6, IdleIsRecord, PublishMove
<1>7. CASE Goes(a, [asm[a] EXCEPT !.tries = @ + 1])
  <2>1. PICK y \in AsmRecord : y = asm[a]
    BY <1>3
  <2> DEFINE x == [y EXCEPT !.tries = @ + 1]
  <2>2. x \in AsmRecord /\ x.at = y.at /\ x.mail = y.mail /\ x.apart = y.apart /\ x.fuzzy = y.fuzzy
    BY <1>1, <2>1 DEF AsmRecord
  <2>3. Goes(a, x)
    BY <1>7, <2>1
  <2> HIDE DEF x
  <2> QED BY <1>1, <1>2, <1>3, <1>4, <1>5, <2>1, <2>2, <2>3, PublishMove
<1> QED BY <1>6, <1>7 DEF Attempt

LEMMA UnsentKeeps == ASSUME AInv, NEW a \in Assembler, PublishToDLQ(a) PROVE AInv'
<1>1. asm[a].at = "publish" /\ Goes(a, Unassigned)
  BY DEF PublishToDLQ, IsAt
<1>2. UNCHANGED <<threads, graphVars, row, ingested, apart, wasted, taken>> /\ upsets' \in 0 .. MaxUpsets
  BY UpsetTypes DEF PublishToDLQ
<1>3. asm[a].mail \in Email
  BY <1>1, AtWork
<1>4. ingested \subseteq Email /\ deadLetters \subseteq Email /\ silent \subseteq Email
  BY DEF AInv, ATypes, LetterTypes
<1>5. \/ deadLetters' = deadLetters \cup {asm[a].mail} /\ silent' = silent
      \/ silent' = silent \cup {asm[a].mail} /\ deadLetters' = deadLetters
  BY DEF PublishToDLQ
<1> QED BY <1>1, <1>2, <1>3, <1>4, <1>5, IdleIsRecord, PublishMove

LEMMA DeathKeeps == ASSUME AInv, NEW a \in Assembler, AssemblerDies(a) PROVE AInv'
<1>1. GiveUp(a) /\ asm[a].mail \in Email /\ upsets' \in 0 .. MaxUpsets
  BY AtWork, UpsetTypes DEF AssemblerDies
<1>2. UNCHANGED <<threads, graphVars, row, ingested, deadLetters, apart, taken>>
  BY DEF AssemblerDies
<1>3. silent' = IF asm[a].at = "publish" THEN silent \cup {asm[a].mail} ELSE silent
  BY DEF AssemblerDies, IsAt
<1> QED BY <1>1, <1>2, <1>3, GiveUpKeeps

LEMMA StillKeeps ==
  ASSUME AInv, upsets' \in 0 .. MaxUpsets,
         UNCHANGED <<threads, graphVars, row, asm, ingested, deadLetters, silent, apart, wasted, taken>>
  PROVE  AInv'
<1>1. Grows /\ GraphTypes' /\ EdgesOK'
  BY NothingGrows
<1>2. \A b \in Assembler : AssemblerOK(b)'
  BY <1>1, OthersGoOn DEF AInv, ATypes
<1>3. RowsOK' /\ RepliesJoined'
  BY <1>1, RowsStay DEF AInv
<1>4. StoredIsPublished' /\ CountCoversMail'
  BY DEF AInv, StoredIsPublished, IsAt, CountCoversMail, Counted
<1>5. ATypes'
  BY <1>1 DEF AInv, ATypes, StoreTypes, LetterTypes
<1> QED BY <1>1, <1>2, <1>3, <1>4, <1>5 DEF AInv

-------------------------------------------------------------------------------

LEMMA AssemblyInitially == AssemblyInit => AInv
<1> SUFFICES ASSUME AssemblyInit PROVE AInv
  OBVIOUS
<1> USE DEF AssemblyInit
<1>1. asm \in [Assembler -> AsmRecord] /\ \A a \in Assembler : AssemblerOK(a)
  BY IdleIsRecord DEF AssemblerOK
<1>2. threads \in [Keys -> [count : Nat, last : 0 .. Today]]
  BY MailAssumption
<1>3. StoreTypes
  BY <1>2 DEF StoreTypes
<1>4. GraphTypes /\ LetterTypes
  BY AssemblyBounds DEF GraphTypes, LetterTypes
<1>5. RowsOK /\ RepliesJoined /\ EdgesOK /\ StoredIsPublished
  BY DEF RowsOK, RepliesJoined, EdgesOK, StoredIsPublished
<1>6. ASSUME NEW k \in Keys
      PROVE  threads[k].count = Cardinality(RowsOf(k)) + Cardinality(Workers(k)) + wasted[k]
  <2>1. RowsOf(k) = {} /\ Workers(k) = {}
    BY NoneIsNothing DEF RowsOf, Workers, Counted, Unassigned
  <2> QED BY <2>1, FS_EmptySet
<1>7. CountCoversMail
  BY <1>6, CountIs
<1> QED BY <1>1, <1>3, <1>4, <1>5, <1>7 DEF AInv, ATypes

LEMMA AssemblyInductive == AInv /\ [AssemblyNext]_assemblyVars => AInv'
<1> SUFFICES ASSUME AInv, [AssemblyNext]_assemblyVars PROVE AInv'
  OBVIOUS
<1>1. CASE UNCHANGED assemblyVars
  BY <1>1, StillKeeps, UpsetTypes DEF assemblyVars, graphVars, busVars
<1>2. CASE NatsFails \/ NatsReturns
  BY <1>2, StillKeeps, UpsetTypes DEF NatsFails, NatsReturns
<1>3. ASSUME NEW a \in Assembler, FindOrCreateThread(a) PROVE AInv'
  BY <1>3, LookUpKeeps, FuzzyMatchKeeps, IncrementKeepsMail, CreateThreadKeeps DEF FindOrCreateThread
<1>4. ASSUME NEW a \in Assembler, Dedup(a) PROVE AInv'
  BY <1>4, FindContactKeeps, FindNamesKeeps, CreateContactKeeps, CreateEdgeKeeps DEF Dedup
<1>5. ASSUME NEW a \in Assembler, InsertRawEmail(a) \/ PublishEmailIngested(a) PROVE AInv'
  BY <1>5, InsertKeeps, AttemptKeeps, UnsentKeeps DEF PublishEmailIngested
<1>6. ASSUME NEW a \in Assembler, AssemblerDies(a) \/ \E m \in Email : TakeMail(a, m) PROVE AInv'
  BY <1>6, DeathKeeps, TakeMailKeeps
<1> QED BY <1>1, <1>2, <1>3, <1>4, <1>5, <1>6 DEF AssemblyNext, Assemble

\* The mails of a user are threaded, counted and published, and its contacts
\* kept from other users', whatever the assemblies of the pool do in between.
THEOREM AssemblyIsSound == AssemblySpec => []AssemblyInv
<1>1. AssemblyInit => AInv
  BY AssemblyInitially
<1>2. AInv /\ [AssemblyNext]_assemblyVars => AInv'
  BY AssemblyInductive
<1>3. AInv => AssemblyInv
  BY AInvIsSound
<1> QED BY <1>1, <1>2, <1>3, PTL DEF AssemblySpec

\* A mail is assembled and announced, routed or kept, and what comes of it
\* handled at the other end, whichever of these parts moves.
THEOREM EventsAreSound == Spec => []EventsInv
<1>1. Init => AssemblyInit /\ PipelineInit /\ SyncerInit
  BY DEF Init
<1>2. [Next]_consumers => [AssemblyNext]_assemblyVars /\ [PipelineNext]_pipelineVars /\ [SyncerNext]_syncerVars
  BY DEF Next, consumers, WorkerMoves
<1>3. AInv /\ PipeInv /\ SyncInv => EventsInv
  BY AInvIsSound, SyncSound DEF PipeInv, PipelineInv, EventsInv
<1> QED BY <1>1, <1>2, <1>3, AssemblyInitially, AssemblyInductive, PipelineInitially, PipelineKeeps,
           SyncerInitially, SyncerKeeps, PTL DEF Spec


-------------------------------------------------------------------------------
(* StagedRules.  A rule whose last change was announced and not crossed by   *)
(* another notice is announced by one cron or revoker at most, which knows   *)
(* its status; what a cron selected is ripe, or was staged anew.             *)

RuleRow == [status : Status, ripe : BOOLEAN]
CronRecord == [at : {"down", "waiting", "activate", "notify"}, closed : BOOLEAN, list : Seq(Rule)]
Once(q) == \A i, j \in 1 .. Len(q) : q[i] = q[j] => i = j

RowTypes ==
  /\ rule \in [Rule -> RuleRow] /\ queue \in Seq(Rule) /\ Once(queue)
  /\ ToSet(queue) = {r \in Rule : rule[r].status = "staged"}
CronTypes ==
  /\ cron \in [Cron -> CronRecord]
  /\ \A c \in Cron : cron[c].list # <<>> <=> cron[c].at \in {"activate", "notify"}
HistoryTypes ==
  /\ revoking \subseteq Rule /\ said \in [Rule -> {"nothing", "activated", "revoked"}]
  /\ trouble \in Nat /\ forced \in Nat
  /\ ended \subseteq Rule /\ early \subseteq Rule /\ blurred \subseteq Rule

Announces(c, r) == cron[c].at = "notify" /\ Head(cron[c].list) = r
EndedIsOver(r) == r \in ended => rule[r].status \in {"revoked", "deleted"}
ActiveIsRipe(r) == rule[r].status = "active" => rule[r].ripe \/ r \in early
ListedIsRipe(r) ==
  \A c \in Cron : r \in ToSet(cron[c].list) =>
    rule[r].status # "absent" /\ (rule[r].status = "staged" => rule[r].ripe \/ r \in early)
RevokingIsRevoked(r) == r \in revoking => rule[r].status = "revoked"
OneAnnounces(r) ==
  \A c \in Cron : Announces(c, r) => rule[r].status = "active" /\ \A d \in Cron \ {c} : ~Announces(d, r)
SaidIsTrue(r) ==
  ~Announcing(r) => /\ rule[r].status = "active" => said[r] = "activated"
                    /\ rule[r].status = "revoked" => said[r] = "revoked"
Clear(r) == r \notin blurred => RevokingIsRevoked(r) /\ OneAnnounces(r) /\ SaidIsTrue(r)
Sound(r) == EndedIsOver(r) /\ ActiveIsRipe(r) /\ ListedIsRipe(r) /\ Clear(r)

RTypes == RowTypes /\ CronTypes /\ HistoryTypes
RInv == RTypes /\ \A r \in Rule : Sound(r)

LEMMA RInvIsSound == RInv => RulesInv
<1> SUFFICES ASSUME RInv PROVE RulesInv
  OBVIOUS
<1>1. RulesTypeOK
  BY DEF RInv, RTypes, RowTypes, CronTypes, HistoryTypes, RulesTypeOK, RuleRow, CronRecord
<1>2. RevokedStaysRevoked
  BY DEF RInv, RTypes, HistoryTypes, RevokedStaysRevoked, Sound, EndedIsOver
<1>3. WindowIsKept
  BY DEF RInv, WindowIsKept, Sound, ActiveIsRipe
<1>4. LastNoticeIsTrue
  BY DEF RInv, LastNoticeIsTrue, Sound, Clear, SaidIsTrue
<1> QED BY <1>1, <1>2, <1>3, <1>4 DEF RulesInv

\* Nothing about a rule that a step leaves alone gets worse.
LEMMA OtherRulesKeep ==
  ASSUME NEW q \in Rule, Sound(q), rule'[q] = rule[q], said'[q] = said[q],
         q \in ended' => q \in ended, q \in early => q \in early', q \in blurred => q \in blurred',
         q \in revoking' <=> q \in revoking,
         \A c \in Cron : Announces(c, q)' <=> Announces(c, q),
         \A c \in Cron : q \in ToSet(cron'[c].list) => q \in ToSet(cron[c].list)
  PROVE  Sound(q)'
<1>1. EndedIsOver(q)' /\ ActiveIsRipe(q)' /\ ListedIsRipe(q)'
  BY DEF Sound, EndedIsOver, ActiveIsRipe, ListedIsRipe
<1>2. Announcing(q)' <=> Announcing(q)
  BY DEF Announcing, Announces
<1>3. Clear(q)'
  BY <1>2 DEF Sound, Clear, RevokingIsRevoked, OneAnnounces, SaidIsTrue
<1> QED BY <1>1, <1>3 DEF Sound

\* Without takes the one place of the rule out of the queue.
LEMMA WithoutRemoves ==
  ASSUME queue \in Seq(Rule), Once(queue), NEW r
  PROVE  Without(r) \in Seq(Rule) /\ Once(Without(r)) /\ ToSet(Without(r)) = ToSet(queue) \ {r}
<1>1. CASE r \notin ToSet(queue)
  BY <1>1 DEF Without
<1>2. CASE r \in ToSet(queue)
  <2> DEFINE k == CHOOSE i \in DOMAIN queue : queue[i] = r
  <2>1. k \in 1 .. Len(queue) /\ queue[k] = r /\ Len(queue) \in Nat
    BY <1>2 DEF ToSet
  <2> DEFINE w == Without(r)
  <2>2. w = SubSeq(queue, 1, k - 1) \o SubSeq(queue, k + 1, Len(queue))
    BY <1>2 DEF Without, RemoveAt
  <2> HIDE DEF k
  <2>3. /\ SubSeq(queue, 1, k - 1) \in Seq(Rule) /\ Len(SubSeq(queue, 1, k - 1)) = k - 1
        /\ \A i \in 1 .. k - 1 : SubSeq(queue, 1, k - 1)[i] = queue[i]
    BY <2>1
  <2>4. /\ SubSeq(queue, k + 1, Len(queue)) \in Seq(Rule) /\ Len(SubSeq(queue, k + 1, Len(queue))) = Len(queue) - k
        /\ \A i \in 1 .. Len(queue) - k : SubSeq(queue, k + 1, Len(queue))[i] = queue[k + i]
    BY <2>1
  <2> DEFINE a == SubSeq(queue, 1, k - 1)   b == SubSeq(queue, k + 1, Len(queue))
  <2>5. w \in Seq(Rule) /\ Len(w) = Len(queue) - 1 /\ DOMAIN w = 1 .. Len(queue) - 1
    <3>1. w = a \o b
      BY <2>2
    <3> HIDE DEF a, b, w
    <3>2. a \in Seq(Rule) /\ b \in Seq(Rule) /\ Len(a) = k - 1 /\ Len(b) = Len(queue) - k
      BY <2>3, <2>4 DEF a, b
    <3>3. a \o b \in Seq(Rule) /\ Len(a \o b) = Len(a) + Len(b)
      BY <3>2
    <3> QED BY <3>1, <3>2, <3>3, <2>1
  <2>6. \A i \in 1 .. Len(queue) - 1 : w[i] = IF i < k THEN queue[i] ELSE queue[i + 1]
    <3>1. w = a \o b
      BY <2>2
    <3> TAKE i \in 1 .. Len(queue) - 1
    <3> HIDE DEF a, b, w
    <3>2. a \in Seq(Rule) /\ b \in Seq(Rule) /\ Len(a) = k - 1 /\ Len(b) = Len(queue) - k
      BY <2>3, <2>4 DEF a, b
    <3>3. CASE i < k
      <4>1. (a \o b)[i] = a[i]
        BY <3>2, <3>3, <2>1
      <4>2. a[i] = queue[i]
        BY <2>1, <2>3, <3>3 DEF a
      <4> QED BY <3>1, <3>3, <4>1, <4>2
    <3>4. CASE ~(i < k)
      <4>1. (a \o b)[i] = b[i - (k - 1)]
        BY <3>2, <3>4, <2>1
      <4>2. b[i - (k - 1)] = queue[k + (i - (k - 1))] /\ k + (i - (k - 1)) = i + 1
        BY <2>1, <2>4, <3>4 DEF b
      <4> QED BY <3>1, <3>4, <4>1, <4>2
    <3> QED BY <3>3, <3>4
  <2> HIDE DEF w, a, b
  <2>7. Once(w)
    BY <2>1, <2>5, <2>6 DEF Once
  <2>8. \A x : x \in ToSet(w) => x \in ToSet(queue) /\ x # r
    BY <2>1, <2>5, <2>6 DEF Once, ToSet
  <2>9. ASSUME NEW x \in ToSet(queue), x # r
        PROVE  x \in ToSet(w)
    <3>1. PICK i \in 1 .. Len(queue) : queue[i] = x
      BY <2>9 DEF ToSet
    <3>2. i < k \/ i > k
      BY <2>1, <2>9, <3>1
    <3>3. CASE i < k
      BY <2>1, <2>5, <2>6, <3>1, <3>3 DEF ToSet
    <3>4. CASE i > k
      <4>1. i - 1 \in 1 .. Len(queue) - 1 /\ ~(i - 1 < k) /\ (i - 1) + 1 = i
        BY <2>1, <3>4
      <4>2. w[i - 1] = x
        BY <2>6, <3>1, <4>1
      <4> QED BY <2>5, <4>1, <4>2 DEF ToSet
    <3> QED BY <3>2, <3>3, <3>4
  <2>10. ToSet(w) = ToSet(queue) \ {r}
    BY <2>8, <2>9
  <2> QED BY <2>5, <2>7, <2>10 DEF w
<1> QED BY <1>1, <1>2

LEMMA AppendAdds ==
  ASSUME NEW q \in Seq(Rule), Once(q), NEW r \in Rule, r \notin ToSet(q)
  PROVE  Append(q, r) \in Seq(Rule) /\ Once(Append(q, r)) /\ ToSet(Append(q, r)) = ToSet(q) \cup {r}
<1>1. /\ Append(q, r) \in Seq(Rule) /\ Len(Append(q, r)) = Len(q) + 1 /\ Len(q) \in Nat
      /\ \A i \in 1 .. Len(q) : Append(q, r)[i] = q[i]
      /\ Append(q, r)[Len(q) + 1] = r
  OBVIOUS
<1> DEFINE x == Append(q, r)
<1> HIDE DEF x
<1>2. Once(x)
  BY <1>1 DEF Once, x, ToSet
<1>3. ToSet(x) = ToSet(q) \cup {r}
  BY <1>1 DEF x, ToSet
<1> QED BY <1>1, <1>2, <1>3 DEF x

\* A row changes and the queue follows its status.
LEMMA RowChanges ==
  ASSUME RowTypes, NEW r \in Rule, NEW x \in RuleRow, rule' = [rule EXCEPT ![r] = x],
         queue' \in Seq(Rule), Once(queue'),
         ToSet(queue') = IF x.status = "staged" THEN ToSet(queue) \cup {r} ELSE ToSet(queue) \ {r}
  PROVE  RowTypes' /\ rule'[r] = x /\ \A q \in Rule \ {r} : rule'[q] = rule[q]
<1>1. rule' \in [Rule -> RuleRow] /\ rule'[r] = x /\ \A q \in Rule \ {r} : rule'[q] = rule[q]
  BY DEF RowTypes
<1>2. ToSet(queue') = {q \in Rule : rule'[q].status = "staged"}
  BY <1>1 DEF RowTypes
<1> QED BY <1>1, <1>2 DEF RowTypes

\* SetStatus writes one field of a row.
LEMMA StatusChanges ==
  ASSUME RowTypes, NEW r \in Rule, NEW s \in Status, SetStatus(r, s)
  PROVE  \E x \in RuleRow : x.status = s /\ x.ripe = rule[r].ripe /\ rule' = [rule EXCEPT ![r] = x]
<1> DEFINE x == [rule[r] EXCEPT !.status = s]
<1>1. rule[r] \in RuleRow
  BY DEF RowTypes
<1>2. x \in RuleRow /\ x.status = s /\ x.ripe = rule[r].ripe
  BY <1>1 DEF RuleRow
<1>3. rule' = [rule EXCEPT ![r] = x]
  BY DEF SetStatus
<1> QED BY <1>2, <1>3

\* A rule leaves the queue, or was not in it.
LEMMA LeavesQueue ==
  ASSUME RowTypes, NEW r \in Rule, NEW s \in Status \ {"staged"}, SetStatus(r, s), queue' = Without(r)
  PROVE  /\ RowTypes' /\ rule'[r].status = s /\ rule'[r].ripe = rule[r].ripe
         /\ \A q \in Rule \ {r} : rule'[q] = rule[q]
<1>1. Without(r) \in Seq(Rule) /\ Once(Without(r)) /\ ToSet(Without(r)) = ToSet(queue) \ {r}
  BY WithoutRemoves DEF RowTypes
<1>2. PICK x \in RuleRow : x.status = s /\ x.ripe = rule[r].ripe /\ rule' = [rule EXCEPT ![r] = x]
  BY StatusChanges
<1> QED BY <1>1, <1>2, RowChanges

LEMMA CronsStay ==
  ASSUME UNCHANGED cron
  PROVE  /\ \A c \in Cron, q \in Rule : Announces(c, q)' <=> Announces(c, q)
         /\ CronTypes => CronTypes'
BY DEF Announces, CronTypes

\* Only one rule is looked at by a step that leaves the crons alone.
LEMMA OneRuleChanges ==
  ASSUME RInv, UNCHANGED cron, RowTypes', HistoryTypes', NEW r \in Rule, Sound(r)',
         \A q \in Rule \ {r} :
           /\ rule'[q] = rule[q] /\ said'[q] = said[q]
           /\ q \in ended' => q \in ended
           /\ q \in early => q \in early'
           /\ q \in blurred => q \in blurred'
           /\ q \in revoking' <=> q \in revoking
  PROVE  RInv'
<1>1. ASSUME NEW q \in Rule \ {r} PROVE Sound(q)'
  <2>1. Sound(q) /\ q \in Rule
    BY DEF RInv
  <2>2. \A c \in Cron : Announces(c, q)' <=> Announces(c, q)
    BY CronsStay
  <2> QED BY <2>1, <2>2, OtherRulesKeep
<1>2. CronTypes'
  BY CronsStay DEF RInv, RTypes
<1> QED BY <1>1, <1>2 DEF RInv, RTypes

LEMMA CreateKeepsRules == ASSUME RInv, NEW r \in Rule, Create(r) PROVE RInv'
<1>1. RowTypes /\ HistoryTypes /\ CronTypes /\ Sound(r)
  BY DEF RInv, RTypes
<1>2. r \notin ToSet(queue)
  BY <1>1 DEF Create, RowTypes
<1>3. queue' \in Seq(Rule) /\ Once(queue') /\ ToSet(queue') = ToSet(queue) \cup {r}
  BY <1>1, <1>2, AppendAdds DEF Create, RowTypes
<1>4. PICK x \in RuleRow : x.status = "staged" /\ rule' = [rule EXCEPT ![r] = x]
  BY <1>1, StatusChanges DEF Create, Status
<1>5. RowTypes' /\ rule'[r].status = "staged" /\ \A q \in Rule \ {r} : rule'[q] = rule[q]
  BY <1>1, <1>3, <1>4, RowChanges
<1>6. HistoryTypes'
  BY <1>1 DEF Create, HistoryTypes
<1>7. EndedIsOver(r)' /\ ActiveIsRipe(r)' /\ ListedIsRipe(r)'
  BY <1>1, <1>5 DEF Create, Sound, EndedIsOver, ActiveIsRipe, ListedIsRipe
<1>8. Clear(r)'
  BY <1>1, <1>5 DEF Create, Sound, Clear, RevokingIsRevoked, OneAnnounces, SaidIsTrue, Announces
<1>9. Sound(r)'
  BY <1>7, <1>8 DEF Sound
<1>10. UNCHANGED cron /\ UNCHANGED said /\ UNCHANGED ended /\ UNCHANGED early /\ UNCHANGED blurred /\ UNCHANGED revoking
  BY DEF Create
<1> QED BY <1>5, <1>6, <1>9, <1>10, OneRuleChanges

LEMMA WindowKeepsRules == ASSUME RInv, NEW r \in Rule, WindowPasses(r) PROVE RInv'
<1>1. RowTypes /\ HistoryTypes /\ CronTypes /\ Sound(r)
  BY DEF RInv, RTypes
<1>2. PICK x \in RuleRow : x.status = "staged" /\ x.ripe /\ rule' = [rule EXCEPT ![r] = x]
  <2> DEFINE x == [rule[r] EXCEPT !.ripe = TRUE]
  <2>1. rule[r] \in RuleRow /\ rule[r].status = "staged"
    BY <1>1 DEF WindowPasses, RowTypes
  <2>2. x \in RuleRow /\ x.status = "staged" /\ x.ripe
    BY <2>1 DEF RuleRow
  <2>3. rule' = [rule EXCEPT ![r] = x]
    BY DEF WindowPasses
  <2> QED BY <2>2, <2>3
<1>3. rule[r].status = "staged" /\ r \in ToSet(queue) /\ queue' = queue
  BY <1>1 DEF WindowPasses, RowTypes
<1>4. RowTypes' /\ rule'[r].status = "staged" /\ rule'[r].ripe /\ \A q \in Rule \ {r} : rule'[q] = rule[q]
  <2>1. queue' \in Seq(Rule) /\ Once(queue') /\ ToSet(queue') = ToSet(queue) \cup {r}
    BY <1>1, <1>3 DEF RowTypes
  <2> QED BY <1>1, <1>2, <1>3, <2>1, RowChanges
<1>5. HistoryTypes'
  BY <1>1 DEF WindowPasses, HistoryTypes
<1>6. EndedIsOver(r)' /\ ActiveIsRipe(r)' /\ ListedIsRipe(r)'
  BY <1>1, <1>3, <1>4 DEF WindowPasses, Sound, EndedIsOver, ActiveIsRipe, ListedIsRipe
<1>7. Clear(r)'
  BY <1>1, <1>3, <1>4 DEF WindowPasses, Sound, Clear, RevokingIsRevoked, OneAnnounces, SaidIsTrue, Announces
<1>8. Sound(r)'
  BY <1>6, <1>7 DEF Sound
<1>9. UNCHANGED cron /\ UNCHANGED said /\ UNCHANGED ended /\ UNCHANGED early /\ UNCHANGED blurred /\ UNCHANGED revoking
  BY DEF WindowPasses
<1> QED BY <1>4, <1>5, <1>8, <1>9, OneRuleChanges

LEMMA ActivateNowKeepsRules == ASSUME RInv, NEW r \in Rule, ActivateNow(r) PROVE RInv'
<1>1. RowTypes /\ HistoryTypes /\ CronTypes /\ Sound(r)
  BY DEF RInv, RTypes
<1>2. "active" \in Status \ {"staged"} /\ SetStatus(r, "active") /\ queue' = Without(r)
  BY DEF ActivateNow, Status
<1>3. RowTypes' /\ rule'[r].status = "active" /\ \A q \in Rule \ {r} : rule'[q] = rule[q]
  BY <1>1, <1>2, LeavesQueue
<1>4. HistoryTypes'
  BY <1>1 DEF ActivateNow, Silent, HistoryTypes
<1>5. Sound(r)'
  BY <1>1, <1>3 DEF ActivateNow, Silent, Sound, EndedIsOver, ActiveIsRipe, ListedIsRipe, Clear
<1>6. /\ UNCHANGED cron /\ UNCHANGED said /\ UNCHANGED ended /\ UNCHANGED revoking
      /\ early' = early \cup {r} /\ blurred' = blurred \cup {r}
  BY DEF ActivateNow, Silent
<1> QED BY <1>3, <1>4, <1>5, <1>6, OneRuleChanges

LEMMA RevokeNowKeepsRules == ASSUME RInv, NEW r \in Rule, RevokeNow(r) PROVE RInv'
<1>1. RowTypes /\ HistoryTypes /\ CronTypes /\ Sound(r)
  BY DEF RInv, RTypes
<1>2. "revoked" \in Status \ {"staged"} /\ SetStatus(r, "revoked") /\ queue' = Without(r)
  BY DEF RevokeNow, Status
<1>3. RowTypes' /\ rule'[r].status = "revoked" /\ \A q \in Rule \ {r} : rule'[q] = rule[q]
  BY <1>1, <1>2, LeavesQueue
<1>4. HistoryTypes'
  BY <1>1 DEF RevokeNow, Silent, HistoryTypes
<1>5. Sound(r)'
  BY <1>1, <1>3 DEF RevokeNow, Silent, Sound, EndedIsOver, ActiveIsRipe, ListedIsRipe, Clear
<1>6. /\ UNCHANGED cron /\ UNCHANGED said /\ UNCHANGED early /\ UNCHANGED revoking
      /\ ended' = ended \cup {r} /\ blurred' = blurred \cup {r}
  BY DEF RevokeNow, Silent
<1> QED BY <1>3, <1>4, <1>5, <1>6, OneRuleChanges

LEMMA DeleteKeepsRules == ASSUME RInv, NEW r \in Rule, Delete(r) PROVE RInv'
<1>1. RowTypes /\ HistoryTypes /\ CronTypes /\ Sound(r)
  BY DEF RInv, RTypes
<1>2. "deleted" \in Status \ {"staged"} /\ SetStatus(r, "deleted") /\ queue' = Without(r)
  BY DEF Delete, Status
<1>3. RowTypes' /\ rule'[r].status = "deleted" /\ \A q \in Rule \ {r} : rule'[q] = rule[q]
  BY <1>1, <1>2, LeavesQueue
<1>4. HistoryTypes'
  BY <1>1 DEF Delete, Silent, HistoryTypes
<1>5. Sound(r)'
  BY <1>1, <1>3 DEF Delete, Silent, Sound, EndedIsOver, ActiveIsRipe, ListedIsRipe, Clear
<1>6. /\ UNCHANGED cron /\ UNCHANGED said /\ UNCHANGED early /\ UNCHANGED revoking
      /\ ended' = ended \cup {r} /\ blurred' = blurred \cup {r}
  BY DEF Delete, Silent
<1> QED BY <1>3, <1>4, <1>5, <1>6, OneRuleChanges

LEMMA UpdateStatusKeepsRules ==
  ASSUME RInv, NEW r \in Rule, NEW s \in {"staged", "active", "revoked"}, UpdateStatus(r, s)
  PROVE  RInv'
<1>1. RowTypes /\ HistoryTypes /\ CronTypes /\ Sound(r)
  BY DEF RInv, RTypes
<1> DEFINE x == [status |-> s, ripe |-> FALSE]
<1>2. x \in RuleRow /\ rule' = [rule EXCEPT ![r] = x] /\ x.status = s
  BY DEF UpdateStatus, RuleRow, Status
<1>3. /\ queue' \in Seq(Rule) /\ Once(queue')
      /\ ToSet(queue') = IF x.status = "staged" THEN ToSet(queue) \cup {r} ELSE ToSet(queue) \ {r}
  <2>1. Without(r) \in Seq(Rule) /\ Once(Without(r)) /\ ToSet(Without(r)) = ToSet(queue) \ {r}
    BY <1>1, WithoutRemoves DEF RowTypes
  <2> DEFINE w == Without(r)
  <2> HIDE DEF w
  <2>2. w \in Seq(Rule) /\ Once(w) /\ ToSet(w) = ToSet(queue) \ {r}
    BY <2>1 DEF w
  <2>3. Append(w, r) \in Seq(Rule) /\ Once(Append(w, r)) /\ ToSet(Append(w, r)) = ToSet(w) \cup {r}
    BY <2>2, AppendAdds
  <2>4. queue' = IF s = "staged" THEN Append(w, r) ELSE w
    BY DEF UpdateStatus, w
  <2> QED BY <1>2, <2>2, <2>3, <2>4
<1> HIDE DEF x
<1>4. RowTypes' /\ rule'[r] = x /\ \A q \in Rule \ {r} : rule'[q] = rule[q]
  BY <1>1, <1>2, <1>3, RowChanges
<1>5. HistoryTypes'
  BY <1>1 DEF UpdateStatus, Silent, HistoryTypes
<1>6. UNCHANGED cron /\ UNCHANGED said /\ UNCHANGED revoking /\ blurred' = blurred \cup {r}
  BY DEF UpdateStatus, Silent
<1>7. EndedIsOver(r)' /\ ActiveIsRipe(r)'
  BY <1>1, <1>2, <1>4 DEF UpdateStatus, HistoryTypes, Sound, EndedIsOver, ActiveIsRipe
<1>8. ListedIsRipe(r)'
  <2> SUFFICES ASSUME NEW c \in Cron, r \in ToSet(cron[c].list)
               PROVE  s # "absent" /\ (s = "staged" => r \in early')
    BY <1>2, <1>4, <1>6 DEF ListedIsRipe
  <2> QED BY DEF UpdateStatus, Selected
<1>9. Sound(r)'
  BY <1>6, <1>7, <1>8 DEF Sound, Clear
<1>10. \A q \in Rule \ {r} : (q \in ended' => q \in ended) /\ (q \in early => q \in early')
  BY DEF UpdateStatus
<1> QED BY <1>4, <1>5, <1>6, <1>9, <1>10, OneRuleChanges

LEMMA RevokeKeepsRules == ASSUME RInv, NEW r \in Rule, Revoke(r) PROVE RInv'
<1>1. RowTypes /\ HistoryTypes /\ CronTypes /\ Sound(r)
  BY DEF RInv, RTypes
<1>2. PICK x \in RuleRow : x.status = "revoked" /\ rule' = [rule EXCEPT ![r] = x]
  BY <1>1, StatusChanges DEF Revoke, Status
<1>3. queue' \in Seq(Rule) /\ Once(queue') /\ ToSet(queue') = ToSet(queue) \ {r}
  BY <1>1 DEF Revoke, RowTypes
<1>4. RowTypes' /\ rule'[r].status = "revoked" /\ \A q \in Rule \ {r} : rule'[q] = rule[q]
  BY <1>1, <1>2, <1>3, RowChanges
<1>5. HistoryTypes'
  BY <1>1 DEF Revoke, HistoryTypes
<1>6. EndedIsOver(r)' /\ ActiveIsRipe(r)' /\ ListedIsRipe(r)'
  BY <1>1, <1>4 DEF Revoke, Sound, EndedIsOver, ActiveIsRipe, ListedIsRipe
<1>7. Clear(r)'
  <2> SUFFICES ASSUME r \notin blurred' PROVE RevokingIsRevoked(r)' /\ OneAnnounces(r)' /\ SaidIsTrue(r)'
    BY DEF Clear
  <2>1. ~Announcing(r)
    BY DEF Revoke
  <2>2. \A c \in Cron : ~Announces(c, r)'
    BY <2>1, CronsStay DEF Revoke, Announcing, Announces
  <2>3. Announcing(r)'
    BY DEF Revoke, Announcing
  <2> QED BY <1>4, <2>2, <2>3 DEF RevokingIsRevoked, OneAnnounces, SaidIsTrue
<1>8. Sound(r)'
  BY <1>6, <1>7 DEF Sound
<1>9. /\ UNCHANGED cron /\ UNCHANGED said /\ UNCHANGED early
      /\ \A q \in Rule \ {r} : /\ q \in ended' => q \in ended
                               /\ q \in blurred => q \in blurred'
                               /\ q \in revoking' <=> q \in revoking
  BY DEF Revoke
<1> QED BY <1>4, <1>5, <1>8, <1>9, OneRuleChanges

LEMMA NotifyRevokedKeepsRules == ASSUME RInv, NEW r \in Rule, NotifyRevoked(r) PROVE RInv'
<1>1. RowTypes /\ HistoryTypes /\ CronTypes /\ Sound(r)
  BY DEF RInv, RTypes
<1>2. RowTypes'
  BY <1>1 DEF NotifyRevoked, RowTypes
<1>3. HistoryTypes'
  BY <1>1 DEF NotifyRevoked, Trouble, Silent, HistoryTypes
<1>4. EndedIsOver(r)' /\ ActiveIsRipe(r)' /\ ListedIsRipe(r)'
  BY <1>1 DEF NotifyRevoked, Sound, EndedIsOver, ActiveIsRipe, ListedIsRipe
<1>5. Clear(r)'
  <2> SUFFICES ASSUME r \notin blurred' PROVE RevokingIsRevoked(r)' /\ OneAnnounces(r)' /\ SaidIsTrue(r)'
    BY DEF Clear
  <2>1. said' = [said EXCEPT ![r] = "revoked"] /\ UNCHANGED blurred /\ UNCHANGED rule /\ UNCHANGED cron
    BY DEF NotifyRevoked, Silent
  <2>2. RevokingIsRevoked(r) /\ OneAnnounces(r) /\ rule[r].status = "revoked"
    BY <1>1, <2>1 DEF NotifyRevoked, Sound, Clear, RevokingIsRevoked
  <2>3. said'[r] = "revoked"
    BY <1>1, <2>1 DEF HistoryTypes
  <2> QED BY <2>1, <2>2, <2>3 DEF RevokingIsRevoked, OneAnnounces, SaidIsTrue, Announces
<1>6. Sound(r)'
  BY <1>4, <1>5 DEF Sound
<1>7. /\ UNCHANGED cron /\ UNCHANGED rule /\ UNCHANGED early /\ UNCHANGED ended
      /\ \A q \in Rule \ {r} : /\ said'[q] = said[q]
                               /\ q \in blurred => q \in blurred'
                               /\ q \in revoking' <=> q \in revoking
  BY <1>1 DEF NotifyRevoked, Silent, HistoryTypes
<1> QED BY <1>2, <1>3, <1>6, <1>7, OneRuleChanges

\* One cron moves: what it lists was listed before or is due, and the rows stay.
LEMMA CronMoves ==
  ASSUME CronTypes, NEW c \in Cron, NEW x \in CronRecord, x.list # <<>> <=> x.at \in {"activate", "notify"},
         cron' = [cron EXCEPT ![c] = x]
  PROVE  /\ CronTypes' /\ cron'[c] = x
         /\ \A d \in Cron \ {c} : cron'[d] = cron[d]
         /\ \A q : Announces(c, q)' <=> x.at = "notify" /\ Head(x.list) = q
         /\ \A d \in Cron \ {c}, q \in Rule : Announces(d, q)' <=> Announces(d, q)
<1>1. cron' \in [Cron -> CronRecord] /\ cron'[c] = x /\ \A d \in Cron \ {c} : cron'[d] = cron[d]
  BY DEF CronTypes
<1> QED BY <1>1 DEF CronTypes, Announces

LEMMA BeMoves ==
  ASSUME CronTypes, NEW c \in Cron, NEW at \in {"down", "waiting", "activate", "notify"}, NEW list \in Seq(Rule),
         Be(c, at, list)
  PROVE  \E x \in CronRecord : x.at = at /\ x.list = list /\ cron' = [cron EXCEPT ![c] = x]
<1> DEFINE x == [cron[c] EXCEPT !.at = at, !.list = list]
<1>1. cron[c] \in CronRecord
  BY DEF CronTypes
<1>2. x \in CronRecord /\ x.at = at /\ x.list = list
  BY <1>1 DEF CronRecord
<1>3. cron' = [cron EXCEPT ![c] = x]
  BY <1>1 DEF Be, CronTypes, CronRecord
<1> QED BY <1>2, <1>3

LEMMA HeadAndTail ==
  ASSUME NEW s \in Seq(Rule), s # <<>>
  PROVE  /\ Head(s) \in Rule /\ Head(s) \in ToSet(s)
         /\ Tail(s) \in Seq(Rule) /\ ToSet(Tail(s)) \subseteq ToSet(s)
         /\ Len(s) = 1 <=> Tail(s) = <<>>
<1>1. Len(s) \in Nat /\ Len(s) > 0 /\ Head(s) = s[1] /\ s[1] \in Rule
  OBVIOUS
<1>2. Tail(s) \in Seq(Rule) /\ Len(Tail(s)) = Len(s) - 1 /\ \A i \in 1 .. Len(s) - 1 : Tail(s)[i] = s[i + 1]
  BY <1>1
<1>3. ToSet(Tail(s)) \subseteq ToSet(s)
  BY <1>1, <1>2 DEF ToSet
<1>4. Len(s) = 1 <=> Tail(s) = <<>>
  <2> DEFINE t == Tail(s)
  <2>1. t \in Seq(Rule) /\ Len(t) = Len(s) - 1
    BY <1>2
  <2> HIDE DEF t
  <2>2. Len(t) = 0 <=> t = <<>>
    BY <2>1, EmptySeq
  <2>3. Len(t) = 0 <=> Len(s) = 1
    BY <1>1, <2>1
  <2> QED BY <2>2, <2>3 DEF t
<1> QED BY <1>1, <1>2, <1>3, <1>4 DEF ToSet

\* The rest of a selection is not announced yet.
LEMMA NextRuleMoves ==
  ASSUME CronTypes, NEW c \in Cron, cron[c].at \in {"activate", "notify"}, NextRule(c)
  PROVE  /\ CronTypes'
         /\ \A q : ~Announces(c, q)'
         /\ \A d \in Cron \ {c}, q \in Rule : Announces(d, q)' <=> Announces(d, q)
         /\ \A d \in Cron : ToSet(cron'[d].list) \subseteq ToSet(cron[d].list)
<1>1. cron[c].list \in Seq(Rule) /\ cron[c].list # <<>>
  BY DEF CronTypes, CronRecord
<1> DEFINE at == IF Len(cron[c].list) = 1 THEN "waiting" ELSE "activate"
           list == Tail(cron[c].list)
<1>2. list \in Seq(Rule) /\ ToSet(list) \subseteq ToSet(cron[c].list)
  BY <1>1, HeadAndTail
<1>3. at \in {"waiting", "activate"} /\ (list # <<>> <=> at \in {"activate", "notify"})
  BY <1>1, HeadAndTail
<1>4. Be(c, at, list)
  BY DEF NextRule
<1> HIDE DEF at, list
<1>5. PICK x \in CronRecord : x.at = at /\ x.list = list /\ cron' = [cron EXCEPT ![c] = x]
  BY <1>2, <1>3, <1>4, BeMoves
<1>6. /\ CronTypes' /\ cron'[c] = x
      /\ \A d \in Cron \ {c} : cron'[d] = cron[d]
      /\ \A q : Announces(c, q)' <=> x.at = "notify" /\ Head(x.list) = q
      /\ \A d \in Cron \ {c}, q \in Rule : Announces(d, q)' <=> Announces(d, q)
  BY <1>3, <1>5, CronMoves
<1> QED BY <1>2, <1>3, <1>5, <1>6

LEMMA TickKeepsRules == ASSUME RInv, NEW c \in Cron, Tick(c) PROVE RInv'
<1>1. RowTypes /\ HistoryTypes /\ CronTypes
  BY DEF RInv, RTypes
<1>2. RowTypes' /\ HistoryTypes'
  BY <1>1 DEF Tick, Trouble, RowTypes, HistoryTypes
<1> DEFINE Picks(at, list) ==
      /\ Be(c, at, list) /\ (list # <<>> <=> at = "activate")
      /\ \A q \in ToSet(list) : rule[q].status = "staged" /\ rule[q].ripe
<1>3. PICK at \in {"waiting", "activate"}, list \in Seq(Rule) : Picks(at, list)
  <2>1. CASE Be(c, "waiting", <<>>)
    <3>1. <<>> \in Seq(Rule) /\ ToSet(<<>>) = {}
      BY DEF ToSet
    <3>2. Picks("waiting", <<>>)
      BY <2>1, <3>1
    <3> QED BY <3>1, <3>2
  <2>2. ASSUME NEW n \in 0 .. Len(queue), RowsFound(n),
               Be(c, IF n = 0 THEN "waiting" ELSE "activate", SubSeq(queue, 1, n))
        PROVE  \E at \in {"waiting", "activate"}, list \in Seq(Rule) : Picks(at, list)
    <3> DEFINE list == SubSeq(queue, 1, n)
    <3>1. queue \in Seq(Rule) /\ list \in Seq(Rule) /\ Len(list) = n /\ \A i \in 1 .. n : list[i] = queue[i]
      BY <1>1 DEF RowTypes
    <3> HIDE DEF list
    <3>2. list # <<>> <=> n # 0
      BY <3>1
    <3>3. \A q \in ToSet(list) : rule[q].status = "staged" /\ rule[q].ripe
      <4> SUFFICES ASSUME NEW i \in 1 .. n
                   PROVE  rule[queue[i]].status = "staged" /\ rule[queue[i]].ripe
        BY <3>1 DEF ToSet
      <4>1. queue[i] \in ToSet(queue)
        BY <3>1 DEF ToSet
      <4>2. rule[queue[i]].ripe
        BY <2>2 DEF RowsFound, Due
      <4> QED BY <1>1, <4>1, <4>2 DEF RowTypes
    <3>4. CASE n = 0
      <4>1. Be(c, "waiting", list)
        BY <2>2, <3>4 DEF list
      <4>2. Picks("waiting", list)
        BY <3>2, <3>3, <3>4, <4>1
      <4> QED BY <3>1, <4>2
    <3>5. CASE n # 0
      <4>1. Be(c, "activate", list)
        BY <2>2, <3>5 DEF list
      <4>2. Picks("activate", list)
        BY <3>2, <3>3, <3>5, <4>1
      <4> QED BY <3>1, <4>2
    <3> QED BY <3>4, <3>5
  <2> QED BY <2>1, <2>2 DEF Tick
<1>4. PICK x \in CronRecord : x.at = at /\ x.list = list /\ cron' = [cron EXCEPT ![c] = x]
  BY <1>1, <1>3, BeMoves
<1>5. /\ CronTypes' /\ cron'[c] = x
      /\ \A d \in Cron \ {c} : cron'[d] = cron[d]
      /\ \A q : Announces(c, q)' <=> x.at = "notify" /\ Head(x.list) = q
      /\ \A d \in Cron \ {c}, q \in Rule : Announces(d, q)' <=> Announces(d, q)
  BY <1>1, <1>3, <1>4, CronMoves
<1>6. UNCHANGED <<rule, said, ended, early, blurred, revoking>> /\ cron[c].at \in {"down", "waiting"}
  BY DEF Tick
<1>7. ASSUME NEW q \in Rule PROVE Sound(q)'
  <2>1. Sound(q)
    BY DEF RInv
  <2>2. \A d \in Cron : Announces(d, q)' <=> Announces(d, q)
    BY <1>3, <1>4, <1>5, <1>6 DEF Announces
  <2>3. ListedIsRipe(q)'
    BY <1>3, <1>4, <1>5, <1>6, <2>1 DEF Sound, ListedIsRipe
  <2>4. Announcing(q)' <=> Announcing(q)
    BY <1>6, <2>2 DEF Announcing, Announces
  <2>5. EndedIsOver(q)' /\ ActiveIsRipe(q)'
    BY <1>6, <2>1 DEF Sound, EndedIsOver, ActiveIsRipe
  <2>6. Clear(q)'
    BY <1>6, <2>1, <2>2, <2>4 DEF Sound, Clear, RevokingIsRevoked, OneAnnounces, SaidIsTrue
  <2> QED BY <2>3, <2>5, <2>6 DEF Sound
<1> QED BY <1>2, <1>5, <1>7 DEF RInv, RTypes

\* A cron goes on without a word about the rule it has just read or changed.
LEMMA GoesOn ==
  ASSUME RInv, NEW c \in Cron, RowTypes', HistoryTypes', CronTypes',
         UNCHANGED <<rule, said, ended, early, revoking>>,
         \A d \in Cron, q \in Rule : Announces(d, q)' => Announces(d, q),
         \A d \in Cron : ToSet(cron'[d].list) \subseteq ToSet(cron[d].list),
         blurred \subseteq blurred',
         \A d \in Cron, q \in Rule : Announces(d, q) /\ ~Announces(d, q)' => q \in blurred'
  PROVE  RInv'
<1>1. ASSUME NEW q \in Rule PROVE Sound(q)'
  <2>1. Sound(q)
    BY DEF RInv
  <2>2. EndedIsOver(q)' /\ ActiveIsRipe(q)' /\ ListedIsRipe(q)'
    BY <2>1 DEF Sound, EndedIsOver, ActiveIsRipe, ListedIsRipe
  <2>3. ASSUME q \notin blurred' PROVE RevokingIsRevoked(q)' /\ OneAnnounces(q)' /\ SaidIsTrue(q)'
    <3>1. \A d \in Cron : Announces(d, q)' <=> Announces(d, q)
      BY <2>3
    <3>2. Announcing(q)' <=> Announcing(q)
      BY <3>1 DEF Announcing, Announces
    <3> QED BY <2>1, <2>3, <3>1, <3>2 DEF Sound, Clear, RevokingIsRevoked, OneAnnounces, SaidIsTrue
  <2> QED BY <2>2, <2>3 DEF Sound, Clear
<1> QED BY <1>1 DEF RInv, RTypes

LEMMA ActivateKeepsRules == ASSUME RInv, NEW c \in Cron, Activate(c) PROVE RInv'
<1>1. RowTypes /\ HistoryTypes /\ CronTypes
  BY DEF RInv, RTypes
<1> DEFINE r == Head(cron[c].list)
<1>2. cron[c].at = "activate" /\ cron[c] \in CronRecord /\ cron[c].list \in Seq(Rule) /\ cron[c].list # <<>>
  BY <1>1 DEF Activate, CronTypes, CronRecord
<1>3. r \in Rule /\ r \in ToSet(cron[c].list)
  BY <1>2, HeadAndTail
<1>4. \A q : ~Announces(c, q)
  BY <1>2 DEF Announces
<1>5. CASE UNCHANGED <<rule, queue, blurred>> /\ NextRule(c)
  <2>1. UNCHANGED <<said, ended, early, revoking>>
    BY DEF Activate
  <2>2. RowTypes' /\ HistoryTypes'
    BY <1>1, <1>5 DEF Activate, Trouble, RowTypes, HistoryTypes
  <2>3. /\ CronTypes'
        /\ \A q : ~Announces(c, q)'
        /\ \A d \in Cron \ {c}, q \in Rule : Announces(d, q)' <=> Announces(d, q)
        /\ \A d \in Cron : ToSet(cron'[d].list) \subseteq ToSet(cron[d].list)
    BY <1>1, <1>2, <1>5, NextRuleMoves
  <2>4. \A d \in Cron, q \in Rule : Announces(d, q)' <=> Announces(d, q)
    BY <1>4, <2>3
  <2>5. blurred \subseteq blurred'
    BY <1>5
  <2> QED BY <1>5, <2>1, <2>2, <2>3, <2>4, <2>5, GoesOn
<1>6. CASE rule[r].status = "staged" /\ SetStatus(r, "active") /\ queue' = Without(r)
  <2>1. PICK s \in Rule : s = r
    BY <1>3
  <2> HIDE DEF r
  <2>2. "active" \in Status \ {"staged"}
    BY DEF Status
  <2>3. RowTypes' /\ rule'[s].status = "active" /\ rule'[s].ripe = rule[s].ripe /\ \A q \in Rule \ {s} : rule'[q] = rule[q]
    BY <1>1, <1>6, <2>1, <2>2, LeavesQueue
  <2>4. HistoryTypes'
    BY <1>1, <2>1 DEF r, Activate, Trouble, Silent, HistoryTypes
  <2>5. UNCHANGED <<said, ended, early, revoking>>
    BY DEF Activate
  <2>6. /\ CronTypes' /\ \A d \in Cron : ToSet(cron'[d].list) \subseteq ToSet(cron[d].list)
        /\ \A d \in Cron \ {c}, q \in Rule : Announces(d, q)' <=> Announces(d, q)
        /\ \A q : Announces(c, q)' => q = s
        /\ \A q \in Rule \ {s} : q \in blurred => q \in blurred'
        /\ s \in blurred' \/ (~Announcing(s) /\ Announces(c, s)')
    <3>1. CASE NextRule(c) /\ Silent(s)
      <4>1. /\ CronTypes'
            /\ \A q : ~Announces(c, q)'
            /\ \A d \in Cron \ {c}, q \in Rule : Announces(d, q)' <=> Announces(d, q)
            /\ \A d \in Cron : ToSet(cron'[d].list) \subseteq ToSet(cron[d].list)
        BY <1>1, <1>2, <3>1, NextRuleMoves
      <4>2. blurred' = blurred \cup {s}
        BY <3>1 DEF Silent
      <4> QED BY <4>1, <4>2
    <3>2. CASE /\ Be(c, "notify", cron[c].list)
               /\ blurred' = IF Announcing(s) THEN blurred \cup {s} ELSE blurred \ {s}
      <4>1. PICK x \in CronRecord : x.at = "notify" /\ x.list = cron[c].list /\ cron' = [cron EXCEPT ![c] = x]
        BY <1>1, <1>2, <3>2, BeMoves
      <4>2. /\ CronTypes' /\ cron'[c] = x
            /\ \A d \in Cron \ {c} : cron'[d] = cron[d]
            /\ \A q : Announces(c, q)' <=> x.at = "notify" /\ Head(x.list) = q
            /\ \A d \in Cron \ {c}, q \in Rule : Announces(d, q)' <=> Announces(d, q)
        BY <1>1, <1>2, <4>1, CronMoves
      <4>3. \A d \in Cron : ToSet(cron'[d].list) \subseteq ToSet(cron[d].list)
        BY <4>1, <4>2
      <4>4. \A q : Announces(c, q)' <=> q = s
        BY <2>1, <4>1, <4>2 DEF r
      <4> QED BY <3>2, <4>2, <4>3, <4>4
    <3>3. \/ NextRule(c) /\ Silent(s)
          \/ /\ Be(c, "notify", cron[c].list)
             /\ blurred' = IF Announcing(s) THEN blurred \cup {s} ELSE blurred \ {s}
      <4>1. rule[s].status = "staged" /\ rule' # rule
        BY <1>6, <2>1, <2>3 DEF r
      <4>2. s = Head(cron[c].list) /\ Activatable(s)
        BY <2>1, <4>1 DEF r, Activatable
      <4> QED BY <4>1, <4>2 DEF Activate
    <3> QED BY <3>1, <3>2, <3>3
  <2>7. ASSUME NEW q \in Rule \ {s} PROVE Sound(q)'
    <3>1. Sound(q)
      BY DEF RInv
    <3>2. \A d \in Cron : Announces(d, q)' <=> Announces(d, q)
      BY <1>4, <2>6
    <3> QED BY <2>3, <2>5, <2>6, <3>1, <3>2, OtherRulesKeep
  <2>8. Sound(s)'
    <3>1. Sound(s) /\ rule[s].status = "staged" /\ s \in ToSet(cron[c].list)
      BY <1>3, <1>6, <2>1 DEF RInv, r
    <3>2. EndedIsOver(s)' /\ ActiveIsRipe(s)' /\ ListedIsRipe(s)'
      BY <2>3, <2>5, <2>6, <3>1 DEF Sound, EndedIsOver, ActiveIsRipe, ListedIsRipe
    <3>3. Clear(s)'
      <4> SUFFICES ASSUME s \notin blurred'
                   PROVE  RevokingIsRevoked(s)' /\ OneAnnounces(s)' /\ SaidIsTrue(s)'
        BY DEF Clear
      <4>1. ~Announcing(s) /\ Announces(c, s)'
        BY <2>6
      <4>2. s \notin revoking' /\ \A d \in Cron \ {c} : ~Announces(d, s)'
        BY <2>5, <2>6, <4>1 DEF Announcing, Announces
      <4>3. Announcing(s)'
        BY <4>1 DEF Announcing, Announces
      <4> QED BY <2>3, <4>2, <4>3 DEF RevokingIsRevoked, OneAnnounces, SaidIsTrue
    <3> QED BY <3>2, <3>3 DEF Sound
  <2> QED BY <2>3, <2>4, <2>6, <2>7, <2>8 DEF RInv, RTypes
<1> QED BY <1>5, <1>6 DEF Activate, NoRow, Activatable

LEMMA NotifyActivatedKeepsRules == ASSUME RInv, NEW c \in Cron, NotifyActivated(c) PROVE RInv'
<1>1. RowTypes /\ HistoryTypes /\ CronTypes
  BY DEF RInv, RTypes
<1>2. cron[c].at = "notify" /\ cron[c] \in CronRecord /\ cron[c].list \in Seq(Rule) /\ cron[c].list # <<>>
  BY <1>1 DEF NotifyActivated, CronTypes, CronRecord
<1>3. PICK r \in Rule : r = Head(cron[c].list)
  BY <1>2, HeadAndTail
<1>4. Announces(c, r) /\ \A q : Announces(c, q) => q = r
  BY <1>2, <1>3 DEF Announces
<1>5. UNCHANGED <<rule, queue, ended, early, revoking>>
  BY DEF NotifyActivated
<1>6. RowTypes' /\ HistoryTypes'
  BY <1>1, <1>3, <1>5 DEF NotifyActivated, Trouble, Silent, RowTypes, HistoryTypes
<1>7. /\ CronTypes'
      /\ \A q : ~Announces(c, q)'
      /\ \A d \in Cron \ {c}, q \in Rule : Announces(d, q)' <=> Announces(d, q)
      /\ \A d \in Cron : ToSet(cron'[d].list) \subseteq ToSet(cron[d].list)
  BY <1>1, <1>2, NextRuleMoves DEF NotifyActivated
<1>8. CASE UNCHANGED said /\ blurred' = blurred \cup {r}
  <2>1. \A d \in Cron, q \in Rule : Announces(d, q)' => Announces(d, q)
    BY <1>7
  <2>2. \A d \in Cron, q \in Rule : Announces(d, q) /\ ~Announces(d, q)' => q \in blurred'
    BY <1>4, <1>7, <1>8
  <2>3. blurred \subseteq blurred' /\ UNCHANGED <<rule, said, ended, early, revoking>>
    BY <1>5, <1>8
  <2> QED BY <1>6, <1>7, <2>1, <2>2, <2>3, GoesOn
<1>9. CASE UNCHANGED blurred /\ said' = [said EXCEPT ![r] = "activated"]
  <2>1. said'[r] = "activated" /\ \A q \in Rule \ {r} : said'[q] = said[q]
    BY <1>1, <1>9 DEF HistoryTypes
  <2>2. ASSUME NEW q \in Rule \ {r} PROVE Sound(q)'
    <3>1. Sound(q)
      BY DEF RInv
    <3>2. \A d \in Cron : Announces(d, q)' <=> Announces(d, q)
      BY <1>4, <1>7
    <3> QED BY <1>5, <1>7, <1>9, <2>1, <3>1, <3>2, OtherRulesKeep
  <2>3. Sound(r)'
    <3>1. Sound(r)
      BY DEF RInv
    <3>2. EndedIsOver(r)' /\ ActiveIsRipe(r)' /\ ListedIsRipe(r)'
      BY <1>5, <1>7, <3>1 DEF Sound, EndedIsOver, ActiveIsRipe, ListedIsRipe
    <3>3. ASSUME r \notin blurred' PROVE RevokingIsRevoked(r)' /\ OneAnnounces(r)' /\ SaidIsTrue(r)'
      <4>1. RevokingIsRevoked(r) /\ rule[r].status = "active" /\ \A d \in Cron \ {c} : ~Announces(d, r)
        BY <1>4, <1>9, <3>1, <3>3 DEF Sound, Clear, OneAnnounces
      <4> QED BY <1>5, <1>7, <2>1, <4>1 DEF RevokingIsRevoked, OneAnnounces, SaidIsTrue
    <3> QED BY <3>2, <3>3 DEF Sound, Clear
  <2> QED BY <1>6, <1>7, <2>2, <2>3 DEF RInv, RTypes
<1> QED BY <1>3, <1>8, <1>9 DEF NotifyActivated, Silent

\* A cron stops: the notice it was about to publish is lost.
LEMMA DownKeepsRules ==
  ASSUME RInv, NEW c \in Cron, cron' = [cron EXCEPT ![c] = Down], trouble' \in Nat,
         blurred' = IF cron[c].at = "notify" THEN blurred \cup {Head(cron[c].list)} ELSE blurred,
         UNCHANGED <<rule, queue, revoking, said, forced, ended, early>>
  PROVE  RInv'
<1>1. RowTypes /\ HistoryTypes /\ CronTypes /\ cron[c] \in CronRecord
  BY DEF RInv, RTypes, CronTypes
<1>2. Down \in CronRecord /\ Down.list = <<>> /\ Down.at = "down" /\ ToSet(Down.list) = {}
  BY DEF Down, CronRecord, ToSet
<1>3. /\ CronTypes' /\ cron'[c] = Down
      /\ \A d \in Cron \ {c} : cron'[d] = cron[d]
      /\ \A q : ~Announces(c, q)'
      /\ \A d \in Cron \ {c}, q \in Rule : Announces(d, q)' <=> Announces(d, q)
  BY <1>1, <1>2, CronMoves
<1>4. \A d \in Cron : ToSet(cron'[d].list) \subseteq ToSet(cron[d].list)
  BY <1>2, <1>3
<1>5. blurred \subseteq blurred' /\ \A q : Announces(c, q) => q \in blurred'
  BY DEF Announces
<1>6. blurred' \subseteq Rule
  BY <1>1, HeadAndTail DEF CronTypes, CronRecord, HistoryTypes
<1>7. RowTypes' /\ HistoryTypes'
  BY <1>1, <1>6 DEF RowTypes, HistoryTypes
<1>8. \A d \in Cron, q \in Rule : Announces(d, q)' => Announces(d, q)
  BY <1>3
<1>9. \A d \in Cron, q \in Rule : Announces(d, q) /\ ~Announces(d, q)' => q \in blurred'
  BY <1>3, <1>5
<1> QED BY <1>3, <1>4, <1>5, <1>7, <1>8, <1>9, GoesOn

LEMMA StopKeepsRules == ASSUME RInv, NEW c \in Cron, Stop(c) PROVE RInv'
<1>1. RowTypes /\ HistoryTypes /\ CronTypes /\ cron[c] \in CronRecord
  BY DEF RInv, RTypes, CronTypes
<1>2. trouble' \in Nat
  BY <1>1 DEF Stop, Trouble, HistoryTypes
<1>3. CASE cron[c].closed
  BY <1>2, <1>3, DownKeepsRules DEF Stop
<1>4. CASE ~cron[c].closed
  <2> DEFINE x == [cron[c] EXCEPT !.closed = TRUE]
  <2>1. x \in CronRecord /\ x.at = cron[c].at /\ x.list = cron[c].list
    BY <1>1 DEF CronRecord
  <2>2. cron' = [cron EXCEPT ![c] = x]
    BY <1>4 DEF Stop
  <2> HIDE DEF x
  <2>3. x.list # <<>> <=> x.at \in {"activate", "notify"}
    BY <1>1, <2>1 DEF CronTypes
  <2>4. /\ CronTypes' /\ cron'[c] = x
        /\ \A d \in Cron \ {c} : cron'[d] = cron[d]
        /\ \A q : Announces(c, q)' <=> x.at = "notify" /\ Head(x.list) = q
        /\ \A d \in Cron \ {c}, q \in Rule : Announces(d, q)' <=> Announces(d, q)
    BY <1>1, <2>1, <2>2, <2>3, CronMoves
  <2>5. \A d \in Cron, q \in Rule : Announces(d, q)' <=> Announces(d, q)
    BY <2>1, <2>4 DEF Announces
  <2>6. \A d \in Cron : ToSet(cron'[d].list) \subseteq ToSet(cron[d].list)
    BY <2>1, <2>4
  <2>7. UNCHANGED <<rule, queue, revoking, said, forced, ended, early, blurred>>
    BY <1>4 DEF Stop
  <2>8. RowTypes' /\ HistoryTypes'
    BY <1>1, <1>2, <2>7 DEF RowTypes, HistoryTypes
  <2>9. blurred \subseteq blurred' /\ UNCHANGED <<rule, said, ended, early, revoking>>
    BY <2>7
  <2> QED BY <2>4, <2>5, <2>6, <2>8, <2>9, GoesOn
<1> QED BY <1>3, <1>4

LEMMA GracefulStopKeepsRules == ASSUME RInv, NEW c \in Cron, GracefulStop(c) PROVE RInv'
<1>1. RowTypes /\ HistoryTypes /\ CronTypes /\ <<>> \in Seq(Rule) /\ ToSet(<<>>) = {}
  BY DEF RInv, RTypes, ToSet
<1>2. PICK x \in CronRecord : x.at = "down" /\ x.list = <<>> /\ cron' = [cron EXCEPT ![c] = x]
  <2> DEFINE at == "down"   list == <<>>
  <2>1. Be(c, at, list) /\ at \in {"down", "waiting", "activate", "notify"} /\ list \in Seq(Rule)
    BY <1>1 DEF GracefulStop
  <2> HIDE DEF at, list
  <2>2. PICK x \in CronRecord : x.at = at /\ x.list = list /\ cron' = [cron EXCEPT ![c] = x]
    BY <1>1, <2>1, BeMoves
  <2> QED BY <2>2 DEF at, list
<1>3. /\ CronTypes' /\ cron'[c] = x
      /\ \A d \in Cron \ {c} : cron'[d] = cron[d]
      /\ \A q : Announces(c, q)' <=> x.at = "notify" /\ Head(x.list) = q
      /\ \A d \in Cron \ {c}, q \in Rule : Announces(d, q)' <=> Announces(d, q)
  BY <1>1, <1>2, CronMoves
<1>4. \A d \in Cron, q \in Rule : Announces(d, q)' <=> Announces(d, q)
  BY <1>2, <1>3 DEF GracefulStop, Announces
<1>5. \A d \in Cron : ToSet(cron'[d].list) \subseteq ToSet(cron[d].list)
  BY <1>1, <1>2, <1>3
<1>6. RowTypes' /\ HistoryTypes'
  BY <1>1 DEF GracefulStop, Trouble, RowTypes, HistoryTypes
<1>7. blurred \subseteq blurred' /\ UNCHANGED <<rule, said, ended, early, revoking>>
  BY DEF GracefulStop
<1> QED BY <1>3, <1>4, <1>5, <1>6, <1>7, GoesOn

LEMMA CronDiesKeepsRules == ASSUME RInv, NEW c \in Cron, CronDies(c) PROVE RInv'
<1>1. trouble' \in Nat
  BY DEF RInv, RTypes, HistoryTypes, CronDies, Trouble
<1> QED BY <1>1, DownKeepsRules DEF CronDies

LEMMA RulesInitially == RulesInit => RInv
<1> SUFFICES ASSUME RulesInit PROVE RInv
  OBVIOUS
<1>1. RowTypes
  BY DEF RulesInit, RowTypes, RuleRow, Status, Once, ToSet
<1>2. HistoryTypes
  BY DEF RulesInit, HistoryTypes
<1>3. Down \in CronRecord /\ Down.list = <<>> /\ Down.at = "down" /\ ToSet(Down.list) = {}
  BY DEF Down, CronRecord, ToSet
<1>4. CronTypes
  BY <1>3 DEF RulesInit, CronTypes
<1>5. ASSUME NEW q \in Rule PROVE Sound(q)
  BY <1>3 DEF RulesInit, Sound, EndedIsOver, ActiveIsRipe, ListedIsRipe, Clear, RevokingIsRevoked,
              OneAnnounces, SaidIsTrue, Announces
<1> QED BY <1>1, <1>2, <1>4, <1>5 DEF RInv, RTypes

LEMMA RulesInductive == RInv /\ [RulesNext]_ruleVars => RInv'
<1> SUFFICES ASSUME RInv, [RulesNext]_ruleVars PROVE RInv'
  OBVIOUS
<1>1. ASSUME NEW c \in Cron, CronStep(c) PROVE RInv'
  BY <1>1, TickKeepsRules, ActivateKeepsRules, NotifyActivatedKeepsRules DEF CronStep
<1>2. ASSUME NEW c \in Cron, Stop(c) \/ GracefulStop(c) \/ CronDies(c) PROVE RInv'
  BY <1>2, StopKeepsRules, GracefulStopKeepsRules, CronDiesKeepsRules
<1>3. ASSUME NEW r \in Rule, Create(r) \/ WindowPasses(r) \/ ActivateNow(r) \/ RevokeNow(r) PROVE RInv'
  BY <1>3, CreateKeepsRules, WindowKeepsRules, ActivateNowKeepsRules, RevokeNowKeepsRules
<1>4. ASSUME NEW r \in Rule, Revoke(r) \/ NotifyRevoked(r) \/ Delete(r) PROVE RInv'
  BY <1>4, RevokeKeepsRules, NotifyRevokedKeepsRules, DeleteKeepsRules
<1>5. ASSUME NEW r \in Rule, NEW s \in {"staged", "active", "revoked"}, UpdateStatus(r, s) PROVE RInv'
  BY <1>5, UpdateStatusKeepsRules
<1>6. CASE UNCHANGED ruleVars
  BY <1>6 DEF ruleVars, RInv, RTypes, RowTypes, CronTypes, HistoryTypes, Sound, EndedIsOver, ActiveIsRipe,
              ListedIsRipe, Clear, RevokingIsRevoked, OneAnnounces, SaidIsTrue, Announces, Announcing
<1> QED BY <1>1, <1>2, <1>3, <1>4, <1>5, <1>6 DEF RulesNext

\* For any rules and crons, with selections of the past, failed updates and
\* notices, restarts and the unguarded UpdateStatus: what was revoked stays
\* revoked, nothing is active before its time, and the last notice is true.
THEOREM RulesAreSound == RulesSpec => []RulesInv
<1>1. RulesSpec => []RInv
  BY RulesInitially, RulesInductive, PTL DEF RulesSpec
<1> QED BY <1>1, RInvIsSound, PTL
====
