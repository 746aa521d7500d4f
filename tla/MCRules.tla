------------------------------- MODULE MCRules -------------------------------
\* The staged rules, the cache of the auto engine, the predicates and the routing
\* share no variable: in a behaviour one of them moves and the others stay in
\* their initial state, so TLC explores the sum of their state spaces and not the
\* product.
EXTENDS StagedRules, RuleCache, RulePredicate, EmailRouting

VARIABLE part   \* the part that moves

rules == <<part, ruleVars, cacheVars, asked, email>>

Init ==
  /\ part \in {"rules", "cache", "predicate", "routing"}
  /\ RulesInit /\ CacheInit /\ PredicateInit /\ RoutingInit

RulesMove == part = "rules" /\ UNCHANGED <<part, cacheVars, asked, email>>

Next ==
  \/ RulesMove /\ RulesNext
  \/ part = "cache" /\ CacheNext /\ UNCHANGED <<part, ruleVars, asked, email>>
  \/ part = "predicate" /\ Ask /\ UNCHANGED <<part, ruleVars, cacheVars, email>>
  \/ part = "routing" /\ Arrive /\ UNCHANGED <<part, ruleVars, cacheVars, asked>>

Fairness == \A c \in Cron : WF_rules(RulesMove /\ CronStep(c))

Spec == Init /\ [][Next]_rules /\ Fairness
=============================================================================
