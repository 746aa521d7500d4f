SPECIFICATION Spec
CONSTANTS
  r1 = r1
  r2 = r2
  Rule = {r1, r2}
  c1 = c1
  c2 = c2
  Cron = {c1, c2}
  TickLimit = 1
  MaxTrouble = 1
  MaxForced = 1
  e1 = e1
  e2 = e2
  Eval = {e1, e2}
  MaxChanges = 2
  Text = {1, 2}
  BadPattern = 2
  MaxNumber = 2
  MaxConditions = 2
  MaxRules = 2
INVARIANTS RulesInv CacheInv PredicateInv 
PROPERTY StagedIsDecided
CHECK_DEADLOCK FALSE
