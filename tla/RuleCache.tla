----------------------------- MODULE RuleCache -----------------------------
(***************************************************************************)
(* The cached store of the auto engine: the active rules of a user, kept   *)
(* for five minutes.  Evaluations load them on a miss and act on them;     *)
(* changes made through the store write to PostgreSQL and then empty the   *)
(* cache; changes of other components (the rules API, the Revoker, the     *)
(* cron) do not.  The rules are abstracted to a generation number.         *)
(***************************************************************************)
EXTENDS Integers, FiniteSets

CONSTANTS Eval,       \* concurrent evaluations
          MaxChanges  \* bound: changes of the stored rules

ASSUME RuleCacheBounds == MaxChanges \in Nat

VARIABLES
  stored,   \* generation of the rules in PostgreSQL
  entry,    \* the cache entry: the generation, whether its time is over
  eval,     \* each evaluation: where it is, the generation it holds
  change,   \* a change through the store: written, not yet invalidated
  excused    \* history: generations the cache may keep although they are old

cacheVars == <<stored, entry, eval, change, excused>>

NoEntry == [full |-> FALSE, gen |-> 0, over |-> FALSE]
NoEvaluation == [at |-> "idle", gen |-> 0]

CacheInit ==
  /\ stored = 0 /\ entry = NoEntry /\ eval = [e \in Eval |-> NoEvaluation]
  /\ change = FALSE /\ excused = {}

\* Loads that have read the present generation and not yet stored it: a change
\* now makes what they store old.
InFlight == {eval[e].gen : e \in {e \in Eval : eval[e].at = "set"}}

-----------------------------------------------------------------------------

\* RuleCache.Get: the entry is read under the read lock; an entry whose time is
\* over is deleted in a second section, whatever it holds by then.
GetCached(e) ==
  /\ eval[e].at = "idle"
  /\ eval' = [eval EXCEPT ![e] =
       IF ~entry.full THEN [at |-> "load", gen |-> 0]
       ELSE IF entry.over THEN [at |-> "drop", gen |-> 0]
       ELSE [at |-> "match", gen |-> entry.gen]]
  /\ UNCHANGED <<stored, entry, change, excused>>

DropOver(e) ==
  /\ eval[e].at = "drop" /\ entry' = NoEntry
  /\ eval' = [eval EXCEPT ![e].at = "load"]
  /\ UNCHANGED <<stored, change, excused>>

\* A failed load ends the evaluation with an error.
GetActiveRules(e) ==
  /\ eval[e].at = "load"
  /\ \E at \in {"set", "idle"} : eval' = [eval EXCEPT ![e] = [at |-> at, gen |-> IF at = "set" THEN stored ELSE 0]]
  /\ UNCHANGED <<stored, entry, change, excused>>

SetCached(e) ==
  /\ eval[e].at = "set" /\ eval' = [eval EXCEPT ![e].at = "match"]
  /\ entry' = [full |-> TRUE, gen |-> eval[e].gen, over |-> FALSE]
  /\ UNCHANGED <<stored, change, excused>>

\* Evaluate: a rule or the language model picks one of the rules held and its
\* action runs, whatever has become of the rule; or nothing matches.  Names the
\* model makes up are turned into no match, so no rule is staged here.
EvaluateEmail(e) ==
  /\ eval[e].at = "match"
  /\ \E at \in {"usage", "idle"} : eval' = [eval EXCEPT ![e] = [at |-> at, gen |-> IF at = "usage" THEN eval[e].gen ELSE 0]]
  /\ UNCHANGED <<stored, entry, change, excused>>

\* IncrementUsage reads the rule, counts, and empties the cache; the rule may be
\* gone or a statement fail, then the cache stays.
IncrementUsage(e) ==
  /\ eval[e].at = "usage" /\ eval' = [eval EXCEPT ![e] = NoEvaluation]
  /\ entry' \in {entry, NoEntry}
  /\ UNCHANGED <<stored, change, excused>>

ChangedWhile == excused \cup InFlight

\* Create, Update, UpdateStatus and Delete of the store: the statement ...
ChangeRules ==
  /\ ~change /\ stored < MaxChanges
  /\ stored' = stored + 1 /\ change' = TRUE
  /\ excused' = ChangedWhile
  /\ UNCHANGED <<entry, eval>>

Emptied_Kept == entry
Emptied == NoEntry

\* ... and then InvalidateUser.
InvalidateUser ==
  /\ change /\ change' = FALSE /\ entry' = Emptied
  /\ UNCHANGED <<stored, eval, excused>>

\* A crash of the process between the two empties the cache anyway.
ProcessDies ==
  /\ change' = FALSE /\ entry' = NoEntry /\ eval' = [e \in Eval |-> NoEvaluation]
  /\ UNCHANGED <<stored, excused>>

\* rules.Store, Revoker and Activator: the statement only.
ChangeElsewhere ==
  /\ stored < MaxChanges /\ stored' = stored + 1
  /\ excused' = ChangedWhile \cup (IF entry.full THEN {entry.gen} ELSE {})
  /\ UNCHANGED <<entry, eval, change>>

TimeIsOver ==
  /\ entry.full /\ ~entry.over /\ entry' = [entry EXCEPT !.over = TRUE]
  /\ UNCHANGED <<stored, eval, change, excused>>

EvalStep(e) == GetCached(e) \/ DropOver(e) \/ GetActiveRules(e) \/ SetCached(e) \/ EvaluateEmail(e) \/ IncrementUsage(e)
CacheNext ==
  \/ \E e \in Eval : EvalStep(e)
  \/ ChangeRules \/ InvalidateUser \/ ProcessDies \/ ChangeElsewhere \/ TimeIsOver

CacheSpec == CacheInit /\ [][CacheNext]_cacheVars

-----------------------------------------------------------------------------

CacheTypeOK ==
  /\ stored \in 0 .. MaxChanges /\ change \in BOOLEAN /\ excused \subseteq 0 .. MaxChanges
  /\ entry \in [full : BOOLEAN, gen : 0 .. MaxChanges, over : BOOLEAN] /\ (entry.over => entry.full)
  /\ eval \in [Eval -> [at : {"idle", "drop", "load", "set", "match", "usage"}, gen : 0 .. MaxChanges]]

\* Old rules are served from the cache only while a change is being made through
\* the store, or when the change came from elsewhere or overlapped a load.
OldRulesHaveACause == entry.full /\ entry.gen # stored => change \/ entry.gen \in excused

\* The cache of rules is old only for the reasons OldRulesHaveACause names.
CacheInv == CacheTypeOK /\ OldRulesHaveACause
=============================================================================
