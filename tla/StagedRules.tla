---------------------------- MODULE StagedRules ----------------------------
(***************************************************************************)
(* The life of an auto-handle rule: staged for 48 hours, then active, then *)
(* revoked.  The cron reads the rules whose time has come and activates    *)
(* them one by one (its FOR UPDATE is outside of any transaction and locks *)
(* nothing); the rules API, the Revoker and the unguarded UpdateStatus of  *)
(* the auto store change the same rows meanwhile.  A notice about a change *)
(* is published after the change and may fail.                             *)
(***************************************************************************)
EXTENDS Integers, Sequences, FiniteSets, SequencesExt

CONSTANTS Rule, Cron,
          TickLimit,   \* LIMIT of the cron's query
          MaxTrouble,  \* bound: crons stopped, cancelled or killed, statements and publications that fail
          MaxForced    \* bound: calls of UpdateStatus

ASSUME StagedBounds == {TickLimit, MaxTrouble, MaxForced} \subseteq Nat /\ TickLimit > 0

VARIABLES
  rule,      \* the rows: status, and whether staged_at is more than 48 hours ago
  queue,     \* the staged rows by staged_at
  cron,      \* each cron: where it is, whether stopCh is closed, what it selected
  revoking,  \* rules the Revoker has updated and not yet announced
  said,      \* the last notice published about each rule
  trouble, forced,
  ended,     \* history: rules that were revoked and not put back by UpdateStatus
  early,     \* history: rules staged again after a cron had selected them, or activated by the API
  blurred    \* history: rules whose last change had no notice, or notices crossing

ruleVars == <<rule, queue, cron, revoking, said, trouble, forced, ended, early, blurred>>

Status == {"absent", "staged", "active", "revoked", "deleted"}
Down == [at |-> "down", closed |-> FALSE, list |-> <<>>]

RulesInit ==
  /\ rule = [r \in Rule |-> [status |-> "absent", ripe |-> FALSE]]
  /\ queue = <<>> /\ cron = [c \in Cron |-> Down] /\ revoking = {}
  /\ said = [r \in Rule |-> "nothing"]
  /\ trouble = 0 /\ forced = 0
  /\ ended = {} /\ early = {} /\ blurred = {}

Without(r) ==
  IF r \in ToSet(queue) THEN RemoveAt(queue, CHOOSE i \in DOMAIN queue : queue[i] = r) ELSE queue
SetStatus(r, s) == rule' = [rule EXCEPT ![r].status = s]
Trouble == trouble < MaxTrouble /\ trouble' = trouble + 1
\* A change nobody is told about, or one that crosses the notice of another.
Selected(r) == \E c \in Cron : r \in ToSet(cron[c].list)
Announcing(r) == r \in revoking \/ \E c \in Cron : cron[c].at = "notify" /\ Head(cron[c].list) = r
Silent(r) == blurred' = blurred \cup {r}

-----------------------------------------------------------------------------
\* The rules API and the auto store.

Create(r) ==
  /\ rule[r].status = "absent"
  /\ SetStatus(r, "staged") /\ queue' = Append(queue, r)
  /\ UNCHANGED <<cron, revoking, said, trouble, forced, ended, early, blurred>>

\* 48 hours after staged_at; rules ripen in the order they were staged.
WindowPasses(r) ==
  /\ rule[r].status = "staged" /\ ~rule[r].ripe
  /\ \E i \in DOMAIN queue : queue[i] = r /\ \A j \in 1 .. i - 1 : rule[queue[j]].ripe
  /\ rule' = [rule EXCEPT ![r].ripe = TRUE]
  /\ UNCHANGED <<queue, cron, revoking, said, trouble, forced, ended, early, blurred>>

\* rules.Store.Activate: no waiting time, no notice.
ActivateNow(r) ==
  /\ rule[r].status = "staged"
  /\ SetStatus(r, "active") /\ queue' = Without(r)
  /\ early' = early \cup {r} /\ Silent(r)
  /\ UNCHANGED <<cron, revoking, said, trouble, forced, ended>>

\* rules.Store.Revoke: staged or active, no notice.
RevokeNow(r) ==
  /\ rule[r].status \in {"staged", "active"}
  /\ SetStatus(r, "revoked") /\ queue' = Without(r)
  /\ ended' = ended \cup {r} /\ Silent(r)
  /\ UNCHANGED <<cron, revoking, said, trouble, forced, early>>

\* Revoker.Revoke: active rules only, the notice is published afterwards.
Revoke(r) ==
  /\ rule[r].status = "active"
  /\ SetStatus(r, "revoked") /\ revoking' = revoking \cup {r}
  /\ ended' = ended \cup {r}
  /\ blurred' = IF Announcing(r) THEN blurred \cup {r} ELSE blurred \ {r}
  /\ UNCHANGED <<queue, cron, said, trouble, forced, early>>

NotifyRevoked(r) ==
  /\ r \in revoking /\ revoking' = revoking \ {r}
  /\ \/ said' = [said EXCEPT ![r] = "revoked"] /\ UNCHANGED <<trouble, blurred>>
     \/ Trouble /\ Silent(r) /\ UNCHANGED said     \* name not found or not published
  /\ UNCHANGED <<rule, queue, cron, forced, ended, early>>

\* auto.RuleStore.UpdateStatus has no guard on the present status and sets the
\* two other dates to NULL, so a rule staged by it waits again.
UpdateStatus(r, s) ==
  /\ forced < MaxForced /\ forced' = forced + 1
  /\ rule[r].status \notin {"absent", "deleted"}
  /\ rule' = [rule EXCEPT ![r] = [status |-> s, ripe |-> FALSE]]
  /\ queue' = IF s = "staged" THEN Append(Without(r), r) ELSE Without(r)
  /\ ended' = IF s = "revoked" THEN ended \cup {r} ELSE ended \ {r}
  /\ early' = IF s = "active" \/ (s = "staged" /\ Selected(r)) THEN early \cup {r} ELSE early
  /\ Silent(r)
  /\ UNCHANGED <<cron, revoking, said, trouble>>

Delete(r) ==
  /\ rule[r].status \notin {"absent", "deleted"}
  /\ SetStatus(r, "deleted") /\ queue' = Without(r)
  /\ ended' = ended \cup {r} /\ Silent(r)
  /\ UNCHANGED <<cron, revoking, said, trouble, forced, early>>

-----------------------------------------------------------------------------
\* StagingCron.

Be(c, at, list) == cron' = [cron EXCEPT ![c].at = at, ![c].list = list]

Due_All(r) == TRUE
Due_Within(r) == ~rule[r].ripe
Due(r) == rule[r].ripe
\* The n rows the query returns: by staged_at, so those that are due come first.
RowsFound(n) ==
  /\ n <= TickLimit /\ \A i \in 1 .. n : Due(queue[i])
  /\ n < TickLimit /\ n < Len(queue) => ~Due(queue[n + 1])

\* Start runs a tick at once; the interval starts the others.
Tick(c) ==
  /\ cron[c].at \in {"down", "waiting"}
  /\ \/ /\ \E n \in 0 .. Len(queue) :
             RowsFound(n) /\ Be(c, IF n = 0 THEN "waiting" ELSE "activate", SubSeq(queue, 1, n))
        /\ UNCHANGED trouble
     \/ Trouble /\ Be(c, "waiting", <<>>)          \* the query fails
  /\ UNCHANGED <<rule, queue, revoking, said, forced, ended, early, blurred>>

\* What is left of the selection; tick returns when nothing is.
NextRule(c) == Be(c, IF Len(cron[c].list) = 1 THEN "waiting" ELSE "activate", Tail(cron[c].list))
Activatable(r) == rule[r].status = "staged"
NoRow(c) == NextRule(c)

\* Activator.Activate: the guarded update.  An answer that is lost leaves the
\* rule active without a notice.
Activate(c) ==
  LET r == Head(cron[c].list) IN
  /\ cron[c].at = "activate"
  /\ \/ /\ Activatable(r)
        /\ SetStatus(r, "active") /\ queue' = Without(r)
        /\ \/ /\ Be(c, "notify", cron[c].list)
              /\ blurred' = IF Announcing(r) THEN blurred \cup {r} ELSE blurred \ {r}
              /\ UNCHANGED trouble
           \/ Trouble /\ Silent(r) /\ NextRule(c)
     \/ ~Activatable(r) /\ NoRow(c) /\ UNCHANGED <<rule, queue, trouble, blurred>>
     \/ Trouble /\ NextRule(c) /\ UNCHANGED <<rule, queue, blurred>>
  /\ UNCHANGED <<revoking, said, forced, ended, early>>

NotifyActivated(c) ==
  LET r == Head(cron[c].list) IN
  /\ cron[c].at = "notify" /\ NextRule(c)
  /\ \/ /\ said' = [said EXCEPT ![r] = "activated"] /\ UNCHANGED <<trouble, blurred>>
     \/ Trouble /\ Silent(r) /\ UNCHANGED said
  /\ UNCHANGED <<rule, queue, revoking, forced, ended, early>>

\* Stop closes the channel of a running cron (a second call before it has
\* stopped closes it again and the process dies).
Stop(c) ==
  /\ cron[c].at # "down"
  /\ \/ cron[c].closed /\ cron' = [cron EXCEPT ![c] = Down] /\ UNCHANGED trouble
     \/ ~cron[c].closed /\ Trouble /\ cron' = [cron EXCEPT ![c].closed = TRUE]
  /\ blurred' = IF cron[c].closed /\ cron[c].at = "notify" THEN blurred \cup {Head(cron[c].list)} ELSE blurred
  /\ UNCHANGED <<rule, queue, revoking, said, forced, ended, early>>

\* gracefulStop: the tick runs in the same goroutine, so there is none to wait for.
GracefulStop(c) ==
  /\ cron[c].at = "waiting"
  /\ IF cron[c].closed THEN UNCHANGED trouble ELSE Trouble      \* stopCh, or the context
  /\ Be(c, "down", <<>>)
  /\ UNCHANGED <<rule, queue, revoking, said, forced, ended, early, blurred>>

CronDies(c) ==
  /\ Trouble /\ cron[c].at # "down" /\ cron' = [cron EXCEPT ![c] = Down]
  /\ blurred' = IF cron[c].at = "notify" THEN blurred \cup {Head(cron[c].list)} ELSE blurred
  /\ UNCHANGED <<rule, queue, revoking, said, forced, ended, early>>

CronStep(c) == Tick(c) \/ Activate(c) \/ NotifyActivated(c)
RulesNext ==
  \/ \E c \in Cron : CronStep(c) \/ Stop(c) \/ GracefulStop(c) \/ CronDies(c)
  \/ \E r \in Rule : \/ Create(r) \/ WindowPasses(r) \/ ActivateNow(r) \/ RevokeNow(r)
                     \/ Revoke(r) \/ NotifyRevoked(r) \/ Delete(r)
                     \/ \E s \in {"staged", "active", "revoked"} : UpdateStatus(r, s)

RulesFairness == \A c \in Cron : WF_ruleVars(CronStep(c))
RulesSpec == RulesInit /\ [][RulesNext]_ruleVars /\ RulesFairness

-----------------------------------------------------------------------------

RulesTypeOK ==
  /\ rule \in [Rule -> [status : Status, ripe : BOOLEAN]]
  /\ queue \in Seq(Rule) /\ ToSet(queue) = {r \in Rule : rule[r].status = "staged"}
  /\ cron \in [Cron -> [at : {"down", "waiting", "activate", "notify"}, closed : BOOLEAN, list : Seq(Rule)]]
  /\ \A c \in Cron : cron[c].list # <<>> <=> cron[c].at \in {"activate", "notify"}
  /\ revoking \subseteq Rule /\ said \in [Rule -> {"nothing", "activated", "revoked"}]
  /\ {trouble, forced} \subseteq Nat
  /\ ended \subseteq Rule /\ early \subseteq Rule /\ blurred \subseteq Rule

\* A rule the user revoked never handles mail again, although crons hold it in
\* selections made before; only an explicit UpdateStatus brings it back.
RevokedStaysRevoked == \A r \in ended : rule[r].status \in {"revoked", "deleted"}

\* A cron makes a rule active only when its 48 hours are over, unless the rule
\* was staged anew after the cron had selected it.
WindowIsKept == \A r \in Rule : rule[r].status = "active" => rule[r].ripe \/ r \in early

\* When nothing is being announced, the last notice about an active or revoked
\* rule is true, except after changes that send none, failed notices, and an
\* activation whose notice a revocation overtook.
LastNoticeIsTrue ==
  \A r \in Rule \ blurred :
    ~Announcing(r) => /\ rule[r].status = "active" => said[r] = "activated"
                      /\ rule[r].status = "revoked" => said[r] = "revoked"

\* A rule whose window has passed does not stay staged, however long the queue:
\* crons restart, failed updates are tried again.
Overdue(r) == rule[r].status = "staged" /\ rule[r].ripe
StagedIsDecided == \A r \in Rule : Overdue(r) ~> ~Overdue(r)

\* Two crons with selections of the past, the API and the Revoker: a revoked rule
\* stays revoked, none is active before its time, and the last notice is true.
RulesInv == RulesTypeOK /\ RevokedStaysRevoked /\ WindowIsKept /\ LastNoticeIsTrue
=============================================================================
