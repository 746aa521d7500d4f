------------------------------ MODULE MCIngest ------------------------------
\* How mail gets into the system: polling, its quota, the push notifications,
\* the certificates they are checked against, the tokens of the accounts, the
\* backfill, and the archive that takes old mail out again.  They share no row
\* (the backfill fetches the last 90 days, the archive takes what is older) and
\* no variable: in a behaviour one of them moves and the others stay in their
\* initial state, so TLC explores the sum of their state spaces and not the
\* product.  An action is fair if its part is the one that moves.
EXTENDS MailPolling, PollQuota, WebhookIntake, CertCache, OAuthTokens, Backfill, ArchiveJob

VARIABLE part   \* the part that moves

ingest == <<part, pollVars, quotaVars, intakeVars, certVars, oauthVars, backfillVars, archiveVars>>

Parts == {"poll", "quota", "intake", "cert", "oauth", "backfill", "archive"}

Init ==
  /\ part \in Parts
  /\ PollInit /\ QuotaInit /\ IntakeInit /\ CertInit /\ OAuthInit /\ BackfillInit /\ ArchiveInit
  /\ part # "poll" => provider = "gmail"

PollMoves == part = "poll" /\ UNCHANGED <<part, quotaVars, intakeVars, certVars, oauthVars, backfillVars, archiveVars>>
QuotaMoves == part = "quota" /\ UNCHANGED <<part, pollVars, intakeVars, certVars, oauthVars, backfillVars, archiveVars>>
IntakeMoves == part = "intake" /\ UNCHANGED <<part, pollVars, quotaVars, certVars, oauthVars, backfillVars, archiveVars>>
CertMoves == part = "cert" /\ UNCHANGED <<part, pollVars, quotaVars, intakeVars, oauthVars, backfillVars, archiveVars>>
OAuthMoves == part = "oauth" /\ UNCHANGED <<part, pollVars, quotaVars, intakeVars, certVars, backfillVars, archiveVars>>
BackfillMoves == part = "backfill" /\ UNCHANGED <<part, pollVars, quotaVars, intakeVars, certVars, oauthVars, archiveVars>>
ArchiveMoves == part = "archive" /\ UNCHANGED <<part, pollVars, quotaVars, intakeVars, certVars, oauthVars, backfillVars>>

Next ==
  \/ PollMoves /\ PollNext
  \/ QuotaMoves /\ QuotaNext
  \/ IntakeMoves /\ IntakeNext
  \/ CertMoves /\ CertNext
  \/ OAuthMoves /\ OAuthNext
  \/ BackfillMoves /\ BackfillNext
  \/ ArchiveMoves /\ ArchiveNext

Fairness ==
  /\ WF_ingest(PollMoves /\ IntervalElapses)
  /\ WF_ingest(PollMoves /\ Tick)
  /\ WF_ingest(PollMoves /\ Restart)
  /\ WF_ingest(PollMoves /\ FullSync)
  /\ \A w \in Worker : WF_ingest(PollMoves /\ Work(w))
  /\ WF_ingest(QuotaMoves /\ WindowEnds)
  /\ \A p \in Poll : WF_ingest(QuotaMoves /\ Expire(p))
  /\ WF_ingest(BackfillMoves /\ HourPasses)
  /\ \A w \in Consumer : WF_ingest(BackfillMoves /\ ConsumerStep(w))

Spec == Init /\ [][Next]_ingest /\ Fairness

-----------------------------------------------------------------------------

\* A genuine notification is let in, and makes one job that is not forgotten.
NotificationsInv == CertInv /\ IntakeInv

\* Polling goes on: a poller that asks gets its quota again and again, and in
\* the end the cursor has seen the whole mailbox.
PollingGoesOn == QuotaReturns /\ CatchesUp
=============================================================================
