----------------------------- MODULE SendPipeline -----------------------------
(***************************************************************************)
(* The way of a mail from the decision API to the provider: the sync       *)
(* service (DecisionFlow) queues a job when a draft is approved, the       *)
(* ingestion worker (SendConsumer) delivers it.  They share the stream and *)
(* the outbox and nothing else; they run in different processes.           *)
(***************************************************************************)
EXTENDS DecisionFlow

CONSTANTS
  Workers, FetchMax, MaxAttempts, NoJob   \* of SendConsumer

VARIABLES
  acked, out, worker, accepted, dropped, confirmed   \* of SendConsumer

Mail == INSTANCE SendConsumer

mailVars == <<acked, out, worker, accepted, dropped, confirmed>>
pipelineVars == <<vars, mailVars>>

PipelineInit == Init /\ Mail!MailInit

SyncStep == Next /\ UNCHANGED mailVars

IngestionStep == Mail!MailNext /\ UNCHANGED <<cvars, locks, req, history>>

PipelineNext == SyncStep \/ IngestionStep

PipelineSpec == PipelineInit /\ [][PipelineNext]_pipelineVars

\* The worker and JetStream as in SendConsumer; nothing of the sync service:
\* once an approval is committed its part is done.
FairPipelineSpec == PipelineSpec /\ Mail!MailFairness

-------------------------------------------------------------------------------
(* Properties *)

\* What is queued was asked for, with a text the draft has had: the stream
\* never holds a job the user did not request (approval.go:92-116).
JobsWereAskedFor ==
  \A i \in DOMAIN stream :
    stream[i].draft \in gate /\ stream[i].body \in texts[stream[i].draft]

\* An approved draft is in the end delivered, or given up for a reason no
\* retry can mend, whatever the worker, JetStream or the network do to its job
\* (approval.go:98-128, then send_consumer.go:97-149).
ApprovedDraftSettles ==
  \A d \in Drafts :
    drafts[d].approved ~> \E i \in DOMAIN stream :
      stream[i].draft = d /\ i \in acked /\ (accepted[i] > 0 \/ i \in dropped)
===============================================================================
