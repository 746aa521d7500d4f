--------------------------- MODULE MCClassification ---------------------------
\* The way of an email.ingested event: the assembly of the mail that publishes
\* it, the router's pipeline, the worker that classifies, and the consumer of the
\* sync service at the other end.  The four share no variable: in a behaviour one
\* of them moves and the others stay in their initial state, so TLC explores the
\* sum of their state spaces and not the product.
EXTENDS ClassifyConsumer, RoutePipeline, MailAssembly, SyncConsumer

\* A question and its answer, a mail of somebody with the same name and nearly
\* the same subject, and a mail the same somebody wrote to a second user.
Sample(user, id, asked, from, name, to, subject) ==
  [user |-> user, id |-> id, asked |-> asked, from |-> from, name |-> name, to |-> to,
   subject |-> subject, day |-> 1]
SampleHeader ==
  [question |-> Sample("u1", 1, <<>>,  <<"ann", "">>,  "Ann", <<<<"bob", "">>>>, 1),
   answer   |-> Sample("u1", 2, <<1>>, <<"bob", "">>,  "",    <<<<"ann", "tag">>>>, 9),
   alike    |-> Sample("u1", 3, <<>>,  <<"ann2", "">>, "Ann", <<<<"bob", "">>>>, 3),
   other    |-> Sample("u2", 4, <<1>>, <<"ann2", "">>, "Ann", <<<<"kim", "">>, <<"kim", "tag">>>>, 1)]
SampleEmail == DOMAIN SampleHeader

VARIABLE part   \* the part that moves

consumers == <<part, classifyVars, pipelineVars, assemblyVars, syncerVars>>

Init ==
  /\ part \in {"worker", "pipeline", "assembly", "syncer"}
  /\ ClassifyInit /\ PipelineInit /\ AssemblyInit /\ SyncerInit

WorkerMoves == part = "worker" /\ UNCHANGED <<part, pipelineVars, assemblyVars, syncerVars>>

Next ==
  \/ WorkerMoves /\ ClassifyNext
  \/ part = "pipeline" /\ PipelineNext /\ UNCHANGED <<part, classifyVars, assemblyVars, syncerVars>>
  \/ part = "assembly" /\ AssemblyNext /\ UNCHANGED <<part, classifyVars, pipelineVars, syncerVars>>
  \/ part = "syncer" /\ SyncerNext /\ UNCHANGED <<part, classifyVars, pipelineVars, assemblyVars>>

Fairness ==
  /\ \A w \in Classifier : WF_consumers(WorkerMoves /\ WorkerStep(w))
  /\ \A m \in Msg : WF_consumers(WorkerMoves /\ AckWaitOver(m))

Spec == Init /\ [][Next]_consumers /\ Fairness

-----------------------------------------------------------------------------

\* A mail is stored in its thread and announced, its event routed or kept, and
\* what comes of it handled at the other end.
EventsInv == AssemblyInv /\ PipelineInv /\ SyncerInv
=============================================================================
