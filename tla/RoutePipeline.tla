--------------------------- MODULE RoutePipeline ---------------------------
(***************************************************************************)
(* The router's pipeline on a push subscription: one callback at a time    *)
(* routes a message, publishes the result and acks it, or refuses it.      *)
(* Routing runs the action of the rule that matched, before the result is  *)
(* published.                                                              *)
(***************************************************************************)
EXTENDS Integers, Sequences, FiniteSets, SequencesExt, JetStream

CONSTANTS Letter, Garbled,   \* messages; those whose body is no event
          MaxDeliveries,
          MaxOutages         \* bound: stops and crashes of the pipeline

ASSUME PipelineBounds == Garbled \subseteq Letter /\ MaxDeliveries \in Nat \ {0} /\ MaxOutages \in Nat

VARIABLES
  stream,      \* each message
  pipeline,    \* running, stopping or stopped; whether stopCh is closed
  buffered,    \* messages pushed to the client: <<message, delivery>>
  callback,    \* what the callback does with the first of them
  routed,      \* how many results were published for each message
  acted,       \* how often a rule's action ran for each message
  outages,
  unanswered   \* history: messages published without an answer

pipelineVars == <<stream, pipeline, buffered, callback, routed, acted, outages, unanswered>>

PipelineInit ==
  /\ stream = [m \in Letter |-> NewMessage]
  /\ pipeline = [at |-> "stopped", closed |-> FALSE] /\ buffered = <<>> /\ callback = "none"
  /\ routed = [m \in Letter |-> 0] /\ acted = [m \in Letter |-> 0]
  /\ outages = 0 /\ unanswered = {}

This == Head(buffered)
CallbackEnds == callback' = "none" /\ buffered' = Tail(buffered)

StartPipeline ==
  /\ pipeline.at = "stopped" /\ pipeline' = [pipeline EXCEPT !.at = "running"]
  /\ UNCHANGED <<stream, buffered, callback, routed, acted, outages, unanswered>>

Push(m) ==
  /\ pipeline.at # "stopped" /\ stream[m].at = "ready"
  /\ stream' = [stream EXCEPT ![m] = Delivered(@)]
  /\ buffered' = Append(buffered, [m |-> m, n |-> stream[m].n + 1])
  /\ UNCHANGED <<pipeline, callback, routed, acted, outages, unanswered>>

\* Route never fails; a garbled message is refused like a failure.
HandleMessage ==
  /\ callback = "none" /\ buffered # <<>>
  /\ IF This.m \in Garbled
     THEN callback' = "nak" /\ UNCHANGED acted
     ELSE /\ callback' = "publish"
          /\ \E ran \in {0, 1} : acted' = [acted EXCEPT ![This.m] = @ + ran]
  /\ UNCHANGED <<stream, pipeline, buffered, routed, outages, unanswered>>

AfterPublish_Ignored(ok) == "ack"
AfterPublish(ok) == IF ok THEN "ack" ELSE "nak"

PublishResult ==
  /\ callback = "publish"
  /\ \E ok, there \in BOOLEAN :
       /\ ok => there
       /\ callback' = AfterPublish(ok)
       /\ routed' = [routed EXCEPT ![This.m] = IF there THEN @ + 1 ELSE @]
       /\ unanswered' = IF there /\ ~ok THEN unanswered \cup {This.m} ELSE unanswered
  /\ UNCHANGED <<stream, pipeline, buffered, acted, outages>>

AckMessage ==
  /\ callback = "ack" /\ CallbackEnds
  /\ \E x \in AckOutcomes(stream[This.m]) : stream' = [stream EXCEPT ![This.m] = x]
  /\ UNCHANGED <<pipeline, routed, acted, outages, unanswered>>

NakMessage ==
  /\ callback = "nak" /\ CallbackEnds
  /\ \E x \in NakOutcomes(stream[This.m], This.n, MaxDeliveries) : stream' = [stream EXCEPT ![This.m] = x]
  /\ UNCHANGED <<pipeline, routed, acted, outages, unanswered>>

TimeToAckOver(m) ==
  /\ stream[m].at = "out" /\ stream' = [stream EXCEPT ![m] = Returned(@, MaxDeliveries)]
  /\ UNCHANGED <<pipeline, buffered, callback, routed, acted, outages, unanswered>>

\* Stop closes stopCh; called again before the pipeline has stopped it closes
\* it a second time and the process dies, with a new pipeline after it.
StopPipeline ==
  /\ pipeline.at # "stopped" /\ outages < MaxOutages /\ outages' = outages + 1
  /\ IF pipeline.closed
     THEN pipeline' = [at |-> "stopped", closed |-> FALSE] /\ buffered' = <<>> /\ callback' = "none"
     ELSE pipeline' = [at |-> "stopping", closed |-> TRUE] /\ UNCHANGED <<buffered, callback>>
  /\ UNCHANGED <<stream, routed, acted, unanswered>>

\* The stop waits for a callback that runs, thirty seconds at most; what is
\* buffered is dropped.  After a restart stopCh is still closed.
PipelineStops ==
  /\ pipeline.at = "stopping" \/ (pipeline.at = "running" /\ pipeline.closed)
  /\ pipeline' = [pipeline EXCEPT !.at = "stopped"]
  /\ buffered' = <<>> /\ callback' = "none"
  /\ UNCHANGED <<stream, routed, acted, outages, unanswered>>

PipelineDies ==
  /\ outages < MaxOutages /\ outages' = outages + 1
  /\ pipeline' = [at |-> "stopped", closed |-> FALSE] /\ buffered' = <<>> /\ callback' = "none"
  /\ UNCHANGED <<stream, routed, acted, unanswered>>

PipelineStep ==
  StartPipeline \/ HandleMessage \/ PublishResult \/ AckMessage \/ NakMessage \/ PipelineStops
PipelineNext ==
  \/ PipelineStep \/ StopPipeline \/ PipelineDies
  \/ \E m \in Letter : Push(m) \/ TimeToAckOver(m)

PipelineFairness ==
  /\ WF_pipelineVars(PipelineStep)
  /\ \A m \in Letter : WF_pipelineVars(TimeToAckOver(m)) /\ SF_pipelineVars(Push(m))
PipelineSpec == PipelineInit /\ [][PipelineNext]_pipelineVars /\ PipelineFairness

-----------------------------------------------------------------------------

PipelineTypeOK ==
  /\ stream \in [Letter -> MessageState]
  /\ pipeline \in [at : {"running", "stopping", "stopped"}, closed : BOOLEAN]
  /\ buffered \in Seq([m : Letter, n : 1 .. MaxDeliveries])
  /\ callback \in {"none", "publish", "ack", "nak"} /\ (callback # "none" => buffered # <<>>)
  /\ routed \in [Letter -> Nat] /\ acted \in [Letter -> Nat]
  /\ outages \in 0 .. MaxOutages /\ unanswered \subseteq Letter

\* A message is acked only after its result was published.
AckedIsRouted == \A m \in Letter : stream[m].at = "acked" => routed[m] > 0

\* The action of a rule runs again, and a result is published again, only when
\* the message was delivered again, at most once in each delivery.
ActionsPerDelivery ==
  \A m \in Letter : acted[m] <= stream[m].n /\ routed[m] <= stream[m].n

\* The router acks what it has published, and acts once in each delivery.
PipelineInv == PipelineTypeOK /\ AckedIsRouted /\ ActionsPerDelivery
=============================================================================
