-------------------------- MODULE ClassifyConsumer --------------------------
(***************************************************************************)
(* The classification worker: batches of messages pulled from the stream,  *)
(* each classified and its result published through a circuit breaker, a   *)
(* few attempts per delivery, then an ack, a negative ack, or, after the   *)
(* last delivery, the dead-letter subject.  A batch is worked off one by   *)
(* one, so the time to ack may be over before a message has its turn and   *)
(* the other worker gets it as well.                                       *)
(***************************************************************************)
EXTENDS Integers, Sequences, FiniteSets, SequencesExt, JetStream

CONSTANTS Msg, Malformed,   \* messages; those whose body is no event
          Classifier,       \* worker processes
          Batch,            \* batchSize, also MaxAckPending
          MaxDeliver, Attempts,
          Threshold, HalfOpenMax,
          MaxStops          \* bound: cancellations and crashes of workers

ASSUME ClassifyBounds ==
  /\ IsFiniteSet(Msg) /\ Malformed \subseteq Msg /\ MaxStops \in Nat
  /\ {Batch, MaxDeliver, Attempts, Threshold, HalfOpenMax} \subseteq Nat \ {0}

VARIABLES
  inbox,      \* the stream: each message
  worker,     \* each worker: where it is, what it fetched, attempts at the first
  breaker,    \* the circuit breaker of each worker's publisher
  results,    \* how many results were stored for each message, two or more count as two
  dead,       \* messages stored under the dead-letter subject
  stops,
  lost,       \* history: messages a result of which was stored without an answer
  dropped     \* history: messages whose last delivery ended in a crash or a failed dead letter

classifyVars == <<inbox, worker, breaker, results, dead, stops, lost, dropped>>

Fresh == [at |-> "fetch", ctx |-> TRUE, batch |-> <<>>, tries |-> 0]
Closed == [st |-> "closed", failures |-> 0, trials |-> 0]

ClassifyInit ==
  /\ inbox = [m \in Msg |-> NewMessage]
  /\ worker = [w \in Classifier |-> Fresh] /\ breaker = [w \in Classifier |-> Closed]
  /\ results = [m \in Msg |-> 0] /\ dead = {} /\ stops = 0
  /\ lost = {} /\ dropped = {}

Outstanding == {m \in Msg : inbox[m].at = "out"}
Mine(w) == Head(worker[w].batch)
LastDelivery_After(w) == Mine(w).n > MaxDeliver
LastDelivery(w) == Mine(w).n >= MaxDeliver
At(w, at) == worker' = [worker EXCEPT ![w].at = at]

\* The next message of the batch, or the next fetch.
Next_(w) == worker' = [worker EXCEPT ![w] =
  [at |-> IF Len(@.batch) = 1 THEN "fetch" ELSE "parse", ctx |-> @.ctx, batch |-> Tail(@.batch), tries |-> 0]]
\* processMessage returned an error.
Failed(w) == IF LastDelivery(w) THEN At(w, "deadletter") ELSE Next_(w)

-----------------------------------------------------------------------------

Fetch(w) ==
  /\ worker[w].at = "fetch" /\ worker[w].ctx
  /\ \E S \in SUBSET {m \in Msg : inbox[m].at = "ready"} :
       /\ S # {} /\ Cardinality(S \cup Outstanding) <= Batch
       /\ inbox' = [m \in Msg |-> IF m \in S THEN Delivered(inbox[m]) ELSE inbox[m]]
       /\ \E q \in SetToSeqs(S) :
            worker' = [worker EXCEPT ![w].at = "parse",
                                     ![w].batch = [i \in DOMAIN q |-> [m |-> q[i], n |-> inbox[q[i]].n + 1]]]
  /\ UNCHANGED <<breaker, results, dead, stops, lost, dropped>>

\* A body that is no event is acked, and then treated as an error.
Unmarshal(w) ==
  /\ worker[w].at = "parse"
  /\ IF Mine(w).m \in Malformed
     THEN /\ \E x \in AckOutcomes(inbox[Mine(w).m]) : inbox' = [inbox EXCEPT ![Mine(w).m] = x]
          /\ Failed(w)
     ELSE At(w, "publish") /\ UNCHANGED inbox
  /\ UNCHANGED <<breaker, results, dead, stops, lost, dropped>>

Opens(b) == b.failures >= Threshold

\* The verdict of CircuitBreaker.Call on a call that was let through.
AfterFailure(b) ==
  LET f == [b EXCEPT !.failures = @ + 1] IN
  IF b.st = "half-open" \/ Opens(f) THEN [f EXCEPT !.st = "open", !.failures = 0] ELSE f
AfterSuccess(b) ==
  IF b.st = "half-open" /\ b.trials + 1 < HalfOpenMax THEN [b EXCEPT !.trials = @ + 1] ELSE Closed

Exhausted(w) == At(w, "nak")

\* The retry loop of processMessage: its waiting is cut short by the context.
Again(w) ==
  IF worker[w].tries + 1 >= Attempts THEN Exhausted(w)
  ELSE IF ~worker[w].ctx THEN Failed(w)
  ELSE worker' = [worker EXCEPT ![w].tries = @ + 1]

Accepted(w) == At(w, "ack")

\* PublishMsg is tried several times in one call, so more than one try may be
\* stored; results counts up to two.
Stored(m, n) == results' = [results EXCEPT ![m] = IF @ + n > 2 THEN 2 ELSE @ + n]

\* Classify always has a result (every error falls through to the decision
\* route); PublishResult is refused by the breaker, answered, or not answered.
Publish(w) ==
  LET m == Mine(w).m b == breaker[w] IN
  /\ worker[w].at = "publish"
  /\ \/ /\ b.st = "open" /\ Again(w) /\ UNCHANGED <<breaker, results, lost>>
     \/ /\ b.st # "open" /\ Accepted(w)
        /\ breaker' = [breaker EXCEPT ![w] = AfterSuccess(b)]
        /\ \E unanswered \in {0, 1} :
             /\ Stored(m, 1 + unanswered)
             /\ lost' = IF unanswered = 1 THEN lost \cup {m} ELSE lost
     \/ /\ b.st # "open" /\ Again(w)
        /\ breaker' = [breaker EXCEPT ![w] = AfterFailure(b)]
        /\ \/ UNCHANGED <<results, lost>>
           \/ Stored(m, 1) /\ lost' = lost \cup {m}
  /\ UNCHANGED <<inbox, dead, stops, dropped>>

\* The timeout of an open breaker is over: the next call is a trial.
HalfOpens(w) ==
  /\ breaker[w].st = "open"
  /\ breaker' = [breaker EXCEPT ![w] = [st |-> "half-open", failures |-> 0, trials |-> 0]]
  /\ UNCHANGED <<inbox, worker, results, dead, stops, lost, dropped>>

Ack(w) ==
  /\ worker[w].at = "ack" /\ Next_(w)
  /\ \E x \in AckOutcomes(inbox[Mine(w).m]) : inbox' = [inbox EXCEPT ![Mine(w).m] = x]
  /\ UNCHANGED <<breaker, results, dead, stops, lost, dropped>>

NakWithDelay(w) ==
  /\ worker[w].at = "nak" /\ Failed(w)
  /\ \E x \in NakOutcomes(inbox[Mine(w).m], Mine(w).n, MaxDeliver) : inbox' = [inbox EXCEPT ![Mine(w).m] = x]
  /\ UNCHANGED <<breaker, results, dead, stops, lost, dropped>>

\* sendToDLQ: publish, then ack; the ack of a delivery already refused may not count.
SendToDLQ(w) ==
  LET m == Mine(w).m IN
  /\ worker[w].at = "deadletter" /\ Next_(w)
  /\ \/ /\ dead' = dead \cup {m} /\ UNCHANGED dropped
        /\ \E x \in AckOutcomes(inbox[m]) : inbox' = [inbox EXCEPT ![m] = x]
     \/ dropped' = dropped \cup {m} /\ UNCHANGED <<dead, inbox>>
  /\ UNCHANGED <<breaker, results, stops, lost>>

Redelivered_Always(x) == [x EXCEPT !.at = "ready", !.n = IF @ >= MaxDeliver THEN MaxDeliver - 1 ELSE @]
Redelivered(x) == Returned(x, MaxDeliver)

AckWaitOver(m) ==
  /\ inbox[m].at = "out" /\ inbox' = [inbox EXCEPT ![m] = Redelivered(@)]
  /\ UNCHANGED <<worker, breaker, results, dead, stops, lost, dropped>>

\* The context is cancelled: the batch is still worked off.
Cancel(w) ==
  /\ worker[w].ctx /\ stops < MaxStops /\ stops' = stops + 1
  /\ worker' = [worker EXCEPT ![w].ctx = FALSE]
  /\ UNCHANGED <<inbox, breaker, results, dead, lost, dropped>>

WorkerDies(w) ==
  /\ stops < MaxStops /\ stops' = stops + 1
  /\ worker' = [worker EXCEPT ![w] = Fresh] /\ breaker' = [breaker EXCEPT ![w] = Closed]
  /\ dropped' = dropped \cup {d.m : d \in {d \in ToSet(worker[w].batch) : d.n = MaxDeliver}}
  /\ UNCHANGED <<inbox, results, dead, lost>>

\* A worker that returned from Subscribe is started anew.
WorkerStarts(w) ==
  /\ worker[w].at = "fetch" /\ ~worker[w].ctx
  /\ worker' = [worker EXCEPT ![w] = Fresh] /\ breaker' = [breaker EXCEPT ![w] = Closed]
  /\ UNCHANGED <<inbox, results, dead, stops, lost, dropped>>

WorkerStep(w) ==
  \/ Fetch(w) \/ Unmarshal(w) \/ Publish(w) \/ Ack(w) \/ NakWithDelay(w) \/ SendToDLQ(w) \/ WorkerStarts(w)
ClassifyNext ==
  \/ \E w \in Classifier : WorkerStep(w) \/ HalfOpens(w) \/ Cancel(w) \/ WorkerDies(w)
  \/ \E m \in Msg : AckWaitOver(m)

ClassifyFairness ==
  /\ \A w \in Classifier : WF_classifyVars(WorkerStep(w))
  /\ \A m \in Msg : WF_classifyVars(AckWaitOver(m))
ClassifySpec == ClassifyInit /\ [][ClassifyNext]_classifyVars /\ ClassifyFairness

-----------------------------------------------------------------------------

ClassifyTypeOK ==
  /\ inbox \in [Msg -> MessageState] /\ \A m \in Msg : inbox[m].n <= MaxDeliver
  /\ \A w \in Classifier :
       /\ worker[w].at \in {"fetch", "parse", "publish", "ack", "nak", "deadletter"}
       /\ worker[w].ctx \in BOOLEAN /\ worker[w].tries \in 0 .. Attempts - 1
       /\ worker[w].batch \in Seq([m : Msg, n : 1 .. MaxDeliver]) /\ Len(worker[w].batch) <= Batch
       /\ breaker[w].failures \in 0 .. Threshold - 1 /\ breaker[w].trials \in 0 .. HalfOpenMax - 1
       /\ breaker[w].st \in {"closed", "open", "half-open"}
  /\ results \in [Msg -> 0 .. 2] /\ stops \in Nat
  /\ dead \subseteq Msg /\ lost \subseteq Msg /\ dropped \subseteq Msg

\* An acked message has a result downstream, a dead letter, or no event in it.
AckedHasResult == \A m \in Msg : inbox[m].at = "acked" => results[m] > 0 \/ m \in dead \cup Malformed

\* A second result for one message comes only from a second delivery or from a
\* publication whose answer was lost.
SecondResultHasACause == \A m \in Msg : results[m] > 1 => inbox[m].n > 1 \/ m \in lost

\* A message that used up its deliveries without a result is a dead letter, or
\* will be when the worker that holds its last delivery is done with it.
SpentIsDeadLettered ==
  \A m \in Msg \ (Malformed \cup dropped) :
    inbox[m].at = "spent" /\ results[m] = 0 =>
      m \in dead \/ \E w \in Classifier : \E d \in ToSet(worker[w].batch) : d.m = m /\ d.n = MaxDeliver

\* Every message fetched once comes to an end, though publications fail for ever, acks are
\* lost and batches wait longer than the time to ack.
MessagesEnd == \A m \in Msg : inbox[m].n > 0 ~> inbox[m].at \in {"acked", "spent"}

\* No message is acked without a result, none has two without a cause, and one
\* that used up its deliveries is a dead letter.
ClassifyInv == ClassifyTypeOK /\ AckedHasResult /\ SecondResultHasACause /\ SpentIsDeadLettered
=============================================================================
