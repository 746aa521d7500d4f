-------------------------- MODULE SendPipelineProofs --------------------------
(***************************************************************************)
(* The decision API and the send consumer together, for all numbers of     *)
(* requests, workers and jobs: whatever leaves, by either way, was asked   *)
(* for by the user and has a text of its draft.                            *)
(*                                                                         *)
(* The two meet in the stream and in the outbox only.  The invariant of    *)
(* the decision API survives the worker's steps because those only add to  *)
(* the outbox; the worker's steps are allowed by HumanGate because each    *)
(* stored job was asked for (JobsWereAskedFor) and a worker delivers       *)
(* stored jobs only (WorkInv).                                             *)
(***************************************************************************)
EXTENDS SendPipeline, DecisionFlowProofs

Work == [at : {"fetch", "next", "try", "backoff", "ack", "nak"},
         batch : SUBSET Nat, job : Nat \cup {NoJob}, attempt : Nat]

\* Workers only touch jobs that are stored.
OnStored(v) ==
  /\ v \in Work
  /\ v.batch \subseteq DOMAIN stream
  /\ v.at \in {"try", "backoff"} => v.job \in DOMAIN stream

WorkInv ==
  /\ worker \in [Workers -> Work]
  /\ \A w \in Workers : OnStored(worker[w])

PInv == IInv /\ JobsWereAskedFor /\ WorkInv

\* What a delivery does to the outbox.
Adds(i) ==
  outbox' = [outbox EXCEPT ![stream[i].draft][stream[i].body] = @ + 1]

-------------------------------------------------------------------------------
(* Steps of the decision API. *)

\* A stored job has a draft and a text.
LEMMA StoredJob ==
  ASSUME TypeOK, NEW i \in DOMAIN stream
  PROVE  stream[i].draft \in Drafts /\ stream[i].body \in Bodies
<1>1. stream \in Seq(Job)
  BY DEF TypeOK
<1>2. stream[i] \in Job
  BY <1>1
<1> QED BY <1>2 DEF Job

\* What was asked for or written once stays so.
LEMMA HistoryGrows ==
  ASSUME TypeOK, [Next]_vars
  PROVE  gate \subseteq gate' /\ \A d \in Drafts : texts[d] \subseteq texts'[d]
<1>1. texts \in [Drafts -> SUBSET Bodies]
  BY DEF TypeOK
<1>2. ASSUME NEW e \in Drafts, NEW b \in Bodies, texts' = [texts EXCEPT ![e] = @ \cup {b}]
      PROVE  \A d \in Drafts : texts[d] \subseteq texts'[d]
  BY <1>1, <1>2
<1>3. \/ UNCHANGED texts
      \/ \E e \in Drafts, b \in Bodies : texts' = [texts EXCEPT ![e] = @ \cup {b}]
  BY DEF Next, vars, history, Edit, Decide, Approve, ExecuteSend, EditDraft, StoreDraft,
      ReadCard, SetState, ConsultAnswered, CallFails, Revert, ApproveBegin,
      ApproveLockDraft, ApproveFetch, ApproveLockCard, ApprovePublish, ApproveLog,
      ApproveCommit, SendCheck, MeshSends, SentBegin, SentLockDraft, SentFetch,
      SentCommit, RequestFails
<1>4. gate \subseteq gate'
  BY DEF Next, vars, history, Edit, Decide, Approve, ExecuteSend, EditDraft, StoreDraft,
      ReadCard, SetState, ConsultAnswered, CallFails, Revert, ApproveBegin,
      ApproveLockDraft, ApproveFetch, ApproveLockCard, ApprovePublish, ApproveLog,
      ApproveCommit, SendCheck, MeshSends, SentBegin, SentLockDraft, SentFetch,
      SentCommit, RequestFails
<1> QED BY <1>2, <1>3, <1>4

\* Only an approval queues a job.
LEMMA OnlyApprovalQueues ==
  [Next]_vars => UNCHANGED stream \/ \E r \in Reqs : ApprovePublish(r)
BY DEF Next, vars, Edit, Decide, Approve, ExecuteSend, EditDraft, StoreDraft,
    ReadCard, SetState, ConsultAnswered, CallFails, Revert, ApproveBegin,
    ApproveLockDraft, ApproveFetch, ApproveLockCard, ApproveLog, ApproveCommit,
    SendCheck, MeshSends, SentBegin, SentLockDraft, SentFetch, SentCommit, RequestFails

\* The job an approval queues was asked for, with the text the draft has.
LEMMA QueuedJob ==
  ASSUME IInv, NEW r \in Reqs, ApprovePublish(r)
  PROVE  /\ req[r].draft \in Drafts \cap gate
         /\ req[r].body \in texts[req[r].draft]
         /\ [draft |-> req[r].draft, body |-> req[r].body] \in Job
         /\ stream' = Append(stream, [draft |-> req[r].draft, body |-> req[r].body])
<1>1. req[r].at = "publish"
  BY DEF ApprovePublish, Goto
<1>2. req[r].draft \in Drafts /\ Exists(req[r].draft) /\ req[r].body \in Bodies
  BY <1>1 DEF IInv, ReqInv, OnDraft, PastFetch, TxSteps, ApproveSteps
<1>3. req[r].draft \in gate
  BY <1>1 DEF IInv, AskedInv, ApproveSteps
<1>4. req[r].body \in texts[req[r].draft]
  BY <1>1, <1>2 DEF IInv, AskedInv, ApproveInv, PastFetch
<1> QED BY <1>2, <1>3, <1>4 DEF ApprovePublish, Job

\* A step of the decision API preserves the invariant of the whole.
LEMMA SyncKeeps == ASSUME PInv, [Next]_vars, UNCHANGED mailVars PROVE PInv'
<1>1. IInv' /\ TypeOK /\ stream \in Seq(Job)
  BY NextInv DEF PInv, IInv, TypeOK
<1>2. UNCHANGED worker
  BY DEF mailVars
<1>3. CASE UNCHANGED stream
  <2>1. JobsWereAskedFor'
    BY <1>1, <1>3, HistoryGrows, StoredJob DEF PInv, JobsWereAskedFor
  <2>2. WorkInv'
    BY <1>2, <1>3 DEF PInv, WorkInv, OnStored
  <2> QED BY <1>1, <2>1, <2>2 DEF PInv
<1>4. ASSUME NEW r \in Reqs, ApprovePublish(r) PROVE PInv'
  <2> DEFINE job == [draft |-> req[r].draft, body |-> req[r].body]
  <2>0. /\ job.draft \in Drafts \cap gate /\ job.body \in texts[job.draft]
        /\ job \in Job /\ stream' = Append(stream, job)
    BY <1>4, QueuedJob DEF PInv
  <2> HIDE DEF job
  <2>1. /\ DOMAIN stream' = DOMAIN stream \cup {Len(stream) + 1}
        /\ \A i \in DOMAIN stream : stream'[i] = stream[i]
        /\ stream'[Len(stream) + 1] = job
    BY <1>1, <2>0
  <2>2. gate' = gate /\ texts' = texts
    BY <1>4 DEF ApprovePublish, history
  <2>3. JobsWereAskedFor'
    BY <2>0, <2>1, <2>2 DEF PInv, JobsWereAskedFor
  <2>4. WorkInv'
    BY <1>2, <2>1 DEF PInv, WorkInv, OnStored
  <2> QED BY <1>1, <2>3, <2>4 DEF PInv
<1> QED BY <1>3, <1>4, OnlyApprovalQueues

-------------------------------------------------------------------------------
(* Steps of the worker and of JetStream. *)

\* A worker that takes a good record leaves the rest alone.
LEMMA WorkerTakes ==
  ASSUME WorkInv, NEW w \in Workers, NEW v, OnStored(v), UNCHANGED stream,
         worker' = [worker EXCEPT ![w] = v]
  PROVE  WorkInv'
<1>1. worker \in [Workers -> Work] /\ v \in Work
  BY DEF WorkInv, OnStored
<1>2. worker' \in [Workers -> Work]
  BY <1>1
<1>3. ASSUME NEW u \in Workers PROVE OnStored(worker[u])'
  <2>1. worker'[u] = IF u = w THEN v ELSE worker[u]
    BY <1>1
  <2> QED BY <2>1 DEF WorkInv, OnStored
<1> QED BY <1>2, <1>3 DEF WorkInv

\* A step of a worker or of JetStream keeps the workers on stored jobs, and
\* adds to the outbox, if at all, the mail of a stored job.
LEMMA MailStep ==
  ASSUME PInv, IngestionStep
  PROVE  /\ WorkInv'
         /\ UNCHANGED <<cardState, drafts, cardLock, draftLock, req, stream,
                        texts, gate, commits>>
         /\ UNCHANGED outbox \/ \E i \in DOMAIN stream : Adds(i)
<1>1. WorkInv /\ TypeOK /\ worker \in [Workers -> Work]
  BY DEF PInv, IInv, WorkInv
<1>2. UNCHANGED <<cardState, drafts, cardLock, draftLock, req, texts, gate, commits>>
  BY DEF IngestionStep, cvars, locks, history
<1> DEFINE Good == /\ WorkInv' /\ UNCHANGED stream
                   /\ UNCHANGED outbox \/ \E i \in DOMAIN stream : Adds(i)
<1>3. ASSUME NEW w \in Workers, NEW to \in {"next", "backoff", "ack", "nak"},
             worker' = [worker EXCEPT ![w].at = to], worker[w].at # "next",
             to = "backoff" => worker[w].at = "try", UNCHANGED stream
      PROVE  WorkInv'
  <2>0. PICK u : u = [worker[w] EXCEPT !.at = to]
    OBVIOUS
  <2>1. OnStored(worker[w])
    BY <1>1 DEF WorkInv
  <2>2. /\ u \in Work /\ u.at = to
        /\ u.batch = worker[w].batch /\ u.job = worker[w].job
    BY <2>0, <2>1 DEF OnStored, Work
  <2>3. OnStored(u)
    BY <1>3, <2>1, <2>2 DEF OnStored
  <2> QED BY <1>1, <1>3, <2>0, <2>3, WorkerTakes
<1>4. ASSUME NEW w \in Workers, Mail!Fetch(w) PROVE Good
  <2>1. PICK S \in SUBSET DOMAIN stream :
          worker' = [worker EXCEPT ![w] =
                      [at |-> "next", batch |-> S, job |-> NoJob, attempt |-> 0]]
    BY <1>4 DEF Mail!Fetch
  <2>2. PICK u : u = [at |-> "next", batch |-> S, job |-> NoJob, attempt |-> 0]
    OBVIOUS
  <2>3. stream \in Seq(Job) /\ DOMAIN stream \subseteq Nat
    BY <1>1 DEF TypeOK
  <2>4. u \in Work
    BY <2>2, <2>3 DEF Work
  <2>5. OnStored(u)
    BY <2>2, <2>4 DEF OnStored
  <2> QED BY <1>1, <1>4, <2>1, <2>2, <2>5, WorkerTakes DEF Mail!Fetch
<1>5. ASSUME NEW w \in Workers, Mail!NextJob(w) PROVE Good
  <2>1. UNCHANGED <<stream, outbox>> /\ OnStored(worker[w])
    BY <1>1, <1>5 DEF Mail!NextJob, WorkInv
  <2>2. CASE worker' = [worker EXCEPT ![w] = Mail!Free]
    <3>1. OnStored(Mail!Free)
      BY DEF OnStored, Work, Mail!Free
    <3> QED BY <1>1, <2>1, <2>2, <3>1, WorkerTakes
  <2>3. ASSUME NEW i \in worker[w].batch,
               worker' = [worker EXCEPT ![w] =
                           [at |-> "try", batch |-> worker[w].batch \ {i},
                            job |-> i, attempt |-> 1]]
        PROVE  Good
    <3>0. PICK u : u = [at |-> "try", batch |-> worker[w].batch \ {i},
                        job |-> i, attempt |-> 1]
      OBVIOUS
    <3>1. i \in DOMAIN stream /\ i \in Nat /\ worker[w].batch \subseteq DOMAIN stream
      BY <2>1, <2>3 DEF OnStored, Work
    <3>2. u \in Work
      BY <2>1, <3>0, <3>1 DEF OnStored, Work
    <3>3. OnStored(u)
      BY <3>0, <3>1, <3>2 DEF OnStored
    <3> QED BY <1>1, <2>1, <2>3, <3>0, <3>3, WorkerTakes
  <2> QED BY <1>5, <2>2, <2>3 DEF Mail!NextJob
<1>6. ASSUME NEW w \in Workers, Mail!TrySucceeds(w) \/ Mail!TryTimesOut(w) PROVE Good
  <2>1. worker[w].at = "try" /\ worker[w].job \in DOMAIN stream
    BY <1>1, <1>6 DEF Mail!TrySucceeds, Mail!TryTimesOut, Mail!Goto, WorkInv, OnStored
  <2>2. Adds(worker[w].job) /\ UNCHANGED stream
    BY <1>6 DEF Mail!TrySucceeds, Mail!TryTimesOut, Mail!Deliver, Adds
  <2>3. \E to \in {"backoff", "ack", "nak"} : worker' = [worker EXCEPT ![w].at = to]
    BY <1>6 DEF Mail!TrySucceeds, Mail!TryTimesOut, Mail!Goto, Mail!Retry
  <2> QED BY <1>3, <2>1, <2>2, <2>3
<1>7. ASSUME NEW w \in Workers,
             Mail!TryFails(w) \/ Mail!TryGivesUp(w) \/ Mail!Ack(w) \/ Mail!Nak(w)
      PROVE  Good
  BY <1>3, <1>7 DEF Mail!TryFails, Mail!TryGivesUp, Mail!Ack, Mail!Nak, Mail!Goto, Mail!Retry
<1>8. ASSUME NEW w \in Workers, Mail!BackoffEnds(w) PROVE Good
  <2>0. PICK u : u = [worker[w] EXCEPT !.at = "try", !.attempt = @ + 1]
    OBVIOUS
  <2>1. OnStored(worker[w]) /\ worker[w].at = "backoff"
    BY <1>1, <1>8 DEF WorkInv, Mail!BackoffEnds
  <2>2. /\ u \in Work /\ u.at = "try"
        /\ u.batch = worker[w].batch /\ u.job = worker[w].job
    <3>1. worker[w] \in Work /\ worker[w].attempt + 1 \in Nat
      BY <2>1 DEF OnStored, Work
    <3>2. /\ u.at = "try" /\ u.attempt = worker[w].attempt + 1
          /\ u.batch = worker[w].batch /\ u.job = worker[w].job
      BY <2>0, <3>1 DEF Work
    <3>3. u = [at |-> "try", batch |-> worker[w].batch, job |-> worker[w].job,
               attempt |-> worker[w].attempt + 1]
      BY <2>0, <3>1 DEF Work
    <3>4. u \in Work
      BY <3>1, <3>3 DEF Work
    <3> QED BY <3>2, <3>4
  <2>3. OnStored(u)
    BY <2>1, <2>2 DEF OnStored
  <2>4. worker' = [worker EXCEPT ![w] = u]
    BY <1>1, <1>8, <2>0 DEF Mail!BackoffEnds
  <2> QED BY <1>1, <1>8, <2>3, <2>4, WorkerTakes DEF Mail!BackoffEnds
<1>9. ASSUME NEW w \in Workers, Mail!Stop(w) PROVE Good
  <2>1. OnStored(Mail!Free)
    BY DEF OnStored, Work, Mail!Free
  <2> QED BY <1>1, <1>9, <2>1, WorkerTakes DEF Mail!Stop
<1>10. ASSUME NEW i \in Mail!Ids, Mail!AckWaitExpires(i) PROVE Good
  BY <1>1, <1>10 DEF Mail!AckWaitExpires, WorkInv, OnStored
<1>11. Good
  BY <1>4, <1>5, <1>6, <1>7, <1>8, <1>9, <1>10
    DEF IngestionStep, Mail!MailNext, Mail!HandleSendMessage
<1> QED BY <1>2, <1>11

\* Adding to the outbox takes no delivery back.
LEMMA OutboxGrows ==
  ASSUME TypeOK, NEW i \in DOMAIN stream, Adds(i)
  PROVE  /\ outbox' \in [Drafts -> [Bodies -> Nat]]
         /\ \A d \in Drafts, b \in Bodies : outbox[d][b] > 0 => outbox'[d][b] > 0
<1>1. stream[i].draft \in Drafts /\ stream[i].body \in Bodies
  BY StoredJob
<1>2. outbox \in [Drafts -> [Bodies -> Nat]]
  BY DEF TypeOK
<1> QED BY <1>1, <1>2 DEF Adds

\* A step of the worker or of JetStream preserves the invariant of the whole.
LEMMA IngestionKeeps == ASSUME PInv, IngestionStep PROVE PInv'
<1>1. /\ WorkInv'
      /\ UNCHANGED <<cardState, drafts, cardLock, draftLock, req, stream,
                     texts, gate, commits>>
      /\ UNCHANGED outbox \/ \E i \in DOMAIN stream : Adds(i)
  BY MailStep
<1>2. IInv
  BY DEF PInv
<1>3. /\ outbox' \in [Drafts -> [Bodies -> Nat]]
      /\ \A d \in Drafts, b \in Bodies : outbox[d][b] > 0 => outbox'[d][b] > 0
  BY <1>1, <1>2, OutboxGrows DEF IInv, TypeOK
<1>4. TypeOK'
  BY <1>1, <1>2, <1>3 DEF IInv, TypeOK
<1>5. (ReqInv /\ LockInv /\ ApproveInv /\ QueueInv /\ AskedInv)'
  BY <1>1, <1>2 DEF IInv, ReqInv, LockInv, LocksOwned, ApproveInv, QueueInv, AskedInv, Exists
<1>6. SentInv'
  <2>1. \A r \in Reqs : req[r].at \in {"sentBegin"} \cup SentSteps => req[r].draft \in Drafts
    BY <1>2 DEF IInv, ReqInv, OnDraft, TxSteps
  <2>2. SentWasApprovedAndDelivered'
    BY <1>1, <1>2, <1>3 DEF IInv, SentInv, SentWasApprovedAndDelivered
  <2>3. ASSUME NEW r \in Reqs, req[r].at \in {"sentBegin"} \cup SentSteps
        PROVE  \E b \in Bodies : outbox'[req[r].draft][b] > 0
    BY <1>2, <1>3, <2>1, <2>3 DEF IInv, SentInv
  <2> QED BY <1>1, <1>2, <2>2, <2>3 DEF IInv, SentInv
<1>7. JobsWereAskedFor'
  BY <1>1 DEF PInv, JobsWereAskedFor
<1> QED BY <1>1, <1>4, <1>5, <1>6, <1>7 DEF PInv, IInv

-------------------------------------------------------------------------------
(* The theorems. *)

\* Nothing is queued and no worker is busy.
LEMMA PipelineStart == PipelineInit => PInv
<1> SUFFICES ASSUME PipelineInit PROVE PInv
  OBVIOUS
<1>1. IInv
  BY InitInv DEF PipelineInit
<1>2. JobsWereAskedFor
  BY DEF PipelineInit, Init, JobsWereAskedFor
<1>3. worker = [w \in Workers |-> Mail!Free] /\ OnStored(Mail!Free)
  BY DEF PipelineInit, Mail!MailInit, OnStored, Work, Mail!Free
<1>4. WorkInv
  BY <1>3 DEF WorkInv, OnStored
<1> QED BY <1>1, <1>2, <1>4 DEF PInv

\* The invariant of the whole, for any number of requests and workers.
THEOREM PipelineInvariance == PipelineSpec => []PInv
<1>1. PInv /\ [PipelineNext]_pipelineVars => PInv'
  <2> SUFFICES ASSUME PInv, [PipelineNext]_pipelineVars PROVE PInv'
    OBVIOUS
  <2>1. CASE IngestionStep
    BY <2>1, IngestionKeeps
  <2>2. CASE SyncStep \/ UNCHANGED pipelineVars
    <3>1. [Next]_vars /\ UNCHANGED mailVars
      BY <2>2 DEF SyncStep, pipelineVars
    <3> QED BY <3>1, SyncKeeps
  <2> QED BY <2>1, <2>2 DEF PipelineNext
<1> QED BY <1>1, PipelineStart, PTL DEF PipelineSpec

\* Every job in the stream was asked for by the user, with a text its draft has
\* had, whatever requests race to queue it and whatever the workers do
\* (approval.go:92-116).
THEOREM JobsAreAskedFor == PipelineSpec => []JobsWereAskedFor
<1>1. PInv => JobsWereAskedFor
  BY DEF PInv
<1> QED BY <1>1, PipelineInvariance, PTL

\* A step of either side is a step HumanGate allows.
LEMMA PipelineGateStep ==
  PInv /\ [PipelineNext]_pipelineVars => [HG!GateNext]_HG!gvars
<1> SUFFICES ASSUME PInv, [PipelineNext]_pipelineVars PROVE [HG!GateNext]_HG!gvars
  OBVIOUS
<1>1. CASE SyncStep \/ UNCHANGED pipelineVars
  <2>1. [Next]_vars
    BY <1>1 DEF SyncStep, pipelineVars
  <2> QED BY <2>1, GateStep DEF PInv
<1>2. CASE IngestionStep
  <2>1. UNCHANGED <<texts, gate, stream>>
        /\ (UNCHANGED outbox \/ \E i \in DOMAIN stream : Adds(i))
    BY <1>2, MailStep
  <2>2. ASSUME NEW i \in DOMAIN stream, Adds(i) PROVE HG!GateNext
    <3>1. /\ stream[i].draft \in Drafts /\ stream[i].body \in Bodies
          /\ stream[i].draft \in gate /\ stream[i].body \in texts[stream[i].draft]
      BY StoredJob DEF PInv, IInv, JobsWereAskedFor
    <3>2. HG!Deliver(stream[i].draft, stream[i].body)
      BY <2>1, <2>2, <3>1 DEF HG!Deliver, Adds
    <3> QED BY <3>1, <3>2 DEF HG!GateNext
  <2> QED BY <2>1, <2>2 DEF HG!gvars
<1> QED BY <1>1, <1>2 DEF PipelineNext

\* The decision API, JetStream and any number of workers together implement
\* HumanGate: also the queued path never hands a mail to a provider before the
\* user has asked for its draft to be sent, and crashes, retries and redelivery
\* change nothing about that (README.md:93, "never sends without human gate").
THEOREM PipelineImplementsHumanGate == PipelineSpec => RefinesHumanGate
<1>1. PipelineInit => HG!GateInit
  BY GateStart DEF PipelineInit
<1> QED
  BY <1>1, PipelineGateStep, PipelineInvariance, PTL
    DEF PipelineSpec, RefinesHumanGate, HG!GateSpec
===============================================================================
