-------------------------------- MODULE MCCards --------------------------------
\* The queue of a user, the merge of offline decisions and the dispatch of
\* notifications share no variable: in a behaviour one of them moves and the
\* others stay in their initial states, so TLC explores the sum of their state
\* spaces and not the product.  What must come about is checked in MCDevices,
\* on smaller instances.
EXTENDS CardQueue, OfflineMerge, NotifyDispatch

VARIABLE part   \* the part that moves

cards == <<part, queueVars, mergeVars, notifyVars>>

Init ==
  /\ part \in {"queue", "merge", "notify"}
  /\ QueueInit /\ MergeInit /\ NotifyInit
Next ==
  \/ part = "queue" /\ QueueNext /\ UNCHANGED <<part, mergeVars, notifyVars>>
  \/ part = "merge" /\ MergeNext /\ UNCHANGED <<part, queueVars, notifyVars>>
  \/ part = "notify" /\ NotifyNext /\ UNCHANGED <<part, queueVars, mergeVars>>

Spec == Init /\ [][Next]_cards
===============================================================================
