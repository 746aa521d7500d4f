------------------------------- MODULE MCHub --------------------------------
(* The hub and the drafting sessions meet only in BroadcastToUser, which    *)
(* never blocks and whose failure a session ignores: each is explored while *)
(* the other is at rest in its initial state.                               *)
EXTENDS WSHub, DraftSession

VARIABLE part   \* the part that moves

hub_drafting == <<part, hvars, draftvars>>

Init == part \in {"hub", "drafting"} /\ HubInit /\ DraftInit
Next ==
  \/ part = "hub" /\ HubNext /\ UNCHANGED <<part, draftvars>>
  \/ part = "drafting" /\ DraftNext /\ UNCHANGED <<part, hvars>>

\* The fairness of HubSpec: none of its actions is enabled in the initial state.
Spec == Init /\ [][Next]_hub_drafting /\ HubFairness
=============================================================================
