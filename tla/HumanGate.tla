------------------------------ MODULE HumanGate -------------------------------
(***************************************************************************)
(* What the whole send path promises about outbound mail, whichever way a  *)
(* mail takes: nothing is handed to an e-mail provider before the user has *)
(* asked for that draft to be sent, and every text that leaves is a text   *)
(* that was put into that draft.  How often a draft is delivered is left   *)
(* open: delivery is at least once.                                        *)
(***************************************************************************)
EXTENDS Naturals

CONSTANTS Drafts, Bodies

VARIABLES
  texts,        \* the bodies each draft has ever had
  gate,         \* drafts whose approval the user has requested
  outbox        \* how often the providers accepted each text of each draft

gvars == <<texts, gate, outbox>>

GateInit ==
  /\ texts \in [Drafts -> SUBSET Bodies]
  /\ gate = {}
  /\ outbox = [d \in Drafts |-> [b \in Bodies |-> 0]]

\* A draft is generated or edited.
Write(d, b) ==
  /\ texts' = [texts EXCEPT ![d] = @ \cup {b}]
  /\ UNCHANGED <<gate, outbox>>

\* The user asks for the draft to be sent.
Ask(d) ==
  /\ gate' = gate \cup {d}
  /\ UNCHANGED <<texts, outbox>>

\* A provider accepts a mail.
Deliver(d, b) ==
  /\ d \in gate
  /\ b \in texts[d]
  /\ outbox' = [outbox EXCEPT ![d][b] = @ + 1]
  /\ UNCHANGED <<texts, gate>>

GateNext ==
  \E d \in Drafts :
    \/ Ask(d)
    \/ \E b \in Bodies : Write(d, b) \/ Deliver(d, b)

GateSpec == GateInit /\ [][GateNext]_gvars
===============================================================================
