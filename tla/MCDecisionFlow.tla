---------------------------- MODULE MCDecisionFlow ----------------------------
(* An instance of DecisionFlow for TLC: one card, one draft, and no more      *)
(* connections than requests.                                                 *)
EXTENDS DecisionFlow, TLC

CONSTANTS c1, d1

OneDraft == (d1 :> c1)
===============================================================================
