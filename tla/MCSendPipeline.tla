---------------------------- MODULE MCSendPipeline ----------------------------
(* Instances of SendPipeline for TLC: one card, one draft. *)
EXTENDS SendPipeline, TLC

CONSTANTS c1, d1

OneDraft == (d1 :> c1)
===============================================================================
