---------------------------- MODULE MCSendConsumer ----------------------------
(* Instances of SendConsumer for TLC. *)
EXTENDS SendConsumer, TLC

WorkerSymmetry == Permutations(Workers)
===============================================================================
