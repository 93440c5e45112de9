---------------------------- MODULE MCEventPipeline ----------------------------
(* EventPipeline for TLC.                                                   *)
EXTENDS EventPipeline, TLC

CONSTANTS e1, e2, r1

(* One request with a batch of two events. *)
OneBatch == r1 :> <<e1, e2>>

(* A single event. *)
OneEvent == r1 :> <<e1>>

WorkerSymmetry == Permutations(Workers)

================================================================================
