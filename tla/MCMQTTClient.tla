---------------------------- MODULE MCMQTTClient ----------------------------
(* Instances of MQTTClientImpl for TLC.                                     *)
EXTENDS MQTTClientImpl, TLC

\* The callers, and the topics the broker accepts, are interchangeable.
Symmetry == Permutations(Callers) \cup Permutations(Topics \ Refused)
=============================================================================
