-------------------------- MODULE MCDeviceRegistry --------------------------
(* Instances of ZDeviceRegistry for TLC.                                   *)
EXTENDS ZDeviceRegistry, TLC

\* Threads, users and sensors are interchangeable.
Symmetry == Permutations(Threads) \cup Permutations(Users) \cup Permutations(Sensors)
=============================================================================
