-------------------------------- MODULE MCZApiWS --------------------------------
(* Instances of ZApiWS for TLC.                                            *)
EXTENDS ZApiWS, TLC

\* Clients and handler threads are interchangeable.
Symmetry == Permutations(Clients) \cup Permutations(Threads)
=============================================================================
