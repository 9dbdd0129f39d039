--------------------------- MODULE MCZSessionService ---------------------------
(* Instances of ZSessionService for TLC.                                   *)
EXTENDS ZSessionService, TLC

\* Threads, users and connections are interchangeable.
Symmetry == Permutations(Threads) \cup Permutations(Users) \cup Permutations(Connections)
=============================================================================
