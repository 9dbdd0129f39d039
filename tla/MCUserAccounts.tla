-------------------------- MODULE MCUserAccounts --------------------------
(* Instances of ZUserAccounts for TLC.                                     *)
EXTENDS ZUserAccounts, TLC

\* Threads, addresses and passwords are interchangeable.
Symmetry ==
    Permutations(Threads) \cup Permutations(Emails) \cup Permutations(Passwords)
=============================================================================
