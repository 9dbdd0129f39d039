----------------------- MODULE MCUserAccountsSerial -----------------------
(* Instances of ZUserAccountsSerial for TLC.                               *)
EXTENDS ZUserAccountsSerial, TLC

\* Threads, addresses and passwords are interchangeable.
Symmetry ==
    Permutations(Threads) \cup Permutations(Emails) \cup Permutations(Passwords)
=============================================================================
