------------------------- MODULE AccountDirectory -------------------------
(***************************************************************************)
(* What the account handlers of zcloud promise their clients: at most one  *)
(* account per address, a password it is opened with, and the sessions     *)
(* opened on it, which end with it.  Every request takes effect at once.   *)
(***************************************************************************)
CONSTANTS Emails, Passwords, SessionIds, Nil

VARIABLES
    account,  \* the password of the account of an address, Nil if there is none
    signedIn  \* the sessions of the account of an address

vars == <<account, signedIn>>

Init ==
    /\ account = [e \in Emails |-> Nil]
    /\ signedIn = [e \in Emails |-> {}]

\* User_Exists is the answer when there is an account already.
Register(e, p) ==
    /\ account[e] = Nil
    /\ account' = [account EXCEPT ![e] = p]
    /\ UNCHANGED signedIn

\* A session never serves two sign-ins.
SignIn(e, s) ==
    /\ account[e] # Nil
    /\ \A x \in Emails : s \notin signedIn[x]
    /\ signedIn' = [signedIn EXCEPT ![e] = @ \cup {s}]
    /\ UNCHANGED account

\* Only who is signed in can have the password changed.
ChangePassword(e, p) ==
    /\ account[e] # Nil
    /\ signedIn[e] # {}
    /\ account' = [account EXCEPT ![e] = p]
    /\ UNCHANGED signedIn

Remove(e) ==
    /\ account[e] # Nil
    /\ account' = [account EXCEPT ![e] = Nil]
    /\ signedIn' = [signedIn EXCEPT ![e] = {}]

Next ==
    \E e \in Emails :
        \/ \E p \in Passwords : Register(e, p) \/ ChangePassword(e, p)
        \/ \E s \in SessionIds : SignIn(e, s)
        \/ Remove(e)

Spec == Init /\ [][Next]_vars
=============================================================================
