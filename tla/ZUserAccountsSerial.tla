------------------------ MODULE ZUserAccountsSerial ------------------------
(***************************************************************************)
(* The account handlers when requests about the same account do not        *)
(* overlap: requests about different accounts still run at the same time,  *)
(* command by command, and handlers still die.                             *)
(***************************************************************************)
EXTENDS ZUserAccounts

\* The address of the account a running handler is about: the one in its
\* request or read from the profile, else that of the id it works on.
About(t) ==
    IF At(t, "idle") THEN Nil
    ELSE IF mail[t] # Nil THEN mail[t]
    ELSE owner[uid[t]]

NoOverlap ==
    \A t, x \in Threads : t # x /\ About(t) # Nil => About(t) # About(x)

SerialNext == Next /\ NoOverlap'

SerialSpec == Init /\ [][SerialNext]_vars
-----------------------------------------------------------------------------
\* The account users:lookup:email leads to, if its profile is there.
AccountOf(e) ==
    IF byEmail[e] # Nil /\ name[byEmail[e]] = e THEN pass[byEmail[e]] ELSE Nil

SessionsOf(e) == IF AccountOf(e) = Nil THEN {} ELSE sessions[byEmail[e]]

Directory ==
    INSTANCE AccountDirectory
      WITH account <- [e \in Emails |-> AccountOf(e)],
           signedIn <- [e \in Emails |-> SessionsOf(e)],
           SessionIds <- 1..MaxSessions

\* One request at a time per account, each handler takes effect at one of its
\* commands as AccountDirectory says: create at HSET users:lookup:email, a
\* sign-in at SADD users:<id>:sessions, changeUserPassword at HMSET users:<id>,
\* remove at DEL users:<id>; what handlers about other accounts do in between
\* does not disturb it, nor what a handler that died left undone.
ImplementsDirectory == Directory!Spec

\* "delete user and related devices by using DELETE request"
\* (ZApiHTTPAdminRequestHandler.cpp:310): when the administrator's request
\* ends, no device is linked to the account it deleted.
AdminDeleteTakesDevices ==
    [][\A t \in Threads :
         ForgetEmail(t) /\ op[t] = "admin" => userDevices[uid[t]] = {}]_vars
=============================================================================
