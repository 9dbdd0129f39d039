----------------------- MODULE ZUserAccountsProofs -----------------------
(***************************************************************************)
(* ZUserAccounts for any threads, addresses and passwords and any bounds:  *)
(* its type invariant, the inductive invariant IInv of what the account    *)
(* handlers keep true whatever the order of their commands, and the safety *)
(* properties that follow from it.                                         *)
(***************************************************************************)
EXTENDS ZUserAccounts, TLAPS

\* The two halves of TypeOK: what Redis and the history hold, what the
\* handlers hold.
StoreOK ==
    /\ nextId \in 0..MaxUsers
    /\ name \in [Ids -> Emails \cup {Nil}]
    /\ pass \in [Ids -> Passwords \cup {Nil}]
    /\ apikey \in [Ids -> UserIds \cup {Nil}]
    /\ byApikey \in [UserIds -> UserIds \cup {Nil}]
    /\ byEmail \in [Emails -> UserIds \cup {Nil}]
    /\ userSet \subseteq UserIds
    /\ apikeyOwner \subseteq UserIds
    /\ sessions \in [Ids -> SUBSET (1..MaxSessions)]
    /\ nextSid \in 0..MaxSessions
    /\ devices \subseteq 1..MaxDevices
    /\ nextDev \in 0..MaxDevices
    /\ userDevices \in [Ids -> SUBSET (1..MaxDevices)]
    /\ owner \in [Ids -> Emails \cup {Nil}]
    /\ deleted \subseteq Ids
    /\ torn \subseteq Ids

LocalsOK ==
    /\ pc \in [Threads -> Labels]
    /\ op \in [Threads -> Operations]
    /\ uid \in [Threads -> Ids]
    /\ mail \in [Threads -> Emails \cup {Nil}]
    /\ pw \in [Threads -> Passwords \cup {Nil}]
    /\ key \in [Threads -> UserIds \cup {Nil}]
    /\ devs \in [Threads -> SUBSET (1..MaxDevices)]

\* create() works on an id the counter handed out.
CreatesDrawnId == \A t \in Threads : pc[t] \in CreateSteps => uid[t] \in UserIds

\* The handlers' part of the inductive invariant.
HandlersOK == LocalsOK /\ CreatesDrawnId

TypeInv == StoreOK /\ HandlersOK

LEMMA TypeInvTypeOK == TypeInv => TypeOK
  BY DEF TypeInv, StoreOK, HandlersOK, LocalsOK, TypeOK
-----------------------------------------------------------------------------
(* What the helpers of the actions do to a handler's local variables.      *)

LEMMA GotoType ==
  ASSUME HandlersOK, NEW t \in Threads, NEW label \in Labels,
         label \in CreateSteps => uid[t] \in UserIds, Goto(t, label)
  PROVE  HandlersOK'
  BY DEF HandlersOK, LocalsOK, CreatesDrawnId, Goto, locals

LEMMA StartType ==
  ASSUME HandlersOK, NEW t \in Threads, NEW o \in Operations,
         NEW label \in Labels \ CreateSteps, NEW u \in Ids,
         NEW e \in Emails \cup {Nil}, NEW p \in Passwords \cup {Nil},
         Start(t, o, label, u, e, p)
  PROVE  HandlersOK'
  BY DEF HandlersOK, LocalsOK, CreatesDrawnId, Start

LEMMA FinishType ==
  ASSUME HandlersOK, NEW t \in Threads, Finish(t)
  PROVE  HandlersOK'
  BY BoundsAssumption
     DEF HandlersOK, LocalsOK, CreatesDrawnId, Finish, Labels, CreateSteps, Operations, Ids

LEMMA GotoReadIdType ==
  ASSUME HandlersOK, NEW t \in Threads, NEW label \in Labels \ CreateSteps,
         GotoReadId(t, label)
  PROVE  HandlersOK'
<1> DEFINE read == IF name[uid[t]] = Nil THEN 0 ELSE uid[t]
<1>1. read \in Ids
  BY BoundsAssumption DEF HandlersOK, LocalsOK, Ids
<1>2. /\ uid' = [uid EXCEPT ![t] = read]
      /\ pc' = [pc EXCEPT ![t] = label]
      /\ UNCHANGED <<op, mail, pw, key, devs>>
  BY DEF GotoReadId
<1> HIDE DEF read
<1> QED
  BY <1>1, <1>2 DEF HandlersOK, LocalsOK, CreatesDrawnId

LEMMA GotoReadNameType ==
  ASSUME StoreOK, HandlersOK, NEW t \in Threads, NEW label \in Labels \ CreateSteps,
         GotoReadName(t, label)
  PROVE  HandlersOK'
<1>1. name[uid[t]] \in Emails \cup {Nil}
  BY DEF StoreOK, HandlersOK, LocalsOK
<1> QED
  BY <1>1 DEF HandlersOK, LocalsOK, CreatesDrawnId, GotoReadName

LEMMA AfterRemoveType ==
  ASSUME HandlersOK, NEW t \in Threads, AfterRemove(t)
  PROVE  HandlersOK'
<1>1. CASE op[t] = "remove"
  BY <1>1, GotoType DEF AfterRemove, Labels, CreateSteps
<1>2. CASE op[t] # "remove"
  BY <1>2, FinishType DEF AfterRemove
<1> QED
  BY <1>1, <1>2

\* A step that leaves what the handlers share alone.
LEMMA StoreUnchanged ==
  ASSUME StoreOK,
         UNCHANGED <<nextId, hashVars, indexVars, sessionVars, deviceVars, historyVars>>
  PROVE  StoreOK'
  BY DEF StoreOK, hashVars, indexVars, sessionVars, deviceVars, historyVars
-----------------------------------------------------------------------------
(* The invariant is inductive: one lemma per group of actions.             *)

LEMMA TypeInit == Init => TypeInv
  BY BoundsAssumption, NilAssumption
     DEF Init, TypeInv, StoreOK, HandlersOK, LocalsOK, CreatesDrawnId, Labels, CreateSteps,
         Operations, Ids, UserIds

LEMMA TypeRequest ==
  ASSUME TypeInv, NEW t \in Threads, Request(t)
  PROVE  TypeInv'
<1>1. StoreOK'
  BY StoreUnchanged
     DEF TypeInv, Request, Register, Login, ChangePassword, RemoveUser, AddDIYDevice,
         AddSensorDevice, AdminDelete
<1> USE DEF TypeInv, Labels, CreateSteps, Operations
<1>2. ASSUME NEW e \in Emails, NEW p \in Passwords, Register(t, e, p) \/ Login(t, e, p)
      PROVE  HandlersOK'
  <2>1. byEmail[e] # Nil => byEmail[e] \in Ids
    BY DEF StoreOK, Ids, UserIds
  <2>2. CASE Register(t, e, p) /\ byEmail[e] = Nil
    <3>1. Start(t, "register", "incr", 0, e, p)
      BY <2>2 DEF Register
    <3> QED
      BY <3>1, StartType, BoundsAssumption DEF Ids
  <2>3. CASE Register(t, e, p) /\ byEmail[e] # Nil
    <3>1. Start(t, "register", "exists", byEmail[e], e, p)
      BY <2>3 DEF Register
    <3> QED
      BY <3>1, <2>1, <2>3, StartType
  <2>4. CASE Login(t, e, p)
    <3>1. byEmail[e] # Nil /\ Start(t, "login", "lLen", byEmail[e], e, p)
      BY <2>4 DEF Login
    <3> QED
      BY <3>1, <2>1, StartType
  <2> QED
    BY <1>2, <2>2, <2>3, <2>4
<1>3. ASSUME NEW u \in Ids, NEW p \in Passwords, ChangePassword(t, u, p)
      PROVE  HandlersOK'
  BY <1>3, StartType DEF ChangePassword
<1>4. ASSUME NEW u \in Ids, RemoveUser(t, u) \/ AddDIYDevice(t, u) \/ AddSensorDevice(t, u)
      PROVE  HandlersOK'
  BY <1>4, StartType DEF RemoveUser, AddDIYDevice, AddSensorDevice
<1>5. ASSUME NEW k \in UserIds, AdminDelete(t, k)
      PROVE  HandlersOK'
  <2>1. byApikey[k] \in Ids /\ Start(t, "admin", "aLen", byApikey[k], Nil, Nil)
    BY <1>5 DEF AdminDelete, StoreOK, Ids, UserIds
  <2> QED
    BY <2>1, StartType
<1> QED
  BY <1>1, <1>2, <1>3, <1>4, <1>5 DEF Request
LEMMA TypeRegister ==
  ASSUME TypeInv, NEW t \in Threads, RegisterStep(t)
  PROVE  TypeInv'
<1> USE BoundsAssumption, GotoType, FinishType
    DEF TypeInv, Labels, CreateSteps, At
<1>1. CASE RegisterExists(t) \/ RegisterInfo(t)
  <2>1. StoreOK'
    BY <1>1, StoreUnchanged DEF RegisterExists, RegisterInfo
  <2>2. Finish(t) \/ Goto(t, "incr") \/ Goto(t, "read")
    BY <1>1 DEF RegisterExists, RegisterInfo
  <2>3. HandlersOK'
    BY <2>2
  <2> QED
    BY <2>1, <2>3
<1>2. CASE NewUserId(t)
  <2>1. nextId + 1 \in UserIds
    BY <1>2 DEF NewUserId, StoreOK, UserIds
  <2>2. nextId' \in 0..MaxUsers
    BY <1>2, <2>1 DEF NewUserId, StoreOK, UserIds
  <2>3. (owner \in [Ids -> Emails \cup {Nil}])'
    BY <1>2 DEF NewUserId, StoreOK, HandlersOK, LocalsOK
  <2>4. StoreOK'
    BY <1>2, <2>2, <2>3
       DEF NewUserId, StoreOK, hashVars, indexVars, sessionVars, deviceVars
  <2>5. HandlersOK'
    BY <1>2, <2>1 DEF NewUserId, HandlersOK, LocalsOK, CreatesDrawnId, Ids, UserIds
  <2> QED
    BY <2>4, <2>5
<1>3. CASE \/ SaveUser(t) \/ SaveApikey(t) \/ PublishApikey(t) \/ PublishEmail(t)
           \/ ListUser(t) \/ SaveApikeyOwner(t)
  <2>1. uid[t] \in UserIds
    BY <1>3 DEF SaveUser, SaveApikey, PublishApikey, PublishEmail, ListUser,
                SaveApikeyOwner, HandlersOK, CreatesDrawnId
  <2>2. HandlersOK'
    BY <1>3, <2>1
       DEF SaveUser, SaveApikey, PublishApikey, PublishEmail, ListUser, SaveApikeyOwner
  <2>3. StoreOK'
    BY <1>3, <2>1
       DEF SaveUser, SaveApikey, PublishApikey, PublishEmail, ListUser, SaveApikeyOwner,
           StoreOK, HandlersOK, LocalsOK, hashVars, indexVars, sessionVars, deviceVars,
           historyVars
  <2> QED
    BY <2>2, <2>3
<1>4. CASE RegisterRead(t)
  BY <1>4, StoreUnchanged, GotoReadIdType DEF RegisterRead
<1> QED
  BY <1>1, <1>2, <1>3, <1>4 DEF RegisterStep

LEMMA TypeSignIn ==
  ASSUME TypeInv, NEW t \in Threads, SignInStep(t)
  PROVE  TypeInv'
<1> USE DEF TypeInv, Labels, CreateSteps
<1>1. CASE LoginExists(t)
  BY <1>1, StoreUnchanged, GotoType, FinishType DEF LoginExists
<1>2. CASE LoginRead(t)
  BY <1>2, StoreUnchanged, GotoReadIdType, FinishType DEF LoginRead
<1>3. CASE OpenSession(t)
  <2>1. StoreOK'
    BY <1>3, BoundsAssumption
       DEF OpenSession, StoreOK, HandlersOK, LocalsOK, hashVars, indexVars, deviceVars,
           historyVars
  <2> QED
    BY <1>3, <2>1, FinishType DEF OpenSession
<1> QED
  BY <1>1, <1>2, <1>3 DEF SignInStep

LEMMA TypePassword ==
  ASSUME TypeInv, NEW t \in Threads, PasswordStep(t)
  PROVE  TypeInv'
<1> USE DEF TypeInv, Labels, CreateSteps
<1>1. CASE PasswordExists(t)
  BY <1>1, StoreUnchanged, GotoType, FinishType DEF PasswordExists
<1>2. ASSUME NEW old \in Passwords, PasswordRead(t, old)
      PROVE  TypeInv'
  BY <1>2, StoreUnchanged, GotoReadNameType, FinishType DEF PasswordRead
<1>3. CASE PasswordWrite(t)
  <2>1. StoreOK'
    BY <1>3
       DEF PasswordWrite, StoreOK, HandlersOK, LocalsOK, indexVars, sessionVars,
           deviceVars, historyVars
  <2> QED
    BY <1>3, <2>1, FinishType DEF PasswordWrite
<1> QED
  BY <1>1, <1>2, <1>3 DEF PasswordStep

LEMMA TypeRemove ==
  ASSUME TypeInv, NEW t \in Threads, RemoveStep(t)
  PROVE  TypeInv'
<1> USE DEF TypeInv, Labels, CreateSteps
<1>1. CASE RemoveUserExists(t) \/ AdminExists(t)
  BY <1>1, StoreUnchanged, GotoType, FinishType DEF RemoveUserExists, AdminExists
<1>2. CASE AdminNullDeref(t)
  <2>1. \A x \in Threads : uid[x] \in Ids
    BY DEF HandlersOK, LocalsOK
  <2>2. torn' \subseteq Ids
    BY <1>2, <2>1 DEF AdminNullDeref, StoreOK
  <2>3. StoreOK'
    BY <1>2, <2>2
       DEF AdminNullDeref, StoreOK, hashVars, indexVars, sessionVars, deviceVars
  <2>4. HandlersOK'
    BY <1>2, BoundsAssumption
       DEF AdminNullDeref, HandlersOK, LocalsOK, CreatesDrawnId, Operations, Ids
  <2> QED
    BY <2>3, <2>4
<1>3. CASE AdminRead(t)
  BY <1>3, StoreUnchanged, GotoReadIdType DEF AdminRead
<1>4. CASE RemoveExists(t)
  BY <1>4, StoreUnchanged, GotoType, AfterRemoveType DEF RemoveExists
<1>5. CASE RemoveReadName(t)
  BY <1>5, StoreUnchanged, GotoReadNameType DEF RemoveReadName
<1>6. CASE RemoveReadApikey(t)
  <2>1. apikey[uid[t]] \in UserIds \cup {Nil}
    BY DEF StoreOK, HandlersOK, LocalsOK
  <2>2. HandlersOK'
    BY <1>6, <2>1 DEF RemoveReadApikey, HandlersOK, LocalsOK, CreatesDrawnId
  <2> QED
    BY <1>6, <2>2, StoreUnchanged DEF RemoveReadApikey
<1>7. CASE UnlistUser(t) \/ ForgetApikey(t) \/ DeleteSessions(t)
  <2>1. StoreOK'
    BY <1>7
       DEF UnlistUser, ForgetApikey, DeleteSessions, StoreOK, hashVars, indexVars,
           sessionVars, deviceVars, historyVars
  <2> QED
    BY <1>7, <2>1, GotoType DEF UnlistUser, ForgetApikey, DeleteSessions
<1>8. CASE ForgetEmail(t)
  <2>1. StoreOK'
    BY <1>8 DEF ForgetEmail, StoreOK, hashVars, sessionVars, deviceVars, historyVars
  <2> QED
    BY <1>8, <2>1, AfterRemoveType DEF ForgetEmail
<1>9. CASE ReadDevices(t)
  <2>1. userDevices[uid[t]] \in SUBSET (1..MaxDevices)
    BY DEF StoreOK, HandlersOK, LocalsOK
  <2>2. CASE userDevices[uid[t]] = {}
    BY <1>9, <2>2, StoreUnchanged, FinishType DEF ReadDevices
  <2>3. CASE userDevices[uid[t]] # {}
    <3>1. HandlersOK'
      BY <1>9, <2>1, <2>3 DEF ReadDevices, HandlersOK, LocalsOK, CreatesDrawnId
    <3> QED
      BY <1>9, <3>1, StoreUnchanged DEF ReadDevices
  <2> QED
    BY <2>2, <2>3
<1>10. ASSUME NEW d \in 1..MaxDevices, DeleteDevice(t, d)
       PROVE  TypeInv'
  <2>1. StoreOK'
    BY <1>10 DEF DeleteDevice, StoreOK, hashVars, indexVars, sessionVars, historyVars
  <2>2. HandlersOK'
    BY <1>10 DEF DeleteDevice, HandlersOK, LocalsOK, CreatesDrawnId
  <2> QED
    BY <2>1, <2>2
<1>11. CASE DeleteRelation(t)
  <2>1. StoreOK'
    BY <1>11
       DEF DeleteRelation, StoreOK, hashVars, indexVars, sessionVars, historyVars
  <2> QED
    BY <1>11, <2>1, FinishType DEF DeleteRelation
<1>12. CASE DeleteHash(t)
  <2>1. uid[t] \in Ids
    BY DEF HandlersOK, LocalsOK
  <2>2. StoreOK'
    BY <1>12, <2>1
       DEF DeleteHash, StoreOK, indexVars, sessionVars, deviceVars
  <2> QED
    BY <1>12, <2>2, GotoType DEF DeleteHash
<1> QED
  BY <1>1, <1>2, <1>3, <1>4, <1>5, <1>6, <1>7, <1>8, <1>9, <1>10, <1>11, <1>12
     DEF RemoveStep

LEMMA TypeDevice ==
  ASSUME TypeInv, NEW t \in Threads, DeviceStep(t)
  PROVE  TypeInv'
<1> USE DEF TypeInv, Labels, CreateSteps
<1>1. CASE CreateDevice(t)
  <2>1. nextDev + 1 \in 1..MaxDevices
    BY <1>1, BoundsAssumption DEF CreateDevice, StoreOK
  <2>2. StoreOK'
    BY <1>1, <2>1 DEF CreateDevice, StoreOK, hashVars, indexVars, sessionVars, historyVars
  <2>3. HandlersOK'
    BY <1>1, <2>1 DEF CreateDevice, HandlersOK, LocalsOK, CreatesDrawnId
  <2> QED
    BY <2>2, <2>3
<1>2. CASE LinkDevice(t)
  <2>1. devs[t] \in SUBSET (1..MaxDevices)
    BY DEF HandlersOK, LocalsOK
  <2>2. StoreOK'
    BY <1>2, <2>1 DEF LinkDevice, StoreOK, hashVars, indexVars, sessionVars, historyVars
  <2> QED
    BY <1>2, <2>2, FinishType DEF LinkDevice
<1> QED
  BY <1>1, <1>2 DEF DeviceStep

LEMMA TypeAbort ==
  ASSUME TypeInv, NEW t \in Threads, Abort(t)
  PROVE  TypeInv'
<1>1. uid[t] \in Ids
  BY DEF TypeInv, HandlersOK, LocalsOK
<1>2. StoreOK'
  BY <1>1 DEF TypeInv, Abort, StoreOK, hashVars, indexVars, sessionVars, deviceVars
<1> QED
  BY <1>2, FinishType DEF TypeInv, Abort

LEMMA TypeStep == TypeInv /\ [Next]_vars => TypeInv'
<1> SUFFICES ASSUME TypeInv, [Next]_vars PROVE TypeInv'
  OBVIOUS
<1>1. CASE UNCHANGED vars
  BY <1>1 DEF vars, hashVars, indexVars, sessionVars, deviceVars, locals, historyVars,
              TypeInv, StoreOK, HandlersOK, LocalsOK, CreatesDrawnId
<1>2. CASE Next
  BY <1>2, TypeRequest, TypeRegister, TypeSignIn, TypePassword, TypeRemove, TypeDevice,
     TypeAbort DEF Next, Step
<1> QED
  BY <1>1, <1>2

\* Every variable keeps its type: whatever the handlers do, a counter, an index
\* or a profile never holds what another handler could not read back.
THEOREM TypeCorrect == Spec => []TypeOK
<1>1. Spec => []TypeInv
  BY TypeInit, TypeStep, PTL DEF Spec
<1> QED
  BY <1>1, TypeInvTypeOK, PTL
-----------------------------------------------------------------------------
(* The inductive invariant of the accounts.                                *)

\* Nothing is known of an id the counter has not handed out.
OnlyDrawnIds ==
    /\ \A t \in Threads : uid[t] <= nextId
    /\ \A u \in Ids :
         u > nextId =>
           /\ name[u] = Nil
           /\ apikey[u] = Nil
           /\ sessions[u] = {}
           /\ u \notin userSet \cup apikeyOwner \cup deleted

\* An apikey leads to the account it was made for, an address to an account
\* registered under it.
LookupsLead ==
    /\ \A u \in Ids : apikey[u] # Nil => apikey[u] = u
    /\ \A k \in UserIds : byApikey[k] # Nil => byApikey[k] = k /\ k <= nextId
    /\ \A e \in Emails :
         byEmail[e] # Nil => byEmail[e] <= nextId /\ owner[byEmail[e]] = e

\* The steps at which a handler works for the address an id was registered under.
OwnSteps == CreateSteps \cup {"info", "read", "lLen", "lRead"}

WorksForOwner ==
    \A t \in Threads :
        /\ pc[t] \in OwnSteps => owner[uid[t]] = mail[t]
        /\ pc[t] = "open" /\ uid[t] # 0 => owner[uid[t]] = mail[t]

\* Until its apikey is published, nobody else can reach the account being created.
PrivateUntilKeyed ==
    \A t \in Threads :
        pc[t] \in {"save", "key"} =>
          /\ \A x \in Threads \ {t} : uid[x] # uid[t]
          /\ \A e \in Emails : byEmail[e] # uid[t]
          /\ byApikey[uid[t]] = Nil
          /\ sessions[uid[t]] = {}
          /\ uid[t] \notin apikeyOwner \cup deleted

\* A profile is written whole: no password without a name.
ProfileWhole ==
    /\ \A u \in Ids : pass[u] # Nil => name[u] # Nil
    /\ \A t \in Threads :
         pc[t] \in CreateSteps \cup {"exists", "incr", "cWrite"} => mail[t] # Nil

\* How far a removal has come.
RemovalProgress ==
    \A t \in Threads :
        /\ pc[t] \in {"aLen", "aRead"} => op[t] # "remove"
        /\ pc[t] = "rLen" /\ op[t] = "remove" => Exists(uid[t]) \/ uid[t] \in deleted
        /\ pc[t] \in {"srem", "hdelKey", "hdelMail", "delSess", "devs", "devDel", "devRel"} =>
             uid[t] \in deleted
        /\ pc[t] \in {"del", "srem", "hdelKey"} => key[t] \in {Nil, uid[t]}

\* FullAccountIndexed, with the order of the two indexes.
AccountsIndexed ==
    \A u \in UserIds :
        apikey[u] # Nil =>
          \/ u \in torn
          \/ \E t \in Threads : uid[t] = u /\ pc[t] = "byKey"
          \/ /\ byApikey[u] = u
             /\ \/ u \in userSet
                \/ \E t \in Threads : uid[t] = u /\ pc[t] \in {"byMail", "set"}

IInv ==
    /\ TypeInv
    /\ OnlyDrawnIds /\ LookupsLead /\ WorksForOwner /\ PrivateUntilKeyed
    /\ ProfileWhole /\ RemovalProgress /\ DeletedNeverWhole /\ AccountsIndexed

-----------------------------------------------------------------------------
(* A handler that only reads leaves the store as it is, and goes on with   *)
(* the id it had or with none.                                             *)

Reads(t) ==
    \/ RegisterExists(t) \/ RegisterInfo(t) \/ LoginExists(t) \/ LoginRead(t)
    \/ PasswordExists(t) \/ (\E old \in Passwords : PasswordRead(t, old))
    \/ RemoveUserExists(t) \/ RemoveExists(t) \/ ReadDevices(t)

MovesAlone(t) ==
    /\ \A x \in Threads \ {t} : pc'[x] = pc[x] /\ uid'[x] = uid[x]
    /\ uid'[t] \in {0, uid[t]}

Quiet(t) ==
    /\ pc[t] \notin CreateSteps
    /\ MovesAlone(t)
    /\ UNCHANGED <<nextId, name, apikey, byApikey, userSet, apikeyOwner, sessions,
                   deleted, torn>>

LEMMA ReadsQuiet ==
  ASSUME IInv, NEW t \in Threads, Reads(t)
  PROVE  Quiet(t)
<1>1. pc[t] \notin CreateSteps
  BY DEF Reads, RegisterExists, RegisterInfo, LoginExists, LoginRead, PasswordExists,
         PasswordRead, RemoveUserExists, RemoveExists, ReadDevices, At, CreateSteps
<1>2. UNCHANGED <<nextId, name, apikey, byApikey, userSet, apikeyOwner, sessions,
                  deleted, torn>>
  BY DEF Reads, RegisterExists, RegisterInfo, LoginExists, LoginRead, PasswordExists,
         PasswordRead, RemoveUserExists, RemoveExists, ReadDevices, hashVars, indexVars,
         sessionVars, historyVars
<1>3. MovesAlone(t)
  <2> USE DEF MovesAlone, IInv, TypeInv, HandlersOK, LocalsOK, Goto, Finish, locals
  <2>1. CASE RegisterExists(t)
    BY <2>1 DEF RegisterExists
  <2>2. CASE RegisterInfo(t)
    BY <2>2 DEF RegisterInfo
  <2>3. CASE LoginExists(t)
    BY <2>3 DEF LoginExists
  <2>4. CASE LoginRead(t)
    BY <2>4 DEF LoginRead, GotoReadId
  <2>5. CASE PasswordExists(t)
    BY <2>5 DEF PasswordExists
  <2>6. CASE RemoveUserExists(t)
    BY <2>6 DEF RemoveUserExists
  <2>7. CASE RemoveExists(t)
    BY <2>7 DEF RemoveExists, AfterRemove
  <2>8. CASE ReadDevices(t)
    BY <2>8 DEF ReadDevices
  <2>9. ASSUME NEW old \in Passwords, PasswordRead(t, old)
        PROVE  MovesAlone(t)
    BY <2>9 DEF PasswordRead, GotoReadName
  <2> QED
    BY <2>1, <2>2, <2>3, <2>4, <2>5, <2>6, <2>7, <2>8, <2>9 DEF Reads
<1> QED
  BY <1>1, <1>2, <1>3 DEF Quiet
-----------------------------------------------------------------------------
(* Each part of IInv is kept by every step: the steps are taken in the     *)
(* groups of Next, and in smaller ones where a group disturbs the part.    *)

LEMMA InvInit == Init => IInv
<1> SUFFICES ASSUME Init PROVE IInv
  OBVIOUS
<1>1. TypeInv
  BY TypeInit
<1>2. /\ OnlyDrawnIds /\ LookupsLead /\ WorksForOwner /\ PrivateUntilKeyed
      /\ ProfileWhole /\ RemovalProgress /\ DeletedNeverWhole /\ AccountsIndexed
  BY NilAssumption, BoundsAssumption
     DEF Init, OnlyDrawnIds, LookupsLead, WorksForOwner, OwnSteps, PrivateUntilKeyed,
         ProfileWhole, RemovalProgress, DeletedNeverWhole, AccountsIndexed, CreateSteps,
         Ids, UserIds
<1> QED
  BY <1>1, <1>2 DEF IInv

\* Only a request and INCR give a handler an id it had not.
LEMMA IdKept ==
  ASSUME IInv, NEW t \in Threads
  PROVE  Step(t) \/ Abort(t) =>
           \/ NewUserId(t)
           \/ nextId' = nextId /\ \A x \in Threads : uid'[x] \in {0, uid[x]}
<1>1. uid \in [Threads -> Ids]
  BY DEF IInv, TypeInv, HandlersOK, LocalsOK
<1> DEFINE Kept == nextId' = nextId /\ \A x \in Threads : uid'[x] \in {0, uid[x]}
<1> USE <1>1 DEF Goto, Finish, GotoReadId, GotoReadName, locals
<1>2. ASSUME Reads(t) PROVE Kept
  BY <1>2, ReadsQuiet DEF Quiet, MovesAlone
<1>3. ASSUME \/ SaveUser(t) \/ SaveApikey(t) \/ PublishApikey(t) \/ PublishEmail(t)
             \/ ListUser(t) \/ SaveApikeyOwner(t) \/ RegisterRead(t)
             \/ OpenSession(t) \/ PasswordWrite(t)
      PROVE  Kept
  BY <1>3 DEF SaveUser, SaveApikey, PublishApikey, PublishEmail, ListUser,
              SaveApikeyOwner, RegisterRead, OpenSession, PasswordWrite
<1>4. ASSUME \/ AdminExists(t) \/ AdminNullDeref(t) \/ AdminRead(t) \/ RemoveReadName(t)
             \/ RemoveReadApikey(t) \/ DeleteHash(t) \/ UnlistUser(t) \/ ForgetApikey(t)
             \/ DeleteSessions(t) \/ DeleteRelation(t)
      PROVE  Kept
  BY <1>4 DEF AdminExists, AdminNullDeref, AdminRead, RemoveReadName, RemoveReadApikey,
              DeleteHash, UnlistUser, ForgetApikey, DeleteSessions, DeleteRelation
<1>5. ASSUME ForgetEmail(t) PROVE Kept
  <2>1. Goto(t, "delSess") \/ Finish(t)
    BY <1>5 DEF ForgetEmail, AfterRemove
  <2> QED
    BY <1>5, <2>1 DEF ForgetEmail
<1>6. ASSUME NEW d \in 1..MaxDevices, DeleteDevice(t, d)
      PROVE  Kept
  BY <1>6 DEF DeleteDevice
<1>7. ASSUME DeviceStep(t) \/ Abort(t) PROVE Kept
  BY <1>7 DEF DeviceStep, CreateDevice, LinkDevice, Abort
<1> HIDE DEF Kept
<1>8. Step(t) \/ Abort(t) => NewUserId(t) \/ Kept
  BY <1>2, <1>3, <1>4, <1>5, <1>6, <1>7
     DEF Step, RegisterStep, SignInStep, PasswordStep, RemoveStep, Reads
<1> QED
  BY <1>8 DEF Kept

LEMMA IdsDrawn ==
  ASSUME IInv, NEW t \in Threads, Request(t) \/ Step(t) \/ Abort(t)
  PROVE  \A x \in Threads : uid'[x] <= nextId'
<1>1. /\ uid \in [Threads -> Ids] /\ nextId \in Nat
      /\ byEmail \in [Emails -> UserIds \cup {Nil}]
      /\ byApikey \in [UserIds -> UserIds \cup {Nil}]
      /\ sessions \in [Ids -> SUBSET (1..MaxSessions)]
      /\ OnlyDrawnIds /\ LookupsLead
  BY BoundsAssumption DEF IInv, TypeInv, StoreOK, HandlersOK, LocalsOK
<1> USE <1>1 DEF OnlyDrawnIds, LookupsLead, Ids, UserIds
<1>2. CASE Request(t)
  <2>1. /\ nextId' = nextId
        /\ \E o, label, e, p : \E u \in 0..nextId : Start(t, o, label, u, e, p)
    <3> USE BoundsAssumption
    <3>1. ASSUME NEW e \in Emails, NEW p \in Passwords, Register(t, e, p)
          PROVE  \/ Start(t, "register", "incr", 0, e, p)
                 \/ byEmail[e] \in 0..nextId /\ Start(t, "register", "exists", byEmail[e], e, p)
      BY <3>1 DEF Register
    <3>2. ASSUME NEW e \in Emails, NEW p \in Passwords, Login(t, e, p)
          PROVE  byEmail[e] \in 0..nextId /\ Start(t, "login", "lLen", byEmail[e], e, p)
      BY <3>2 DEF Login
    <3>3. ASSUME NEW u \in Ids, NEW p \in Passwords, ChangePassword(t, u, p)
          PROVE  u \in 0..nextId /\ Start(t, "password", "cLen", u, Nil, p)
      BY <3>3 DEF ChangePassword
    <3>4. ASSUME NEW u \in Ids, RemoveUser(t, u)
          PROVE  u \in 0..nextId /\ Start(t, "remove", "dLen", u, Nil, Nil)
      BY <3>4 DEF RemoveUser
    <3>5. ASSUME NEW u \in Ids, AddDIYDevice(t, u)
          PROVE  u \in 0..nextId /\ Start(t, "diy", "vNew", u, Nil, Nil)
      BY <3>5 DEF AddDIYDevice
    <3>6. ASSUME NEW u \in Ids, AddSensorDevice(t, u)
          PROVE  u \in 0..nextId /\ Start(t, "sensor", "vNew", u, Nil, Nil)
      BY <3>6 DEF AddSensorDevice
    <3>7. ASSUME NEW k \in UserIds, AdminDelete(t, k)
          PROVE  byApikey[k] \in 0..nextId /\ Start(t, "admin", "aLen", byApikey[k], Nil, Nil)
      BY <3>7 DEF AdminDelete
    <3>8. nextId' = nextId
      BY <1>2 DEF Request, Register, Login, ChangePassword, RemoveUser, AddDIYDevice,
                  AddSensorDevice, AdminDelete
    <3> QED
      BY <1>2, <3>1, <3>2, <3>3, <3>4, <3>5, <3>6, <3>7, <3>8 DEF Request
  <2> QED
    BY <2>1 DEF Start
<1>3. CASE NewUserId(t)
  BY <1>3 DEF NewUserId
<1>4. CASE nextId' = nextId /\ \A x \in Threads : uid'[x] \in {0, uid[x]}
  BY <1>4
<1> QED
  BY <1>2, <1>3, <1>4, IdKept

\* Nothing is stored under an id before it is drawn: a command writes under the
\* id its handler works on.
LEMMA StoreDrawn ==
  ASSUME IInv, NEW t \in Threads, Request(t) \/ Step(t) \/ Abort(t)
  PROVE  \A u \in Ids :
           u > nextId' =>
             /\ name'[u] = Nil
             /\ apikey'[u] = Nil
             /\ sessions'[u] = {}
             /\ u \notin userSet' \cup apikeyOwner' \cup deleted'
<1> SUFFICES ASSUME NEW u \in Ids, u > nextId'
             PROVE  /\ name'[u] = Nil
                    /\ apikey'[u] = Nil
                    /\ sessions'[u] = {}
                    /\ u \notin userSet' \cup apikeyOwner' \cup deleted'
  OBVIOUS
<1>1. /\ uid[t] \in Ids /\ nextId \in Nat /\ nextId' \in {nextId, nextId + 1}
      /\ OnlyDrawnIds
      /\ name \in [Ids -> Emails \cup {Nil}]
      /\ apikey \in [Ids -> UserIds \cup {Nil}]
      /\ sessions \in [Ids -> SUBSET (1..MaxSessions)]
  <2>1. nextId' \in {nextId, nextId + 1}
    BY IdKept DEF Request, Register, Login, ChangePassword, RemoveUser, AddDIYDevice,
                  AddSensorDevice, AdminDelete, NewUserId
  <2> QED
    BY <2>1, BoundsAssumption DEF IInv, TypeInv, StoreOK, HandlersOK, LocalsOK
<1>2. u > nextId /\ u # uid[t]
  BY <1>1 DEF OnlyDrawnIds, Ids
<1>3. /\ name[u] = Nil /\ apikey[u] = Nil /\ sessions[u] = {}
      /\ u \notin userSet \cup apikeyOwner \cup deleted
  BY <1>1, <1>2 DEF OnlyDrawnIds
<1> USE <1>1, <1>2, <1>3 DEF hashVars, indexVars, sessionVars, historyVars
<1>4. CASE Request(t)
  BY <1>4 DEF Request, Register, Login, ChangePassword, RemoveUser, AddDIYDevice,
              AddSensorDevice, AdminDelete
<1>5. CASE RegisterStep(t)
  BY <1>5 DEF RegisterStep, RegisterExists, NewUserId, SaveUser, SaveApikey,
              PublishApikey,
              PublishEmail, ListUser, SaveApikeyOwner, RegisterInfo, RegisterRead
<1>6. CASE SignInStep(t) \/ PasswordStep(t) \/ DeviceStep(t) \/ Abort(t)
  BY <1>6 DEF SignInStep, LoginExists, LoginRead, OpenSession, PasswordStep,
              PasswordExists, PasswordRead, PasswordWrite, DeviceStep, CreateDevice,
              LinkDevice, Abort
<1>7. CASE RemoveStep(t)
  BY <1>7 DEF RemoveStep, RemoveUserExists, AdminExists, AdminNullDeref, AdminRead,
              RemoveExists, RemoveReadName, RemoveReadApikey, DeleteHash, UnlistUser,
              ForgetApikey, ForgetEmail, DeleteSessions, ReadDevices, DeleteDevice,
              DeleteRelation
<1> QED
  BY <1>4, <1>5, <1>6, <1>7 DEF Step

LEMMA OnlyDrawnIdsStep ==
  ASSUME IInv, NEW t \in Threads, Request(t) \/ Step(t) \/ Abort(t)
  PROVE  OnlyDrawnIds'
  BY IdsDrawn, StoreDrawn DEF OnlyDrawnIds

\* Looking an apikey or an address up leads where create() pointed it.
LEMMA LookupsLeadStep ==
  ASSUME IInv, NEW t \in Threads
  PROVE  Request(t) \/ Step(t) \/ Abort(t) => LookupsLead'
<1>0. /\ nextId \in 0..MaxUsers
      /\ apikey \in [Ids -> UserIds \cup {Nil}]
      /\ byApikey \in [UserIds -> UserIds \cup {Nil}]
      /\ byEmail \in [Emails -> UserIds \cup {Nil}]
      /\ owner \in [Ids -> Emails \cup {Nil}]
      /\ uid \in [Threads -> Ids]
      /\ CreatesDrawnId /\ OnlyDrawnIds /\ LookupsLead /\ WorksForOwner
  BY DEF IInv, TypeInv, StoreOK, HandlersOK, LocalsOK
<1> USE <1>0, BoundsAssumption, NilAssumption
    DEF CreatesDrawnId, Ids, UserIds, CreateSteps, At, Goto, Finish, Start, GotoReadId,
        GotoReadName, AfterRemove, hashVars, indexVars, sessionVars, deviceVars,
        historyVars, locals,
        OnlyDrawnIds, LookupsLead, WorksForOwner, OwnSteps
<1>1. ASSUME Request(t) PROVE LookupsLead'
  BY <1>1 DEF Request, Register, Login, ChangePassword, RemoveUser, AddDIYDevice,
     AddSensorDevice, AdminDelete
<1>2. ASSUME RegisterStep(t) PROVE LookupsLead'
  <2>1. CASE RegisterExists(t)
    BY <2>1 DEF RegisterExists
  <2>2. CASE NewUserId(t)
    BY <2>2 DEF NewUserId
  <2>3. CASE SaveUser(t) \/ SaveApikey(t) \/ PublishApikey(t) \/ PublishEmail(t)
          \/ ListUser(t) \/ SaveApikeyOwner(t)
    BY <2>3 DEF SaveUser, SaveApikey, PublishApikey, PublishEmail, ListUser,
       SaveApikeyOwner
  <2>4. CASE RegisterInfo(t)
    BY <2>4 DEF RegisterInfo
  <2>5. CASE RegisterRead(t)
    BY <2>5 DEF RegisterRead
  <2> QED
    BY <1>2, <2>1, <2>2, <2>3, <2>4, <2>5 DEF RegisterStep
<1>3. ASSUME SignInStep(t) PROVE LookupsLead'
  BY <1>3 DEF SignInStep, LoginExists, LoginRead, OpenSession
<1>4. ASSUME PasswordStep(t) PROVE LookupsLead'
  BY <1>4 DEF PasswordStep, PasswordExists, PasswordRead, PasswordWrite
<1>5. ASSUME RemoveStep(t) PROVE LookupsLead'
  BY <1>5 DEF RemoveStep, RemoveUserExists, AdminExists, AdminNullDeref, AdminRead,
     RemoveExists, RemoveReadName, RemoveReadApikey, DeleteHash, UnlistUser,
     ForgetApikey, ForgetEmail, DeleteSessions, ReadDevices, DeleteDevice,
     DeleteRelation
<1>6. ASSUME DeviceStep(t) PROVE LookupsLead'
  BY <1>6 DEF DeviceStep, CreateDevice, LinkDevice
<1>7. ASSUME Abort(t) PROVE LookupsLead'
  BY <1>7 DEF Abort
<1> QED
  BY <1>1, <1>2, <1>3, <1>4, <1>5, <1>6, <1>7 DEF Step

\* The id a handler works on was registered under the address it works for.
LEMMA WorksForOwnerStep ==
  ASSUME IInv, NEW t \in Threads
  PROVE  Request(t) \/ Step(t) \/ Abort(t) => WorksForOwner'
<1>0. /\ nextId \in 0..MaxUsers
      /\ name \in [Ids -> Emails \cup {Nil}]
      /\ byEmail \in [Emails -> UserIds \cup {Nil}]
      /\ owner \in [Ids -> Emails \cup {Nil}]
      /\ pc \in [Threads -> Labels]
      /\ uid \in [Threads -> Ids]
      /\ mail \in [Threads -> Emails \cup {Nil}]
      /\ CreatesDrawnId /\ OnlyDrawnIds /\ LookupsLead /\ WorksForOwner
  BY DEF IInv, TypeInv, StoreOK, HandlersOK, LocalsOK
<1> USE <1>0, BoundsAssumption, NilAssumption
    DEF CreatesDrawnId, Ids, UserIds, CreateSteps, At, Goto, Finish, Start, GotoReadId,
        GotoReadName, AfterRemove, hashVars, indexVars, sessionVars, deviceVars,
        historyVars, locals,
        OnlyDrawnIds, LookupsLead, WorksForOwner, OwnSteps
<1>1. ASSUME Request(t) PROVE WorksForOwner'
  <2>1. ASSUME NEW e \in Emails, NEW p \in Passwords, Register(t, e, p)
        PROVE  WorksForOwner'
    BY <2>1 DEF Register
  <2>2. ASSUME NEW e \in Emails, NEW p \in Passwords, Login(t, e, p)
        PROVE  WorksForOwner'
    BY <2>2 DEF Login
  <2>3. ASSUME NEW u \in Ids, NEW p \in Passwords, ChangePassword(t, u, p)
        PROVE  WorksForOwner'
    BY <2>3 DEF ChangePassword
  <2>4. ASSUME NEW u \in Ids, RemoveUser(t, u) \/ AddDIYDevice(t, u) \/ AddSensorDevice(t, u)
        PROVE  WorksForOwner'
    BY <2>4 DEF RemoveUser, AddDIYDevice, AddSensorDevice
  <2>5. ASSUME NEW k \in UserIds, AdminDelete(t, k)
        PROVE  WorksForOwner'
    BY <2>5 DEF AdminDelete
  <2> QED
    BY <1>1, <2>1, <2>2, <2>3, <2>4, <2>5 DEF Request
<1>2. ASSUME RegisterStep(t) PROVE WorksForOwner'
  BY <1>2 DEF RegisterStep, RegisterExists, NewUserId, SaveUser, SaveApikey,
     PublishApikey, PublishEmail, ListUser, SaveApikeyOwner, RegisterInfo, RegisterRead
<1>3. ASSUME SignInStep(t) PROVE WorksForOwner'
  BY <1>3 DEF SignInStep, LoginExists, LoginRead, OpenSession
<1>4. ASSUME PasswordStep(t) PROVE WorksForOwner'
  BY <1>4 DEF PasswordStep, PasswordExists, PasswordRead, PasswordWrite
<1>5. ASSUME RemoveStep(t) PROVE WorksForOwner'
  BY <1>5 DEF RemoveStep, RemoveUserExists, AdminExists, AdminNullDeref, AdminRead,
     RemoveExists, RemoveReadName, RemoveReadApikey, DeleteHash, UnlistUser,
     ForgetApikey, ForgetEmail, DeleteSessions, ReadDevices, DeleteDevice,
     DeleteRelation
<1>6. ASSUME DeviceStep(t) PROVE WorksForOwner'
  BY <1>6 DEF DeviceStep, CreateDevice, LinkDevice
<1>7. ASSUME Abort(t) PROVE WorksForOwner'
  BY <1>7 DEF Abort
<1> QED
  BY <1>1, <1>2, <1>3, <1>4, <1>5, <1>6, <1>7 DEF Step

\* No lookup, no session and no other handler has the id create() is at work on.
LEMMA PrivateUntilKeyedStep ==
  ASSUME IInv, NEW t \in Threads
  PROVE  Request(t) \/ Step(t) \/ Abort(t) => PrivateUntilKeyed'
<1>0. /\ nextId \in 0..MaxUsers
      /\ byApikey \in [UserIds -> UserIds \cup {Nil}]
      /\ byEmail \in [Emails -> UserIds \cup {Nil}]
      /\ sessions \in [Ids -> SUBSET (1..MaxSessions)]
      /\ pc \in [Threads -> Labels]
      /\ uid \in [Threads -> Ids]
      /\ CreatesDrawnId /\ OnlyDrawnIds /\ LookupsLead /\ PrivateUntilKeyed
  BY DEF IInv, TypeInv, StoreOK, HandlersOK, LocalsOK
<1> USE <1>0, BoundsAssumption, NilAssumption
    DEF CreatesDrawnId, Ids, UserIds, CreateSteps, At, Goto, Finish, Start, GotoReadId,
        GotoReadName, AfterRemove, hashVars, indexVars, sessionVars, deviceVars,
        historyVars, locals,
        OnlyDrawnIds, LookupsLead, PrivateUntilKeyed
<1>1. ASSUME Request(t) PROVE PrivateUntilKeyed'
  BY <1>1 DEF Request, Register, Login, ChangePassword, RemoveUser, AddDIYDevice,
     AddSensorDevice, AdminDelete
<1>2. ASSUME RegisterStep(t) PROVE PrivateUntilKeyed'
  BY <1>2 DEF RegisterStep, RegisterExists, NewUserId, SaveUser, SaveApikey,
     PublishApikey, PublishEmail, ListUser, SaveApikeyOwner, RegisterInfo, RegisterRead
<1>3. ASSUME SignInStep(t) PROVE PrivateUntilKeyed'
  BY <1>3 DEF SignInStep, LoginExists, LoginRead, OpenSession
<1>4. ASSUME PasswordStep(t) PROVE PrivateUntilKeyed'
  BY <1>4 DEF PasswordStep, PasswordExists, PasswordRead, PasswordWrite
<1>5. ASSUME RemoveStep(t) PROVE PrivateUntilKeyed'
  BY <1>5 DEF RemoveStep, RemoveUserExists, AdminExists, AdminNullDeref, AdminRead,
     RemoveExists, RemoveReadName, RemoveReadApikey, DeleteHash, UnlistUser,
     ForgetApikey, ForgetEmail, DeleteSessions, ReadDevices, DeleteDevice,
     DeleteRelation
<1>6. ASSUME DeviceStep(t) PROVE PrivateUntilKeyed'
  <2>1. CASE CreateDevice(t)
    BY <2>1 DEF CreateDevice
  <2>2. CASE LinkDevice(t)
    BY <2>2 DEF LinkDevice
  <2> QED
    BY <1>6, <2>1, <2>2 DEF DeviceStep
<1>7. ASSUME Abort(t) PROVE PrivateUntilKeyed'
  BY <1>7 DEF Abort
<1> QED
  BY <1>1, <1>2, <1>3, <1>4, <1>5, <1>6, <1>7 DEF Step

\* HMSET writes the name whenever it writes the password.
LEMMA ProfileWholeStep ==
  ASSUME IInv, NEW t \in Threads
  PROVE  Request(t) \/ Step(t) \/ Abort(t) => ProfileWhole'
<1>0. /\ name \in [Ids -> Emails \cup {Nil}]
      /\ pass \in [Ids -> Passwords \cup {Nil}]
      /\ pc \in [Threads -> Labels]
      /\ uid \in [Threads -> Ids]
      /\ mail \in [Threads -> Emails \cup {Nil}]
      /\ CreatesDrawnId /\ ProfileWhole
  BY DEF IInv, TypeInv, StoreOK, HandlersOK, LocalsOK
<1> USE <1>0, BoundsAssumption, NilAssumption
    DEF CreatesDrawnId, Ids, UserIds, CreateSteps, At, Goto, Finish, Start, GotoReadId,
        GotoReadName, AfterRemove, hashVars, indexVars, sessionVars, deviceVars,
        historyVars, locals,
        ProfileWhole
<1>1. ASSUME Request(t) PROVE ProfileWhole'
  <2>1. ASSUME NEW e \in Emails, NEW p \in Passwords, Register(t, e, p) \/ Login(t, e, p)
        PROVE  ProfileWhole'
    BY <2>1 DEF Register, Login
  <2>2. ASSUME NEW u \in Ids, NEW p \in Passwords, ChangePassword(t, u, p)
        PROVE  ProfileWhole'
    BY <2>2 DEF ChangePassword
  <2>3. ASSUME NEW u \in Ids, RemoveUser(t, u) \/ AddDIYDevice(t, u) \/ AddSensorDevice(t, u)
        PROVE  ProfileWhole'
    BY <2>3 DEF RemoveUser, AddDIYDevice, AddSensorDevice
  <2>4. ASSUME NEW k \in UserIds, AdminDelete(t, k)
        PROVE  ProfileWhole'
    BY <2>4 DEF AdminDelete
  <2> QED
    BY <1>1, <2>1, <2>2, <2>3, <2>4 DEF Request
<1>2. ASSUME RegisterStep(t) PROVE ProfileWhole'
  BY <1>2 DEF RegisterStep, RegisterExists, NewUserId, SaveUser, SaveApikey,
     PublishApikey, PublishEmail, ListUser, SaveApikeyOwner, RegisterInfo, RegisterRead
<1>3. ASSUME SignInStep(t) PROVE ProfileWhole'
  <2>1. CASE LoginExists(t)
    BY <2>1 DEF LoginExists
  <2>2. CASE LoginRead(t)
    BY <2>2 DEF LoginRead
  <2>3. CASE OpenSession(t)
    BY <2>3 DEF OpenSession
  <2> QED
    BY <1>3, <2>1, <2>2, <2>3 DEF SignInStep
<1>4. ASSUME PasswordStep(t) PROVE ProfileWhole'
  <2>1. CASE PasswordExists(t)
    BY <2>1 DEF PasswordExists
  <2>2. ASSUME NEW old \in Passwords, PasswordRead(t, old)
        PROVE  ProfileWhole'
    BY <2>2 DEF PasswordRead
  <2>3. CASE PasswordWrite(t)
    BY <2>3 DEF PasswordWrite
  <2> QED
    BY <1>4, <2>1, <2>2, <2>3 DEF PasswordStep
<1>5. ASSUME RemoveStep(t) PROVE ProfileWhole'
  <2>1. CASE RemoveUserExists(t)
    BY <2>1 DEF RemoveUserExists
  <2>2. CASE RemoveExists(t)
    BY <2>2 DEF RemoveExists
  <2>3. CASE ReadDevices(t)
    BY <2>3 DEF ReadDevices
  <2>4. CASE AdminNullDeref(t)
    BY <2>4 DEF AdminNullDeref
  <2>5. CASE AdminExists(t) \/ AdminRead(t) \/ RemoveReadName(t) \/ RemoveReadApikey(t)
    BY <2>5 DEF AdminExists, AdminRead, RemoveReadName, RemoveReadApikey
  <2>6. CASE DeleteHash(t)
    BY <2>6 DEF DeleteHash
  <2>7. CASE UnlistUser(t) \/ ForgetApikey(t) \/ ForgetEmail(t) \/ DeleteSessions(t)
          \/ DeleteRelation(t)
    BY <2>7 DEF UnlistUser, ForgetApikey, ForgetEmail, DeleteSessions, DeleteRelation
  <2>8. ASSUME NEW d \in 1..MaxDevices, DeleteDevice(t, d)
        PROVE  ProfileWhole'
    BY <2>8 DEF DeleteDevice
  <2> QED
    BY <1>5, <2>1, <2>2, <2>3, <2>4, <2>5, <2>6, <2>7, <2>8 DEF RemoveStep
<1>6. ASSUME DeviceStep(t) PROVE ProfileWhole'
  BY <1>6 DEF DeviceStep, CreateDevice, LinkDevice
<1>7. ASSUME Abort(t) PROVE ProfileWhole'
  BY <1>7 DEF Abort
<1> QED
  BY <1>1, <1>2, <1>3, <1>4, <1>5, <1>6, <1>7 DEF Step

\* A removal only goes past remove() when the profile has been deleted.
LEMMA RemovalProgressStep ==
  ASSUME IInv, NEW t \in Threads
  PROVE  Request(t) \/ Step(t) \/ Abort(t) => RemovalProgress'
<1>0. /\ name \in [Ids -> Emails \cup {Nil}]
      /\ apikey \in [Ids -> UserIds \cup {Nil}]
      /\ pc \in [Threads -> Labels]
      /\ op \in [Threads -> Operations]
      /\ uid \in [Threads -> Ids]
      /\ key \in [Threads -> UserIds \cup {Nil}]
      /\ CreatesDrawnId /\ LookupsLead /\ ProfileWhole /\ RemovalProgress
  BY DEF IInv, TypeInv, StoreOK, HandlersOK, LocalsOK
<1> USE <1>0, BoundsAssumption, NilAssumption
    DEF CreatesDrawnId, Ids, UserIds, CreateSteps, At, Goto, Finish, Start, GotoReadId,
        GotoReadName, AfterRemove, hashVars, indexVars, sessionVars, deviceVars,
        historyVars, locals,
        LookupsLead, ProfileWhole, RemovalProgress, Exists
<1>1. ASSUME Request(t) PROVE RemovalProgress'
  BY <1>1 DEF Request, Register, Login, ChangePassword, RemoveUser, AddDIYDevice,
     AddSensorDevice, AdminDelete
<1>2. ASSUME RegisterStep(t) PROVE RemovalProgress'
  BY <1>2 DEF RegisterStep, RegisterExists, NewUserId, SaveUser, SaveApikey,
     PublishApikey, PublishEmail, ListUser, SaveApikeyOwner, RegisterInfo, RegisterRead
<1>3. ASSUME SignInStep(t) PROVE RemovalProgress'
  BY <1>3 DEF SignInStep, LoginExists, LoginRead, OpenSession
<1>4. ASSUME PasswordStep(t) PROVE RemovalProgress'
  BY <1>4 DEF PasswordStep, PasswordExists, PasswordRead, PasswordWrite
<1>5. ASSUME RemoveStep(t) PROVE RemovalProgress'
  <2>1. CASE RemoveUserExists(t)
    BY <2>1 DEF RemoveUserExists
  <2>2. CASE RemoveExists(t)
    <3>1. CASE Exists(uid[t])
      BY <2>2, <3>1 DEF RemoveExists
    <3>2. CASE ~Exists(uid[t]) /\ op[t] = "remove"
      BY <2>2, <3>2 DEF RemoveExists
    <3>3. CASE ~Exists(uid[t]) /\ op[t] # "remove"
      BY <2>2, <3>3 DEF RemoveExists
    <3> QED
      BY <3>1, <3>2, <3>3
  <2>3. CASE ReadDevices(t)
    <3>1. CASE userDevices[uid[t]] = {}
      BY <2>3, <3>1 DEF ReadDevices
    <3>2. CASE userDevices[uid[t]] # {}
      BY <2>3, <3>2 DEF ReadDevices
    <3> QED
      BY <3>1, <3>2
  <2>4. CASE AdminNullDeref(t)
    BY <2>4 DEF AdminNullDeref
  <2>5. CASE AdminRead(t)
    BY <2>5 DEF AdminRead
  <2>6. CASE AdminExists(t) \/ RemoveReadName(t) \/ RemoveReadApikey(t) \/ DeleteHash(t)
             \/ UnlistUser(t) \/ ForgetApikey(t) \/ ForgetEmail(t) \/ DeleteSessions(t)
             \/ DeleteRelation(t)
    BY <2>6 DEF AdminExists, RemoveReadName, RemoveReadApikey, DeleteHash, UnlistUser,
       ForgetApikey, ForgetEmail, DeleteSessions, DeleteRelation
  <2>7. ASSUME NEW d \in 1..MaxDevices, DeleteDevice(t, d)
        PROVE  RemovalProgress'
    BY <2>7 DEF DeleteDevice
  <2> QED
    BY <1>5, <2>1, <2>2, <2>3, <2>4, <2>5, <2>6, <2>7 DEF RemoveStep
<1>6. ASSUME DeviceStep(t) PROVE RemovalProgress'
  BY <1>6 DEF DeviceStep, CreateDevice, LinkDevice
<1>7. ASSUME Abort(t) PROVE RemovalProgress'
  BY <1>7 DEF Abort
<1> QED
  BY <1>1, <1>2, <1>3, <1>4, <1>5, <1>6, <1>7 DEF Step

\* The steps that write an apikey or delete a profile are two.
LEMMA KeyChanges ==
  ASSUME NEW t \in Threads, Request(t) \/ Step(t) \/ Abort(t)
  PROVE  UNCHANGED <<apikey, deleted>> \/ SaveApikey(t) \/ DeleteHash(t)
<1> USE DEF hashVars, historyVars
<1>1. CASE Request(t)
  BY <1>1 DEF Request, Register, Login, ChangePassword, RemoveUser, AddDIYDevice,
              AddSensorDevice, AdminDelete
<1>2. CASE RegisterStep(t)
  BY <1>2 DEF RegisterStep, RegisterExists, NewUserId, SaveUser, PublishApikey,
              PublishEmail, ListUser, SaveApikeyOwner, RegisterInfo, RegisterRead
<1>3. CASE SignInStep(t) \/ PasswordStep(t) \/ DeviceStep(t) \/ Abort(t)
  BY <1>3 DEF SignInStep, LoginExists, LoginRead, OpenSession, PasswordStep,
              PasswordExists, PasswordRead, PasswordWrite, DeviceStep, CreateDevice,
              LinkDevice, Abort
<1>4. CASE RemoveStep(t)
  BY <1>4 DEF RemoveStep, RemoveUserExists, AdminExists, AdminNullDeref, AdminRead,
              RemoveExists, RemoveReadName, RemoveReadApikey, UnlistUser, ForgetApikey,
              ForgetEmail, DeleteSessions, ReadDevices, DeleteDevice, DeleteRelation
<1> QED
  BY <1>1, <1>2, <1>3, <1>4 DEF Step

LEMMA DeletedNeverWholeStep ==
  ASSUME IInv, NEW t \in Threads, Request(t) \/ Step(t) \/ Abort(t)
  PROVE  DeletedNeverWhole'
<1>1. CASE UNCHANGED <<apikey, deleted>>
  BY <1>1 DEF IInv, DeletedNeverWhole
<1>2. apikey \in [Ids -> UserIds \cup {Nil}] /\ uid[t] \in Ids /\ deleted \subseteq Ids
  BY DEF IInv, TypeInv, StoreOK, HandlersOK, LocalsOK
<1>3. CASE SaveApikey(t)
  <2>1. uid[t] \notin deleted
    BY <1>3 DEF SaveApikey, At, IInv, PrivateUntilKeyed
  <2> QED
    BY <1>2, <1>3, <2>1 DEF SaveApikey, historyVars, IInv, DeletedNeverWhole
<1>4. CASE DeleteHash(t)
  BY <1>2, <1>4 DEF DeleteHash, IInv, DeletedNeverWhole
<1> QED
  BY <1>1, <1>3, <1>4, KeyChanges

\* A step that leaves the apikeys and their indexes alone, and that no handler
\* publishing an account takes without the account being torn.
KeepsPublishing ==
    /\ UNCHANGED <<apikey, byApikey, userSet>>
    /\ torn \subseteq torn'
    /\ \A x \in Threads :
         pc[x] \in {"byKey", "byMail", "set"} =>
           \/ pc'[x] = pc[x] /\ uid'[x] = uid[x]
           \/ uid[x] \in torn'

LEMMA KeepsIndexed == AccountsIndexed /\ KeepsPublishing => AccountsIndexed'
<1> SUFFICES ASSUME AccountsIndexed, KeepsPublishing, NEW u \in UserIds, apikey'[u] # Nil, u \notin torn'
             PROVE \/ \E t \in Threads : uid'[t] = u /\ pc'[t] = "byKey"
                   \/ /\ byApikey'[u] = u
                      /\ \/ u \in userSet'
                         \/ \E t \in Threads : uid'[t] = u /\ pc'[t] \in {"byMail", "set"}
  BY DEF AccountsIndexed
<1>1. CASE \E t \in Threads : uid[t] = u /\ pc[t] = "byKey"
  BY <1>1 DEF KeepsPublishing
<1>2. CASE byApikey[u] = u /\ u \in userSet
  BY <1>2 DEF KeepsPublishing
<1>3. CASE byApikey[u] = u /\ \E t \in Threads : uid[t] = u /\ pc[t] \in {"byMail", "set"}
  BY <1>3 DEF KeepsPublishing
<1> QED
  BY <1>1, <1>2, <1>3 DEF KeepsPublishing, AccountsIndexed

LEMMA KeepsPublishingStep ==
  ASSUME IInv, NEW t \in Threads
  PROVE  Request(t) \/ Step(t) \/ Abort(t) =>
           \/ KeepsPublishing
           \/ SaveApikey(t) \/ PublishApikey(t) \/ PublishEmail(t) \/ ListUser(t)
           \/ DeleteHash(t) \/ UnlistUser(t) \/ ForgetApikey(t)
<1>1. pc \in [Threads -> Labels] /\ uid \in [Threads -> Ids]
  BY DEF IInv, TypeInv, HandlersOK, LocalsOK
<1> USE <1>1 DEF KeepsPublishing, At, Goto, Finish, hashVars, indexVars, historyVars,
                 locals
<1>2. ASSUME Request(t) PROVE KeepsPublishing
  <2>1. UNCHANGED <<apikey, byApikey, userSet, torn>>
    BY <1>2 DEF Request, Register, Login, ChangePassword, RemoveUser, AddDIYDevice,
                AddSensorDevice, AdminDelete
  <2>2. \E o, label, u, e, p : Start(t, o, label, u, e, p)
    BY <1>2 DEF Request, Register, Login, ChangePassword, RemoveUser, AddDIYDevice,
                AddSensorDevice, AdminDelete
  <2> QED
    BY <2>1, <2>2 DEF Start
<1>3. ASSUME Reads(t) PROVE KeepsPublishing
  BY <1>3, ReadsQuiet DEF Quiet, MovesAlone, CreateSteps
<1>4. ASSUME NewUserId(t) \/ SaveUser(t) \/ SaveApikeyOwner(t) \/ RegisterRead(t)
      PROVE  KeepsPublishing
  BY <1>4 DEF NewUserId, SaveUser, SaveApikeyOwner, RegisterRead, GotoReadId
<1>5. ASSUME OpenSession(t) \/ PasswordWrite(t)
      PROVE  KeepsPublishing
  BY <1>5 DEF OpenSession, PasswordWrite
<1>6. ASSUME AdminExists(t) \/ AdminRead(t) \/ RemoveReadName(t) \/ RemoveReadApikey(t)
             \/ DeleteSessions(t) \/ DeleteRelation(t)
      PROVE  KeepsPublishing
  BY <1>6 DEF AdminExists, AdminRead, RemoveReadName, RemoveReadApikey, DeleteSessions,
              DeleteRelation, GotoReadId, GotoReadName
<1>7. ASSUME ForgetEmail(t) PROVE KeepsPublishing
  <2>1. Goto(t, "delSess") \/ Finish(t)
    BY <1>7 DEF ForgetEmail, AfterRemove
  <2> QED
    BY <1>7, <2>1 DEF ForgetEmail
<1>8. ASSUME AdminNullDeref(t) PROVE KeepsPublishing
  <2>1. \A x \in Threads : pc[x] \in {"byKey", "byMail", "set"} => uid[x] \in torn'
    BY <1>8 DEF AdminNullDeref, CreateSteps
  <2> QED
    BY <1>8, <2>1 DEF AdminNullDeref
<1>9. ASSUME NEW d \in 1..MaxDevices, DeleteDevice(t, d)
      PROVE  KeepsPublishing
  BY <1>9 DEF DeleteDevice
<1>10. ASSUME DeviceStep(t) PROVE KeepsPublishing
  BY <1>10 DEF DeviceStep, CreateDevice, LinkDevice
<1>11. ASSUME Abort(t) PROVE KeepsPublishing
  BY <1>11 DEF Abort, CreateSteps
<1> QED
  BY <1>2, <1>3, <1>4, <1>5, <1>6, <1>7, <1>8, <1>9, <1>10, <1>11
     DEF Step, RegisterStep, SignInStep, PasswordStep, RemoveStep, Reads

LEMMA AccountsIndexedStep ==
  ASSUME IInv, NEW t \in Threads, Request(t) \/ Step(t) \/ Abort(t)
  PROVE  AccountsIndexed'
<1>1. CASE KeepsPublishing
  BY <1>1, KeepsIndexed DEF IInv
<1>2. /\ pc \in [Threads -> Labels] /\ uid \in [Threads -> Ids]
      /\ apikey \in [Ids -> UserIds \cup {Nil}]
      /\ byApikey \in [UserIds -> UserIds \cup {Nil}]
      /\ CreatesDrawnId /\ LookupsLead /\ RemovalProgress /\ DeletedNeverWhole /\ AccountsIndexed
  BY DEF IInv, TypeInv, StoreOK, HandlersOK, LocalsOK
<1> USE <1>2, NilAssumption DEF AccountsIndexed, At, Goto, locals, Ids, UserIds
<1>3. CASE SaveApikey(t)
  BY <1>3 DEF SaveApikey, indexVars, historyVars
<1>4. CASE PublishApikey(t)
  BY <1>4 DEF PublishApikey, hashVars, historyVars
<1>5. CASE PublishEmail(t)
  BY <1>5 DEF PublishEmail, hashVars, historyVars
<1>6. CASE ListUser(t)
  BY <1>6 DEF ListUser, hashVars, historyVars
<1>7. CASE DeleteHash(t)
  BY <1>7 DEF DeleteHash, indexVars
<1>8. CASE UnlistUser(t)
  BY <1>8 DEF UnlistUser, hashVars, historyVars, RemovalProgress, DeletedNeverWhole
<1>9. CASE ForgetApikey(t)
  BY <1>9 DEF ForgetApikey, hashVars, historyVars, RemovalProgress, DeletedNeverWhole
<1> QED
  BY <1>1, <1>3, <1>4, <1>5, <1>6, <1>7, <1>8, <1>9, KeepsPublishingStep
-----------------------------------------------------------------------------
LEMMA InvStep == IInv /\ [Next]_vars => IInv'
<1> SUFFICES ASSUME IInv, [Next]_vars PROVE IInv'
  OBVIOUS
<1>1. TypeInv'
  BY TypeStep DEF IInv
<1>2. CASE Next
  <2>1. PICK t \in Threads : Request(t) \/ Step(t) \/ Abort(t)
    BY <1>2 DEF Next
  <2> QED
    BY <1>1, <2>1, OnlyDrawnIdsStep, LookupsLeadStep, WorksForOwnerStep,
       PrivateUntilKeyedStep, ProfileWholeStep, RemovalProgressStep,
       DeletedNeverWholeStep, AccountsIndexedStep DEF IInv
<1>3. CASE UNCHANGED vars
  BY <1>1, <1>3
     DEF vars, hashVars, indexVars, sessionVars, deviceVars, locals, historyVars, IInv,
         OnlyDrawnIds, LookupsLead, WorksForOwner, PrivateUntilKeyed, ProfileWhole,
         RemovalProgress, DeletedNeverWhole, AccountsIndexed, Exists
<1> QED
  BY <1>2, <1>3

LEMMA InvAlways == Spec => []IInv
  BY InvInit, InvStep, PTL DEF Spec

\* No interleaving of registrations, removals and password changes makes a
\* sign-in or a registration hand out a session on somebody else's account.
THEOREM SignInSafe == Spec => []SignInOpensOwnAccount
<1>1. IInv => SignInOpensOwnAccount
  BY DEF IInv, WorksForOwner, SignInOpensOwnAccount, At
<1> QED
  BY <1>1, InvAlways, PTL

\* No interleaving with remove() hides an account that has its apikey: it stays
\* found by the apikey and listed, unless its own create() is cut short.
THEOREM FullAccountSafe == Spec => []FullAccountIndexed
<1>1. IInv => FullAccountIndexed
  BY DEF IInv, AccountsIndexed, FullAccountIndexed
<1> QED
  BY <1>1, InvAlways, PTL

\* Whatever a slow password change writes back, a deleted account never gets its
\* apikey again.
THEOREM DeletedStaysKeyless == Spec => []DeletedNeverWhole
<1>1. IInv => DeletedNeverWhole
  BY DEF IInv
<1> QED
  BY <1>1, InvAlways, PTL

\* A removal signs nobody out whose profile was not deleted before.
THEOREM LogoutSafe == Spec => LogoutOnlyAfterDelete
<1>1. ASSUME IInv, [Next]_vars, NEW u \in Ids, ~(sessions[u] \subseteq sessions'[u])
      PROVE  u \in deleted
  <2>1. sessions # sessions'
    BY <1>1
  <2>2. PICK t \in Threads : Request(t) \/ Step(t) \/ Abort(t)
    BY <1>1, <2>1 DEF Next, vars, sessionVars
  <2>3. OpenSession(t) \/ DeleteSessions(t)
    BY <2>1, <2>2
       DEF sessionVars, Request, Register, Login, ChangePassword, RemoveUser,
           AddDIYDevice, AddSensorDevice, AdminDelete, Step, RegisterStep,
           RegisterExists, NewUserId, SaveUser, SaveApikey, PublishApikey, PublishEmail,
           ListUser, SaveApikeyOwner, RegisterInfo, RegisterRead, SignInStep,
           LoginExists, LoginRead, PasswordStep, PasswordExists, PasswordRead,
           PasswordWrite, RemoveStep, RemoveUserExists, AdminExists, AdminNullDeref,
           AdminRead, RemoveExists, RemoveReadName, RemoveReadApikey, DeleteHash,
           UnlistUser, ForgetApikey, ForgetEmail, ReadDevices, DeleteDevice,
           DeleteRelation, DeviceStep, CreateDevice, LinkDevice, Abort
  <2>4. sessions \in [Ids -> SUBSET (1..MaxSessions)]
    BY <1>1 DEF IInv, TypeInv, StoreOK
  <2>5. CASE OpenSession(t)
    BY <1>1, <2>4, <2>5 DEF OpenSession
  <2>6. CASE DeleteSessions(t)
    BY <1>1, <2>4, <2>6 DEF DeleteSessions, At, IInv, RemovalProgress
  <2> QED
    BY <2>3, <2>5, <2>6
<1>2. IInv /\ [Next]_vars => [\A u \in Ids : ~(sessions[u] \subseteq sessions'[u]) => u \in deleted]_vars
  BY <1>1
<1> QED
  BY <1>2, InvAlways, PTL DEF Spec, LogoutOnlyAfterDelete

-----------------------------------------------------------------------------
(***************************************************************************)
(* Whose the devices are: the lists removals work on can be old, and still *)
(* only name devices of the account being removed.                         *)
(***************************************************************************)

\* A device is linked to one account at most.
LinksDisjoint ==
    \A u, v \in Ids : u # v => userDevices[u] \cap userDevices[v] = {}

\* A device between its creation and its link is in nobody else's hands.
NewDevicesPrivate ==
    \A t \in Threads :
        pc[t] = "vLink" =>
          /\ \A u \in Ids : devs[t] \cap userDevices[u] = {}
          /\ \A x \in Threads \ {t} : devs[t] \cap devs[x] = {}

\* The list a removal works on is old, but no other account got its devices.
ListsOwned ==
    \A t \in Threads :
        pc[t] = "devDel" => \A u \in Ids \ {uid[t]} : devs[t] \cap userDevices[u] = {}

\* No device is known before counter:id:devices hands its id out.
OnlyDrawnDevices ==
    /\ \A u \in Ids : userDevices[u] \subseteq 1..nextDev
    /\ \A t \in Threads : devs[t] \subseteq 1..nextDev

DevicesInv == LinksDisjoint /\ NewDevicesPrivate /\ ListsOwned /\ OnlyDrawnDevices
-----------------------------------------------------------------------------
LEMMA DevicesInit == Init => DevicesInv
  BY BoundsAssumption
     DEF Init, DevicesInv, LinksDisjoint, NewDevicesPrivate, ListsOwned, OnlyDrawnDevices, Ids

\* What a step does to devices, unless it is one of the five that handle them:
\* a handler keeps its list or drops it, and takes no list up.
KeepsDevices ==
    /\ UNCHANGED deviceVars
    /\ \A x \in Threads :
         /\ devs'[x] \in {{}, devs[x]}
         /\ pc'[x] \in {"vLink", "devDel"} => pc'[x] = pc[x] /\ uid'[x] = uid[x]

LEMMA KeepsDevicesInv == DevicesInv /\ KeepsDevices => DevicesInv'
<1> SUFFICES ASSUME DevicesInv, KeepsDevices PROVE DevicesInv'
  OBVIOUS
<1>1. LinksDisjoint'
  BY DEF DevicesInv, LinksDisjoint, KeepsDevices, deviceVars
<1>2. NewDevicesPrivate'
  BY DEF DevicesInv, NewDevicesPrivate, KeepsDevices, deviceVars
<1>3. ListsOwned'
  BY DEF DevicesInv, ListsOwned, KeepsDevices, deviceVars
<1>4. OnlyDrawnDevices'
  BY DEF DevicesInv, OnlyDrawnDevices, KeepsDevices, deviceVars
<1> QED
  BY <1>1, <1>2, <1>3, <1>4 DEF DevicesInv

HandlesDevices(t) ==
    \/ CreateDevice(t) \/ LinkDevice(t) \/ ReadDevices(t) \/ DeleteRelation(t)
    \/ \E d \in 1..MaxDevices : DeleteDevice(t, d)

LEMMA KeepsDevicesStep ==
  ASSUME IInv, NEW t \in Threads, Request(t) \/ Step(t) \/ Abort(t)
  PROVE  KeepsDevices \/ HandlesDevices(t)
<1>1. /\ pc \in [Threads -> Labels] /\ uid \in [Threads -> Ids]
      /\ devs \in [Threads -> SUBSET (1..MaxDevices)]
  BY DEF IInv, TypeInv, HandlersOK, LocalsOK
<1> USE <1>1 DEF KeepsDevices, deviceVars
<1>2. CASE Request(t)
  <2>1. UNCHANGED deviceVars
    BY <1>2 DEF Request, Register, Login, ChangePassword, RemoveUser, AddDIYDevice,
                AddSensorDevice, AdminDelete
  <2>2. ASSUME NEW o, NEW u, NEW e, NEW p, NEW label \in Labels \ {"vLink", "devDel"},
               Start(t, o, label, u, e, p)
        PROVE  KeepsDevices
    BY <2>1, <2>2 DEF Start
  <2>3. ASSUME NEW e \in Emails, NEW p \in Passwords, Register(t, e, p)
        PROVE  \/ Start(t, "register", "incr", 0, e, p)
               \/ Start(t, "register", "exists", byEmail[e], e, p)
    BY <2>3 DEF Register
  <2> HIDE DEF KeepsDevices
  <2> QED
    BY <1>2, <2>2, <2>3
       DEF Request, Login, ChangePassword, RemoveUser, AddDIYDevice, AddSensorDevice,
           AdminDelete, Labels, CreateSteps
<1>3. CASE \E label \in Labels \ {"vLink", "devDel"} : Goto(t, label) /\ UNCHANGED deviceVars
  BY <1>3 DEF Goto, locals
<1>4. CASE Finish(t) /\ UNCHANGED deviceVars
  BY <1>4 DEF Finish
<1> USE DEF Labels, CreateSteps
<1>5. CASE RegisterStep(t)
  <2>1. CASE NewUserId(t) \/ RegisterRead(t)
    BY <2>1 DEF NewUserId, RegisterRead, GotoReadId
  <2>2. CASE ~(NewUserId(t) \/ RegisterRead(t))
    BY <1>3, <1>4, <1>5, <2>2 
       DEF RegisterStep, RegisterExists, SaveUser, SaveApikey, PublishApikey, PublishEmail, ListUser, SaveApikeyOwner, RegisterInfo
  <2> QED
    BY <2>1, <2>2
<1>6. CASE SignInStep(t)
  BY <1>3, <1>4, <1>6 DEF SignInStep, LoginExists, LoginRead, OpenSession, GotoReadId
<1>7. CASE PasswordStep(t)
  BY <1>3, <1>4, <1>7 DEF PasswordStep, PasswordExists, PasswordRead, PasswordWrite,
                          GotoReadName
<1>8. CASE RemoveStep(t)
  <2>1. CASE AdminNullDeref(t)
    BY <2>1 DEF AdminNullDeref
  <2>2. CASE AdminRead(t) \/ RemoveReadName(t) \/ RemoveReadApikey(t)
    BY <2>2 DEF AdminRead, RemoveReadName, RemoveReadApikey, GotoReadId, GotoReadName
  <2>3. CASE \/ RemoveUserExists(t) \/ AdminExists(t) \/ RemoveExists(t) \/ DeleteHash(t)
             \/ UnlistUser(t) \/ ForgetApikey(t) \/ ForgetEmail(t) \/ DeleteSessions(t)
    BY <1>3, <1>4, <2>3
       DEF RemoveUserExists, AdminExists, RemoveExists, DeleteHash, UnlistUser, ForgetApikey, ForgetEmail, DeleteSessions, AfterRemove
  <2> QED
    BY <1>8, <2>1, <2>2, <2>3 DEF RemoveStep, HandlesDevices
<1>9. CASE DeviceStep(t)
  BY <1>9 DEF DeviceStep, HandlesDevices
<1>10. CASE Abort(t)
  BY <1>4, <1>10 DEF Abort
<1> QED
  BY <1>2, <1>5, <1>6, <1>7, <1>8, <1>9, <1>10 DEF Step

LEMMA HandlesDevicesInv ==
  ASSUME IInv, DevicesInv, NEW t \in Threads, HandlesDevices(t)
  PROVE  DevicesInv'
<1>1. /\ pc \in [Threads -> Labels] /\ uid \in [Threads -> Ids]
      /\ devs \in [Threads -> SUBSET (1..MaxDevices)]
      /\ userDevices \in [Ids -> SUBSET (1..MaxDevices)]
      /\ nextDev \in Nat
  BY BoundsAssumption DEF IInv, TypeInv, StoreOK, HandlersOK, LocalsOK
<1> USE <1>1 DEF DevicesInv, LinksDisjoint, NewDevicesPrivate, ListsOwned,
                 OnlyDrawnDevices
<1>2. CASE CreateDevice(t)
  BY <1>2 DEF CreateDevice
<1>3. CASE LinkDevice(t)
  <2>1. At(t, "vLink") /\ userDevices' = [userDevices EXCEPT ![uid[t]] = @ \cup devs[t]] /\ nextDev' = nextDev
    BY <1>3 DEF LinkDevice
  <2>2. devs' = [devs EXCEPT ![t] = {}] /\ pc' = [pc EXCEPT ![t] = "idle"] /\ uid' = [uid EXCEPT ![t] = 0]
    BY <1>3 DEF LinkDevice, Finish
  <2>3. LinksDisjoint'
    BY <2>1 DEF At
  <2>4. NewDevicesPrivate'
    BY <2>1, <2>2 DEF At
  <2>5. ListsOwned'
    BY <2>1, <2>2 DEF At
  <2>6. OnlyDrawnDevices'
    BY <2>1, <2>2 DEF At
  <2> QED
    BY <2>3, <2>4, <2>5, <2>6
<1>4. CASE ReadDevices(t)
  <2>1. UNCHANGED deviceVars
    BY <1>4 DEF ReadDevices
  <2>2. CASE userDevices[uid[t]] = {}
    BY <1>4, <2>1, <2>2, KeepsDevicesInv DEF ReadDevices, Finish, KeepsDevices
  <2>3. CASE userDevices[uid[t]] # {}
    BY <1>4, <2>1, <2>3 DEF ReadDevices, deviceVars
  <2> QED
    BY <2>2, <2>3
<1>5. ASSUME NEW d \in 1..MaxDevices, DeleteDevice(t, d)
      PROVE  DevicesInv'
  BY <1>5 DEF DeleteDevice, At
<1>6. CASE DeleteRelation(t)
  BY <1>6 DEF DeleteRelation, Finish
<1> QED
  BY <1>2, <1>3, <1>4, <1>5, <1>6 DEF HandlesDevices

LEMMA DevicesStep == IInv /\ DevicesInv /\ [Next]_vars => DevicesInv'
<1> SUFFICES ASSUME IInv, DevicesInv, [Next]_vars PROVE DevicesInv'
  OBVIOUS
<1>1. CASE Next
  BY <1>1, KeepsDevicesStep, KeepsDevicesInv, HandlesDevicesInv DEF Next
<1>2. CASE UNCHANGED vars
  BY <1>2
     DEF vars, deviceVars, locals, DevicesInv, LinksDisjoint, NewDevicesPrivate, ListsOwned,
         OnlyDrawnDevices
<1> QED
  BY <1>1, <1>2

\* A removal takes away no device of an account that is still there, however old
\* the list it works on.
THEOREM DevicesSafe == Spec => DevicesDeletedAfterAccount
<1>1. ASSUME IInv, DevicesInv, [Next]_vars, NEW u \in Ids,
             NEW d \in userDevices[u] \cap (devices \ devices')
      PROVE  u \in deleted
  <2>1. PICK t \in Threads : Request(t) \/ Step(t) \/ Abort(t)
    BY <1>1 DEF Next, vars, deviceVars
  <2>2. HandlesDevices(t)
    BY <1>1, <2>1, KeepsDevicesStep DEF KeepsDevices, deviceVars
  <2>3. DeleteDevice(t, d)
    BY <1>1, <2>2
       DEF HandlesDevices, CreateDevice, LinkDevice, ReadDevices, DeleteRelation,
           DeleteDevice, deviceVars
  <2>4. u = uid[t]
    BY <1>1, <2>3 DEF DeleteDevice, At, DevicesInv, ListsOwned
  <2> QED
    BY <1>1, <2>3, <2>4 DEF DeleteDevice, At, IInv, RemovalProgress
<1>2. IInv /\ DevicesInv /\ [Next]_vars =>
        [\A u \in Ids : \A d \in userDevices[u] \cap (devices \ devices') : u \in deleted]_vars
  BY <1>1
<1>3. Spec => []DevicesInv
  BY DevicesInit, DevicesStep, InvAlways, PTL DEF Spec
<1> QED
  BY <1>2, <1>3, InvAlways, PTL DEF Spec, DevicesDeletedAfterAccount
=============================================================================
