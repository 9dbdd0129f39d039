--------------------- MODULE ZUserAccountsRefinement ---------------------
(***************************************************************************)
(* The account handlers implement AccountDirectory when requests about one *)
(* account do not overlap, for any threads, addresses, passwords, ids and  *)
(* sessions: one command of a handler is the request's effect, and what    *)
(* the others write is not seen through users:lookup:email.                *)
(***************************************************************************)
EXTENDS ZUserAccountsSerial, ZUserAccountsProofs

-----------------------------------------------------------------------------
(* The inductive invariant: one handler at most is about an address, and    *)
(* where it is tells what is stored of the address's accounts.              *)

\* users:lookup:email leads to no profile.
Unknown(e) == byEmail[e] # Nil => name[byEmail[e]] = Nil

\* create() before users:lookup:email is written.
Early == {"save", "key", "byKey", "byMail"}

\* Where the profile a handler works on is there.
Seen == {"key", "byKey", "byMail", "read", "open", "lRead", "cRead", "cWrite", "aRead", "rLen",
         "rName", "rKey", "del"}

\* Where a handler knows the address.
Named == {"exists", "incr", "set", "own", "info", "read", "open", "lLen", "lRead", "cWrite",
          "rKey", "del", "srem", "hdelKey", "hdelMail"} \cup Early

\* What a handler about e is sure of.
Fits(t, e) ==
    /\ pc[t] # "idle" /\ mail[t] \in {Nil, e}
    /\ pc[t] \in Named => mail[t] = e
    /\ pc[t] # "incr" => uid[t] \in UserIds /\ owner[uid[t]] = e
    /\ pc[t] \in {"exists", "incr", "save", "cLen", "cRead", "cWrite"} => pw[t] \in Passwords
    /\ pc[t] \in {"cLen", "cRead", "cWrite"} => sessions[uid[t]] # {}
    /\ pc[t] \in Seen => name[uid[t]] = e
    /\ pc[t] = "exists" => byEmail[e] = uid[t]
    /\ pc[t] \in Early \cup {"incr"} => Unknown(e)
    /\ pc[t] \in Early => sessions[uid[t]] = {}

HandlersFit ==
    \A t \in Threads : pc[t] # "idle" => \E e \in Emails : Fits(t, e)

\* An id has an address from when it is drawn; sessions are drawn, and of such an id.
Drawn ==
    /\ \A u \in Ids : owner[u] # Nil <=> u # 0 /\ u <= nextId
    /\ \A u \in Ids : sessions[u] \subseteq 1..nextSid
    /\ sessions[0] = {}

\* A profile is that of the id's address, with a password, and never comes back.
Whole ==
    \A u \in Ids :
        /\ name[u] \in {Nil, owner[u]}
        /\ name[u] # Nil => pass[u] \in Passwords
        /\ apikey[u] # Nil => name[u] # Nil
        /\ u \in deleted => name[u] = Nil

SerialInv == IInv /\ Drawn /\ Whole /\ NoOverlap /\ HandlersFit
-----------------------------------------------------------------------------
(* What a step about one address leaves of the others.                     *)

accountVars == <<name, pass, apikey, byEmail, sessions, owner, deleted>>

\* What belongs to address f, and the handler x, are as they were.
Untouched(f) ==
    /\ byEmail'[f] = byEmail[f]
    /\ \A u \in Ids : owner'[u] = f <=> owner[u] = f
    /\ \A u \in Ids :
         owner[u] = f =>
           name'[u] = name[u] /\ pass'[u] = pass[u] /\ sessions'[u] = sessions[u]

Still(x) == pc'[x] = pc[x] /\ uid'[x] = uid[x] /\ mail'[x] = mail[x] /\ pw'[x] = pw[x]

\* The others go on as they were, or died with the process.
OthersStill(t) == \A x \in Threads \ {t} : Still(x) \/ pc'[x] = "idle"

LEMMA UntouchedFits ==
  ASSUME IInv, NEW f \in Emails, NEW x \in Threads, Untouched(f), Still(x), Fits(x, f)
  PROVE  Fits(x, f)'
<1>1. byEmail[f] # Nil => byEmail[f] \in Ids /\ owner[byEmail[f]] = f
  BY DEF IInv, LookupsLead, TypeInv, StoreOK, UserIds, Ids
<1>2. Unknown(f)' <=> Unknown(f)
  BY <1>1 DEF Untouched, Unknown
<1>3. CASE pc[x] = "incr"
  BY <1>2, <1>3 DEF Fits, Still, Early, Seen, Named, Untouched
<1>4. CASE pc[x] # "incr"
  <2>1. /\ uid[x] \in UserIds /\ uid[x] \in Ids /\ owner[uid[x]] = f /\ owner'[uid[x]] = f
        /\ name'[uid[x]] = name[uid[x]] /\ sessions'[uid[x]] = sessions[uid[x]]
    BY <1>4 DEF Fits, Untouched, UserIds, Ids
  <2> QED
    BY <1>2, <1>4, <2>1 DEF Fits, Still, Untouched
<1> QED
  BY <1>3, <1>4

\* A handler that fits an address is about it.
LEMMA FitsAbout ==
  ASSUME NEW e \in Emails, NEW t \in Threads, Fits(t, e)
  PROVE  About(t) = e
  BY NilAssumption DEF Fits, About, At, Named
-----------------------------------------------------------------------------
(* A step of a handler about e: it fits e afterwards, or has ended, and what *)
(* belongs to other addresses is untouched.                                *)

After(t, e) == pc'[t] = "idle" \/ Fits(t, e)'

\* Commands that read, or write what AccountDirectory does not speak of, and
\* the end of a handler that dies.
Looks(t) ==
    \/ RegisterExists(t) \/ ListUser(t) \/ SaveApikeyOwner(t) \/ RegisterInfo(t)
    \/ RegisterRead(t) \/ LoginExists(t) \/ LoginRead(t)
    \/ PasswordExists(t) \/ (\E old \in Passwords : PasswordRead(t, old))
    \/ RemoveUserExists(t) \/ AdminExists(t) \/ AdminNullDeref(t) \/ AdminRead(t)
    \/ RemoveExists(t) \/ RemoveReadName(t) \/ RemoveReadApikey(t) \/ UnlistUser(t)
    \/ ForgetApikey(t) \/ ReadDevices(t) \/ DeleteRelation(t)
    \/ (\E d \in 1..MaxDevices : DeleteDevice(t, d))
    \/ CreateDevice(t) \/ LinkDevice(t) \/ Abort(t)

\* The commands of create() up to users:lookup:email.
Creates(t) ==
    NewUserId(t) \/ SaveUser(t) \/ SaveApikey(t) \/ PublishApikey(t) \/ PublishEmail(t)

\* The other commands that write what AccountDirectory speaks of.
Changes(t) ==
    OpenSession(t) \/ PasswordWrite(t) \/ DeleteHash(t) \/ ForgetEmail(t) \/ DeleteSessions(t)

LEMMA StepKinds ==
  ASSUME NEW t \in Threads, Step(t) \/ Abort(t)
  PROVE  Looks(t) \/ Creates(t) \/ Changes(t)
  BY DEF Step, RegisterStep, SignInStep, PasswordStep, RemoveStep, DeviceStep, Looks, Creates,
         Changes

LEMMA HandlerBusy ==
  ASSUME NEW t \in Threads, Step(t) \/ Abort(t)
  PROVE  pc[t] # "idle"
<1>1. CASE RegisterStep(t)
  BY <1>1 DEF RegisterStep, RegisterExists, NewUserId, SaveUser, SaveApikey, PublishApikey,
              PublishEmail, ListUser, SaveApikeyOwner, RegisterInfo, RegisterRead, At
<1>2. CASE SignInStep(t) \/ PasswordStep(t) \/ DeviceStep(t) \/ Abort(t)
  BY <1>2 DEF SignInStep, LoginExists, LoginRead, OpenSession, PasswordStep, PasswordExists,
              PasswordRead, PasswordWrite, DeviceStep, CreateDevice, LinkDevice, Abort, At
<1>3. CASE RemoveStep(t)
  BY <1>3 DEF RemoveStep, RemoveUserExists, AdminExists, AdminNullDeref, AdminRead,
              RemoveExists, RemoveReadName, RemoveReadApikey, DeleteHash, UnlistUser,
              ForgetApikey, ForgetEmail, DeleteSessions, ReadDevices, DeleteRelation,
              DeleteDevice, At
<1> QED
  BY <1>1, <1>2, <1>3 DEF Step

LEMMA LooksLeaves ==
  ASSUME IInv, NEW t \in Threads, Looks(t)
  PROVE  UNCHANGED <<nextId, nextSid, accountVars>> /\ OthersStill(t)
<1> DEFINE Leaves == UNCHANGED <<nextId, nextSid, accountVars>> /\ OthersStill(t)
<1> USE DEF accountVars, OthersStill, Still, IInv, TypeInv, HandlersOK, LocalsOK,
            Goto, Finish, locals, hashVars, indexVars, sessionVars, historyVars
<1>1. CASE RegisterExists(t)
  BY <1>1 DEF RegisterExists
<1>2. CASE ListUser(t)
  BY <1>2 DEF ListUser
<1>3. CASE SaveApikeyOwner(t)
  BY <1>3 DEF SaveApikeyOwner
<1>4. CASE RegisterInfo(t)
  BY <1>4 DEF RegisterInfo
<1>5. CASE RegisterRead(t)
  BY <1>5 DEF RegisterRead, GotoReadId
<1>6. CASE LoginExists(t)
  BY <1>6 DEF LoginExists
<1>7. CASE LoginRead(t)
  BY <1>7 DEF LoginRead, GotoReadId
<1>8. CASE PasswordExists(t)
  BY <1>8 DEF PasswordExists
<1>9. ASSUME NEW old \in Passwords, PasswordRead(t, old)
      PROVE  Leaves
  BY <1>9 DEF PasswordRead, GotoReadName
<1>10. CASE RemoveUserExists(t)
  BY <1>10 DEF RemoveUserExists
<1>11. CASE AdminExists(t)
  BY <1>11 DEF AdminExists
<1>12. CASE AdminNullDeref(t)
  BY <1>12 DEF AdminNullDeref
<1>13. CASE AdminRead(t)
  BY <1>13 DEF AdminRead, GotoReadId
<1>14. CASE RemoveExists(t)
  BY <1>14 DEF RemoveExists, AfterRemove
<1>15. CASE RemoveReadName(t)
  BY <1>15 DEF RemoveReadName, GotoReadName
<1>16. CASE RemoveReadApikey(t)
  BY <1>16 DEF RemoveReadApikey
<1>17. CASE UnlistUser(t)
  BY <1>17 DEF UnlistUser
<1>18. CASE ForgetApikey(t)
  BY <1>18 DEF ForgetApikey
<1>19. CASE ReadDevices(t)
  BY <1>19 DEF ReadDevices
<1>20. CASE DeleteRelation(t)
  BY <1>20 DEF DeleteRelation
<1>21. ASSUME NEW d \in 1..MaxDevices, DeleteDevice(t, d)
       PROVE  Leaves
  BY <1>21 DEF DeleteDevice
<1>22. CASE CreateDevice(t)
  BY <1>22 DEF CreateDevice
<1>23. CASE LinkDevice(t)
  BY <1>23 DEF LinkDevice
<1>24. CASE Abort(t)
  BY <1>24 DEF Abort
<1> HIDE DEF Leaves
<1>25. Leaves
  BY <1>1, <1>2, <1>3, <1>4, <1>5, <1>6, <1>7, <1>8, <1>9, <1>10, <1>11, <1>12, <1>13,
     <1>14, <1>15, <1>16, <1>17, <1>18, <1>19, <1>20, <1>21, <1>22, <1>23, <1>24
     DEF Looks, Leaves
<1> QED
  BY <1>25 DEF Leaves

LEMMA LooksAfter ==
  ASSUME IInv, Whole, NEW t \in Threads, NEW e \in Emails, Fits(t, e), Looks(t)
  PROVE  After(t, e)
<1>1. UNCHANGED accountVars
  BY LooksLeaves
<1>2. Unknown(e)' <=> Unknown(e)
  BY <1>1 DEF accountVars, Unknown
<1>3. e # Nil /\ Nil \notin UserIds
  BY NilAssumption DEF UserIds
<1>4. LocalsOK
  BY DEF IInv, TypeInv, HandlersOK
\* HLEN answers that there is a profile just when there is one of e.
<1>5. ASSUME pc[t] # "incr"
      PROVE  /\ uid[t] \in UserIds /\ owner[uid[t]] = e
             /\ Exists(uid[t]) <=> name[uid[t]] = e
             /\ Exists(uid[t]) \/ name[uid[t]] = Nil
             /\ pass[uid[t]] \in Passwords \/ pass[uid[t]] = Nil
  <2>1. uid[t] \in UserIds /\ uid[t] \in Ids /\ owner[uid[t]] = e
    BY <1>5 DEF Fits, UserIds, Ids
  <2>2. pass[uid[t]] \in Passwords \cup {Nil}
    BY <2>1 DEF IInv, TypeInv, StoreOK
  <2> QED
    BY <1>3, <2>1, <2>2 DEF Whole, Exists
<1> USE <1>1, <1>2, <1>3, <1>4, <1>5
    DEF After, Fits, Early, Seen, Named, accountVars, At, Goto, Finish, locals, LocalsOK
<1>11. CASE RegisterExists(t)
  BY <1>11 DEF RegisterExists, Unknown
<1>12. CASE ListUser(t)
  BY <1>12 DEF ListUser
<1>13. CASE SaveApikeyOwner(t)
  BY <1>13 DEF SaveApikeyOwner
<1>14. CASE RegisterInfo(t)
  BY <1>14 DEF RegisterInfo
<1>15. CASE RegisterRead(t)
  BY <1>15 DEF RegisterRead, GotoReadId
<1>16. CASE LoginExists(t)
  BY <1>16 DEF LoginExists
<1>17. CASE LoginRead(t)
  BY <1>17 DEF LoginRead, GotoReadId
<1>18. CASE PasswordExists(t)
  BY <1>18 DEF PasswordExists
<1>19. ASSUME NEW old \in Passwords, PasswordRead(t, old)
       PROVE  After(t, e)
  BY <1>19 DEF PasswordRead, GotoReadName
<1>20. CASE RemoveUserExists(t)
  BY <1>20 DEF RemoveUserExists
<1>21. CASE AdminExists(t)
  BY <1>21 DEF AdminExists
<1>22. CASE AdminNullDeref(t)
  BY <1>22 DEF AdminNullDeref
<1>23. CASE AdminRead(t)
  BY <1>23 DEF AdminRead, GotoReadId
<1>24. CASE RemoveExists(t)
  BY <1>24 DEF RemoveExists
<1>25. CASE RemoveReadName(t)
  BY <1>25 DEF RemoveReadName, GotoReadName
<1>26. CASE RemoveReadApikey(t)
  BY <1>26 DEF RemoveReadApikey
<1>27. CASE UnlistUser(t)
  BY <1>27 DEF UnlistUser
<1>28. CASE ForgetApikey(t)
  BY <1>28 DEF ForgetApikey
<1>29. CASE ReadDevices(t)
  BY <1>29 DEF ReadDevices
<1>30. CASE DeleteRelation(t)
  BY <1>30 DEF DeleteRelation
<1>31. ASSUME NEW d \in 1..MaxDevices, DeleteDevice(t, d)
       PROVE  After(t, e)
  BY <1>31 DEF DeleteDevice
<1>32. CASE CreateDevice(t)
  BY <1>32 DEF CreateDevice
<1>33. CASE LinkDevice(t)
  BY <1>33 DEF LinkDevice
<1>34. CASE Abort(t)
  BY <1>34 DEF Abort
<1> HIDE DEF After, Fits
<1> QED
  BY <1>11, <1>12, <1>13, <1>14, <1>15, <1>16, <1>17, <1>18, <1>19, <1>20, <1>21, <1>22,
     <1>23, <1>24, <1>25, <1>26, <1>27, <1>28, <1>29, <1>30, <1>31, <1>32, <1>33, <1>34
     DEF Looks

LEMMA CreatesAfter ==
  ASSUME IInv, Drawn, NEW t \in Threads, NEW e \in Emails, Fits(t, e), Creates(t)
  PROVE  Fits(t, e)'
<1>1. e # Nil /\ Nil \notin UserIds
  BY NilAssumption DEF UserIds
<1>2. LocalsOK /\ StoreOK
  BY DEF IInv, TypeInv, HandlersOK
<1>3. ASSUME pc[t] # "incr"
      PROVE  uid[t] \in UserIds /\ uid[t] \in Ids /\ owner[uid[t]] = e
  BY <1>3 DEF Fits, UserIds, Ids
<1> USE <1>1, <1>2
    DEF Fits, Early, Seen, Named, Unknown, At, Goto, locals, LocalsOK, StoreOK,
        hashVars, indexVars, sessionVars, historyVars
<1>4. CASE NewUserId(t)
  <2> DEFINE n == nextId + 1
  <2>1. n \in UserIds /\ n \in Ids /\ n > nextId
    BY <1>4, BoundsAssumption DEF NewUserId, UserIds, Ids
  <2>2. sessions[n] = {}
    BY <2>1 DEF IInv, OnlyDrawnIds
  <2>3. /\ uid'[t] = n /\ pc'[t] = "save" /\ mail'[t] = e /\ pw'[t] \in Passwords
        /\ owner'[n] = e /\ UNCHANGED <<name, byEmail, sessions>>
    BY <1>4, <2>1 DEF NewUserId
  <2>4. Unknown(e)
    BY <1>4 DEF NewUserId
  <2> HIDE DEF n
  <2> QED
    BY <2>1, <2>2, <2>3, <2>4
\* The id being created is in no lookup until its apikey is.
<1>5. CASE SaveUser(t)
  <2>1. byEmail[e] # uid[t]
    BY <1>5 DEF SaveUser, IInv, PrivateUntilKeyed
  <2> QED
    BY <1>3, <1>5, <2>1 DEF SaveUser
<1>6. CASE SaveApikey(t)
  BY <1>3, <1>6 DEF SaveApikey
<1>7. CASE PublishApikey(t)
  BY <1>3, <1>7 DEF PublishApikey
<1>8. CASE PublishEmail(t)
  BY <1>3, <1>8 DEF PublishEmail
<1> QED
  BY <1>4, <1>5, <1>6, <1>7, <1>8 DEF Creates

LEMMA ChangesAfter ==
  ASSUME IInv, NEW t \in Threads, NEW e \in Emails, Fits(t, e), Changes(t)
  PROVE  After(t, e)
<1>1. LocalsOK /\ StoreOK
  BY DEF IInv, TypeInv, HandlersOK
<1> USE <1>1
    DEF After, Fits, Early, Seen, Named, At, Goto, Finish, locals, LocalsOK, StoreOK,
        hashVars, indexVars, sessionVars, historyVars
<1>2. CASE OpenSession(t)
  BY <1>2 DEF OpenSession
<1>3. CASE PasswordWrite(t)
  BY <1>3 DEF PasswordWrite
<1>4. CASE DeleteHash(t)
  BY <1>4 DEF DeleteHash
<1>5. CASE ForgetEmail(t)
  <2>1. Goto(t, "delSess") \/ Finish(t)
    BY <1>5 DEF ForgetEmail, AfterRemove
  <2> QED
    BY <1>5, <2>1 DEF ForgetEmail
<1>6. CASE DeleteSessions(t)
  BY <1>6 DEF DeleteSessions
<1> QED
  BY <1>2, <1>3, <1>4, <1>5, <1>6 DEF Changes

LEMMA WritersFootprint ==
  ASSUME IInv, Drawn, NEW t \in Threads, NEW e \in Emails, Fits(t, e),
         Creates(t) \/ Changes(t)
  PROVE  OthersStill(t) /\ \A f \in Emails \ {e} : Untouched(f)
<1>1. e # Nil /\ Nil \notin Emails
  BY NilAssumption
<1>2. LocalsOK /\ StoreOK
  BY DEF IInv, TypeInv, HandlersOK
<1>3. ASSUME pc[t] # "incr"
      PROVE  uid[t] \in Ids /\ owner[uid[t]] = e
  BY <1>3 DEF Fits, UserIds, Ids
<1> USE <1>1, <1>2
    DEF At, Goto, Finish, locals, LocalsOK, StoreOK, Untouched, OthersStill, Still,
        hashVars, indexVars, sessionVars, historyVars, UserIds, Ids
<1>4. CASE NewUserId(t)
  <2>1. mail[t] = e
    BY <1>4 DEF NewUserId, Fits, Named
  <2>2. owner[nextId + 1] = Nil /\ nextId + 1 \in Ids
    BY <1>4, BoundsAssumption DEF NewUserId, Drawn
  <2>3. \A u \in Ids : \A f \in Emails \ {e} : owner'[u] = f <=> owner[u] = f
    BY <1>4, <2>1, <2>2 DEF NewUserId
  <2> QED
    BY <1>4, <2>3 DEF NewUserId
<1>5. CASE SaveUser(t)
  BY <1>3, <1>5 DEF SaveUser
<1>6. CASE SaveApikey(t)
  BY <1>3, <1>6 DEF SaveApikey
<1>7. CASE PublishApikey(t)
  BY <1>3, <1>7 DEF PublishApikey
<1>8. CASE PublishEmail(t)
  BY <1>3, <1>8 DEF PublishEmail, Fits, Named, Early
<1>9. CASE OpenSession(t)
  BY <1>3, <1>9 DEF OpenSession
<1>10. CASE PasswordWrite(t)
  BY <1>3, <1>10 DEF PasswordWrite
<1>11. CASE DeleteHash(t)
  BY <1>3, <1>11 DEF DeleteHash
<1>12. CASE ForgetEmail(t)
  <2>1. mail[t] = e
    BY <1>12 DEF ForgetEmail, Fits, Named
  <2>2. Goto(t, "delSess") \/ Finish(t)
    BY <1>12 DEF ForgetEmail, AfterRemove
  <2> QED
    BY <1>12, <2>1, <2>2 DEF ForgetEmail
<1>13. CASE DeleteSessions(t)
  BY <1>3, <1>13 DEF DeleteSessions
<1> QED
  BY <1>4, <1>5, <1>6, <1>7, <1>8, <1>9, <1>10, <1>11, <1>12, <1>13 DEF Creates, Changes

LEMMA FitsStep ==
  ASSUME IInv, Drawn, Whole, NEW t \in Threads, NEW e \in Emails, Fits(t, e),
         Step(t) \/ Abort(t)
  PROVE  /\ After(t, e) /\ OthersStill(t)
         /\ \A f \in Emails \ {e} : Untouched(f)
<1>1. CASE Looks(t)
  BY <1>1, LooksAfter, LooksLeaves DEF accountVars, Untouched
<1>2. CASE Creates(t)
  BY <1>2, CreatesAfter, WritersFootprint DEF After
<1>3. CASE Changes(t)
  BY <1>3, ChangesAfter, WritersFootprint
<1> QED
  BY <1>1, <1>2, <1>3, StepKinds
-----------------------------------------------------------------------------
(* A request.                                                              *)

LEMMA RequestLeaves ==
  ASSUME IInv, NEW t \in Threads, Request(t)
  PROVE  /\ UNCHANGED <<nextId, nextSid, accountVars>>
         /\ \A x \in Threads \ {t} : Still(x)
<1> DEFINE Leaves == /\ UNCHANGED <<nextId, nextSid, accountVars>>
                     /\ \A x \in Threads \ {t} : Still(x)
<1> USE DEF IInv, TypeInv, HandlersOK, LocalsOK, Start, At, Still, accountVars,
            hashVars, indexVars, sessionVars, historyVars
<1>1. ASSUME NEW e \in Emails, NEW p \in Passwords, Register(t, e, p) \/ Login(t, e, p)
      PROVE  Leaves
  BY <1>1 DEF Register, Login
<1>2. ASSUME NEW u \in Ids, NEW p \in Passwords, ChangePassword(t, u, p)
      PROVE  Leaves
  BY <1>2 DEF ChangePassword
<1>3. ASSUME NEW u \in Ids, RemoveUser(t, u) \/ AddDIYDevice(t, u) \/ AddSensorDevice(t, u)
      PROVE  Leaves
  BY <1>3 DEF RemoveUser, AddDIYDevice, AddSensorDevice
<1>4. ASSUME NEW k \in UserIds, AdminDelete(t, k)
      PROVE  Leaves
  BY <1>4 DEF AdminDelete
<1> HIDE DEF Leaves
<1>5. Leaves
  BY <1>1, <1>2, <1>3, <1>4 DEF Request
<1> QED
  BY <1>5 DEF Leaves

LEMMA RequestFits ==
  ASSUME IInv, Drawn, NEW t \in Threads, Request(t)
  PROVE  \E e \in Emails : Fits(t, e)'
<1>1. Nil \notin Emails /\ Nil \notin UserIds /\ 0 \notin UserIds /\ UserIds \subseteq Ids
  BY NilAssumption DEF UserIds, Ids
<1>2. LocalsOK /\ StoreOK
  BY DEF IInv, TypeInv, HandlersOK
<1>3. \A u \in UserIds : u <= nextId => owner[u] \in Emails
  BY <1>1, <1>2 DEF Drawn, StoreOK, UserIds
<1> USE <1>1, <1>2
    DEF Start, At, LocalsOK, StoreOK, hashVars, indexVars, sessionVars, historyVars,
        Fits, Named, Seen, Early, Unknown
<1>4. ASSUME NEW e \in Emails, NEW p \in Passwords, Register(t, e, p) \/ Login(t, e, p)
      PROVE  Fits(t, e)'
  <2>1. byEmail[e] # Nil => byEmail[e] \in UserIds /\ owner[byEmail[e]] = e
    BY DEF IInv, LookupsLead
  <2>2. CASE Register(t, e, p) /\ byEmail[e] = Nil
    BY <2>2 DEF Register
  <2>3. CASE Register(t, e, p) /\ byEmail[e] # Nil
    BY <2>1, <2>3 DEF Register
  <2>4. CASE Login(t, e, p)
    BY <2>1, <2>4 DEF Login
  <2> QED
    BY <1>4, <2>2, <2>3, <2>4
\* A session or an apikey is that of an id handed out.
<1>5. ASSUME NEW u \in Ids, sessions[u] # {} \/ u \in apikeyOwner
      PROVE  u \in UserIds /\ owner[u] \in Emails
  <2>1. u <= nextId
    BY <1>5 DEF IInv, OnlyDrawnIds, Ids
  <2>2. u # 0
    BY <1>5 DEF Drawn
  <2> QED
    BY <1>3, <2>1, <2>2 DEF UserIds, Ids
<1>6. ASSUME NEW u \in Ids, NEW p \in Passwords, ChangePassword(t, u, p)
      PROVE  \E e \in Emails : Fits(t, e)'
  <2>1. PICK e \in Emails : owner[u] = e
    BY <1>5, <1>6 DEF ChangePassword
  <2>2. Fits(t, e)'
    BY <1>5, <1>6, <2>1 DEF ChangePassword
  <2> QED
    BY <2>2
<1>7. ASSUME NEW u \in Ids, RemoveUser(t, u) \/ AddDIYDevice(t, u) \/ AddSensorDevice(t, u)
      PROVE  \E e \in Emails : Fits(t, e)'
  <2>1. PICK e \in Emails : owner[u] = e
    BY <1>5, <1>7 DEF RemoveUser, AddDIYDevice, AddSensorDevice
  <2>2. Fits(t, e)'
    BY <1>5, <1>7, <2>1 DEF RemoveUser, AddDIYDevice, AddSensorDevice
  <2> QED
    BY <2>2
<1>8. ASSUME NEW k \in UserIds, AdminDelete(t, k)
      PROVE  \E e \in Emails : Fits(t, e)'
  <2>1. byApikey[k] = k /\ owner[k] \in Emails
    BY <1>3, <1>8 DEF AdminDelete, IInv, LookupsLead
  <2>2. PICK e \in Emails : owner[k] = e
    BY <2>1
  <2>3. Fits(t, e)'
    BY <1>8, <2>1, <2>2 DEF AdminDelete
  <2> QED
    BY <2>3
<1> HIDE DEF Fits
<1> QED
  BY <1>4, <1>6, <1>7, <1>8 DEF Request
-----------------------------------------------------------------------------
(* The invariant is inductive.                                             *)

LEMMA SerialInit == Init => SerialInv
<1> SUFFICES ASSUME Init PROVE SerialInv
  OBVIOUS
<1>1. NoOverlap /\ HandlersFit
  BY DEF Init, NoOverlap, HandlersFit, About, At
<1>2. Drawn /\ Whole
  BY BoundsAssumption DEF Init, Drawn, Whole, Ids
<1> QED
  BY <1>1, <1>2, InvInit DEF SerialInv

LEMMA DrawnStep ==
  ASSUME IInv, Drawn, NEW t \in Threads, NEW e \in Emails, Fits(t, e), Step(t) \/ Abort(t)
  PROVE  Drawn'
<1>1. LocalsOK /\ StoreOK
  BY DEF IInv, TypeInv, HandlersOK
<1>2. pc[t] # "incr" => uid[t] \in UserIds
  BY DEF Fits
<1> USE <1>1, BoundsAssumption
    DEF StoreOK, LocalsOK, Drawn, UserIds, Ids, hashVars, indexVars, sessionVars, historyVars,
        At
<1>3. CASE NewUserId(t)
  <2>1. mail[t] = e /\ e # Nil
    BY <1>3, NilAssumption DEF NewUserId, Fits, Named
  <2> QED
    BY <1>3, <2>1 DEF NewUserId
<1>4. CASE OpenSession(t)
  BY <1>2, <1>4 DEF OpenSession
<1>5. CASE DeleteSessions(t)
  BY <1>2, <1>5 DEF DeleteSessions
<1>6. CASE \/ SaveUser(t) \/ SaveApikey(t) \/ PublishApikey(t) \/ PublishEmail(t)
           \/ PasswordWrite(t) \/ DeleteHash(t) \/ ForgetEmail(t)
  BY <1>6 DEF SaveUser, SaveApikey, PublishApikey, PublishEmail, PasswordWrite, DeleteHash,
              ForgetEmail
<1>7. CASE Looks(t)
  BY <1>7, LooksLeaves DEF accountVars
<1> QED
  BY <1>3, <1>4, <1>5, <1>6, <1>7, StepKinds DEF Creates, Changes

LEMMA WholeStep ==
  ASSUME IInv, Drawn, Whole, NEW t \in Threads, NEW e \in Emails, Fits(t, e),
         Step(t) \/ Abort(t)
  PROVE  Whole'
<1>1. LocalsOK /\ StoreOK
  BY DEF IInv, TypeInv, HandlersOK
<1>2. e # Nil
  BY NilAssumption
<1>3. pc[t] # "incr" => uid[t] \in UserIds /\ uid[t] \in Ids /\ owner[uid[t]] = e
  BY DEF Fits, UserIds, Ids
<1> USE <1>1, <1>2, <1>3
    DEF StoreOK, LocalsOK, Whole, hashVars, indexVars, sessionVars, historyVars, At
<1>4. CASE NewUserId(t)
  <2>1. nextId + 1 \in Ids /\ name[nextId + 1] = Nil
    BY <1>4, BoundsAssumption DEF NewUserId, IInv, OnlyDrawnIds, Ids
  <2> QED
    BY <1>4, <2>1 DEF NewUserId
<1>5. CASE SaveUser(t)
  <2>1. mail[t] = e /\ pw[t] \in Passwords /\ uid[t] \notin deleted
    BY <1>5 DEF SaveUser, Fits, Named, Early, IInv, PrivateUntilKeyed
  <2> QED
    BY <1>5, <2>1 DEF SaveUser
<1>6. CASE SaveApikey(t)
  <2>1. name[uid[t]] = e
    BY <1>6 DEF SaveApikey, Fits, Seen
  <2> QED
    BY <1>6, <2>1 DEF SaveApikey
<1>7. CASE PasswordWrite(t)
  <2>1. mail[t] = e /\ pw[t] \in Passwords /\ name[uid[t]] = e
    BY <1>7 DEF PasswordWrite, Fits, Named, Seen
  <2> QED
    BY <1>7, <2>1 DEF PasswordWrite
<1>8. CASE DeleteHash(t)
  BY <1>8 DEF DeleteHash
<1>9. CASE \/ PublishApikey(t) \/ PublishEmail(t) \/ OpenSession(t) \/ ForgetEmail(t)
           \/ DeleteSessions(t)
  BY <1>9 DEF PublishApikey, PublishEmail, OpenSession, ForgetEmail, DeleteSessions
<1>10. CASE Looks(t)
  BY <1>10, LooksLeaves DEF accountVars
<1> QED
  BY <1>4, <1>5, <1>6, <1>7, <1>8, <1>9, <1>10, StepKinds DEF Creates, Changes

LEMMA RequestStep ==
  ASSUME SerialInv, NEW t \in Threads, Request(t)
  PROVE  Drawn' /\ Whole' /\ HandlersFit'
<1>1. IInv /\ Drawn /\ Whole /\ HandlersFit
  BY DEF SerialInv
<1>2. /\ UNCHANGED <<nextId, nextSid, accountVars>>
      /\ \A x \in Threads \ {t} : Still(x)
  BY <1>1, RequestLeaves
<1>3. Drawn' /\ Whole'
  BY <1>1, <1>2 DEF accountVars, Drawn, Whole
<1>4. \A f \in Emails : Untouched(f)
  BY <1>2 DEF accountVars, Untouched
<1>5. ASSUME NEW x \in Threads, pc'[x] # "idle"
      PROVE  \E f \in Emails : Fits(x, f)'
  <2>1. CASE x = t
    BY <1>1, <2>1, RequestFits
  <2>2. CASE x # t
    <3>1. Still(x) /\ pc[x] # "idle"
      BY <1>2, <1>5, <2>2 DEF Still
    <3>2. PICK f \in Emails : Fits(x, f)
      BY <1>1, <3>1 DEF HandlersFit
    <3> QED
      BY <1>1, <1>4, <3>1, <3>2, UntouchedFits
  <2> QED
    BY <2>1, <2>2
<1> QED
  BY <1>3, <1>5 DEF HandlersFit

LEMMA HandlerStep ==
  ASSUME SerialInv, NEW t \in Threads, Step(t) \/ Abort(t)
  PROVE  Drawn' /\ Whole' /\ HandlersFit'
<1>1. IInv /\ Drawn /\ Whole /\ NoOverlap /\ HandlersFit
  BY DEF SerialInv
<1>2. PICK e \in Emails : Fits(t, e)
  BY <1>1, HandlerBusy DEF HandlersFit
<1>3. Drawn' /\ Whole'
  BY <1>1, <1>2, DrawnStep, WholeStep
<1>4. After(t, e) /\ OthersStill(t) /\ \A f \in Emails \ {e} : Untouched(f)
  BY <1>1, <1>2, FitsStep
<1>5. ASSUME NEW x \in Threads, pc'[x] # "idle"
      PROVE  \E f \in Emails : Fits(x, f)'
  <2>1. CASE x = t
    BY <1>2, <1>4, <1>5, <2>1 DEF After
  <2>2. CASE x # t
    <3>1. Still(x) /\ pc[x] # "idle"
      BY <1>4, <1>5, <2>2 DEF OthersStill, Still
    <3>2. PICK f \in Emails : Fits(x, f)
      BY <1>1, <3>1 DEF HandlersFit
    <3>3. f # e
      BY <1>1, <1>2, <2>2, <3>2, FitsAbout, NilAssumption DEF NoOverlap
    <3> QED
      BY <1>1, <1>4, <3>1, <3>2, <3>3, UntouchedFits
  <2> QED
    BY <2>1, <2>2
<1> QED
  BY <1>3, <1>5 DEF HandlersFit

LEMMA SerialStep == SerialInv /\ [SerialNext]_vars => SerialInv'
<1> SUFFICES ASSUME SerialInv, [SerialNext]_vars PROVE SerialInv'
  OBVIOUS
<1>1. IInv'
  BY InvStep DEF SerialInv, SerialNext
<1>2. CASE SerialNext
  <2>1. PICK t \in Threads : Request(t) \/ Step(t) \/ Abort(t)
    BY <1>2 DEF SerialNext, Next
  <2>2. Drawn' /\ Whole' /\ HandlersFit'
    BY <2>1, RequestStep, HandlerStep
  <2> QED
    BY <1>1, <1>2, <2>2 DEF SerialInv, SerialNext
<1>3. CASE UNCHANGED vars
  BY <1>1, <1>3
     DEF vars, hashVars, indexVars, sessionVars, locals, historyVars, SerialInv, Drawn, Whole,
         NoOverlap, About, At, HandlersFit, Fits, Unknown
<1> QED
  BY <1>2, <1>3

LEMMA SerialAlways == SerialSpec => []SerialInv
  BY SerialInit, SerialStep, PTL DEF SerialSpec
-----------------------------------------------------------------------------
(* What AccountDirectory sees of a step.                                   *)

LEMMA UntouchedPromise ==
  ASSUME IInv, NEW f \in Emails, Untouched(f)
  PROVE  AccountOf(f)' = AccountOf(f) /\ SessionsOf(f)' = SessionsOf(f)
<1>1. byEmail[f] # Nil => byEmail[f] \in Ids /\ owner[byEmail[f]] = f
  BY DEF IInv, LookupsLead, TypeInv, StoreOK, UserIds, Ids
<1>2. CASE byEmail[f] = Nil
  BY <1>2 DEF Untouched, AccountOf, SessionsOf
<1>3. CASE byEmail[f] # Nil
  BY <1>1, <1>3 DEF Untouched, AccountOf, SessionsOf
<1> QED
  BY <1>2, <1>3

\* One command about e seen by AccountDirectory: nothing, or one of its actions.
Registers(e, p) ==
    AccountOf(e) = Nil /\ AccountOf(e)' = p /\ SessionsOf(e)' = SessionsOf(e)
SignsIn(e, s) ==
    /\ AccountOf(e) # Nil /\ (\A x \in Emails : s \notin SessionsOf(x))
    /\ AccountOf(e)' = AccountOf(e) /\ SessionsOf(e)' = SessionsOf(e) \cup {s}
ChangesPassword(e, p) ==
    /\ AccountOf(e) # Nil /\ SessionsOf(e) # {}
    /\ AccountOf(e)' = p /\ SessionsOf(e)' = SessionsOf(e)
Removes(e) == AccountOf(e) # Nil /\ AccountOf(e)' = Nil /\ SessionsOf(e)' = {}
Unseen(e) == AccountOf(e)' = AccountOf(e) /\ SessionsOf(e)' = SessionsOf(e)

\* create() takes effect at HSET users:lookup:email.
LEMMA CreatesSeen ==
  ASSUME IInv, Drawn, Whole, NEW t \in Threads, NEW e \in Emails, Fits(t, e), Creates(t)
  PROVE  Unseen(e) \/ \E p \in Passwords : Registers(e, p)
<1>1. e # Nil
  BY NilAssumption
<1>2. Unknown(e)
  BY DEF Creates, NewUserId, SaveUser, SaveApikey, PublishApikey, PublishEmail, At, Fits,
         Early
<1>3. AccountOf(e) = Nil /\ SessionsOf(e) = {}
  BY <1>1, <1>2 DEF AccountOf, SessionsOf, Unknown
<1>4. CASE NewUserId(t) \/ SaveUser(t) \/ SaveApikey(t) \/ PublishApikey(t)
  <2>1. pc'[t] \in Early
    BY <1>4 DEF NewUserId, SaveUser, SaveApikey, PublishApikey, Goto, Early, IInv, TypeInv,
                HandlersOK, LocalsOK
  <2>2. Unknown(e)'
    BY <1>4, <2>1, CreatesAfter DEF Creates, Fits
  <2> QED
    BY <1>1, <1>3, <2>2 DEF AccountOf, SessionsOf, Unknown, Unseen
<1>5. CASE PublishEmail(t)
  <2> DEFINE u == uid[t]
  <2>1. /\ mail[t] = e /\ u \in UserIds /\ u \in Ids /\ name[u] = e /\ sessions[u] = {}
    BY <1>5 DEF PublishEmail, At, Fits, Named, Early, Seen, UserIds, Ids
  <2>2. byEmail'[e] = u /\ name' = name /\ pass' = pass /\ sessions' = sessions
    BY <1>5, <2>1 DEF PublishEmail, hashVars, sessionVars, IInv, TypeInv, StoreOK
  <2>3. u # Nil /\ pass[u] \in Passwords /\ pass[u] # Nil
    BY <1>1, <2>1, NilAssumption DEF UserIds, Whole
  <2> HIDE DEF u
  <2>4. AccountOf(e)' = pass[u] /\ SessionsOf(e)' = {}
    BY <2>1, <2>2, <2>3 DEF AccountOf, SessionsOf
  <2> QED
    BY <1>3, <2>3, <2>4 DEF Registers
<1> QED
  BY <1>4, <1>5 DEF Creates

\* A sign-in takes effect at SADD users:<id>:sessions, changeUserPassword at
\* HMSET users:<id>, remove at DEL users:<id>; or, when a handler that died
\* left an id the lookup does not lead to, at HDEL users:lookup:email.
LEMMA ChangesSeen ==
  ASSUME IInv, Drawn, Whole, NEW t \in Threads, NEW e \in Emails, Fits(t, e), Changes(t)
  PROVE  \/ Unseen(e) \/ Removes(e)
         \/ \E p \in Passwords : ChangesPassword(e, p)
         \/ \E s \in 1..MaxSessions : SignsIn(e, s)
<1> DEFINE u == uid[t]
<1>1. u \in UserIds /\ u \in Ids /\ owner[u] = e /\ u # Nil /\ e # Nil
  <2>1. pc[t] # "incr"
    BY DEF Changes, OpenSession, PasswordWrite, DeleteHash, ForgetEmail, DeleteSessions, At
  <2> QED
    BY <2>1, NilAssumption DEF Fits, UserIds, Ids
<1>2. LocalsOK /\ StoreOK
  BY DEF IInv, TypeInv, HandlersOK
<1>3. byEmail[e] # Nil => byEmail[e] \in Ids
  BY <1>2 DEF StoreOK, UserIds, Ids
<1>4. name[u] = e => pass[u] \in Passwords /\ pass[u] # Nil
  BY <1>1, NilAssumption DEF Whole
\* What an id the lookup does not lead to holds is not seen.
<1>5. ASSUME byEmail[e] # u, byEmail'[e] = byEmail[e],
             \A v \in Ids \ {u} :
               name'[v] = name[v] /\ pass'[v] = pass[v] /\ sessions'[v] = sessions[v]
      PROVE  Unseen(e)
  BY <1>3, <1>5 DEF Unseen, AccountOf, SessionsOf
<1> HIDE DEF u
<1>6. CASE OpenSession(t)
  <2> DEFINE s == nextSid + 1
  <2>1. /\ sessions' = [sessions EXCEPT ![u] = @ \cup {s}]
        /\ UNCHANGED <<name, pass, byEmail>> /\ name[u] = e
    BY <1>6 DEF OpenSession, hashVars, indexVars, At, Fits, Seen, u
  <2>2. CASE byEmail[e] # u
    BY <1>2, <1>5, <2>1, <2>2 DEF StoreOK
  <2>3. CASE byEmail[e] = u
    <3>1. AccountOf(e) = pass[u] /\ SessionsOf(e) = sessions[u] /\ AccountOf(e) # Nil
      BY <1>1, <1>4, <2>1, <2>3 DEF AccountOf, SessionsOf
    <3>2. AccountOf(e)' = AccountOf(e)
      BY <2>1 DEF AccountOf
    <3>3. SessionsOf(e)' = SessionsOf(e) \cup {s}
      BY <1>1, <1>2, <2>1, <2>3, <3>1, <3>2 DEF SessionsOf, StoreOK
    <3>4. ASSUME NEW x \in Emails PROVE s \notin SessionsOf(x)
      <4>1. s \notin 1..nextSid
        BY <1>2 DEF StoreOK
      <4>2. byEmail[x] # Nil => byEmail[x] \in Ids
        BY <1>2 DEF StoreOK, UserIds, Ids
      <4>3. SessionsOf(x) \subseteq 1..nextSid
        BY <4>2 DEF SessionsOf, AccountOf, Drawn
      <4> QED
        BY <4>1, <4>3
    <3>5. s \in 1..MaxSessions
      BY <1>2, <1>6, BoundsAssumption DEF OpenSession, StoreOK
    <3> HIDE DEF s
    <3>6. SignsIn(e, s)
      BY <3>1, <3>2, <3>3, <3>4 DEF SignsIn
    <3> QED
      BY <3>5, <3>6
  <2> QED
    BY <2>2, <2>3
<1>7. CASE PasswordWrite(t)
  <2>1. name[u] = e /\ mail[t] = e /\ pw[t] \in Passwords /\ sessions[u] # {} /\ pw[t] # Nil
    BY <1>7, NilAssumption DEF PasswordWrite, At, Fits, Seen, Named, u
  <2>2. /\ name' = [name EXCEPT ![u] = e] /\ pass' = [pass EXCEPT ![u] = pw[t]]
        /\ UNCHANGED <<byEmail, sessions>>
    BY <1>7, <2>1 DEF PasswordWrite, indexVars, sessionVars, u
  <2>3. CASE byEmail[e] # u
    BY <1>2, <1>5, <2>2, <2>3 DEF StoreOK
  <2>4. CASE byEmail[e] = u
    <3>1. AccountOf(e) # Nil /\ SessionsOf(e) = sessions[u]
      BY <1>1, <1>4, <2>1, <2>4 DEF AccountOf, SessionsOf
    <3>2. AccountOf(e)' = pw[t] /\ SessionsOf(e)' = sessions[u]
      BY <1>1, <1>2, <2>1, <2>2, <2>4 DEF AccountOf, SessionsOf, StoreOK
    <3> QED
      BY <2>1, <3>1, <3>2 DEF ChangesPassword
  <2> QED
    BY <2>3, <2>4
<1>8. CASE DeleteHash(t)
  <2>1. /\ name[u] = e /\ name' = [name EXCEPT ![u] = Nil] /\ pass' = [pass EXCEPT ![u] = Nil]
        /\ UNCHANGED <<byEmail, sessions>>
    BY <1>8 DEF DeleteHash, indexVars, sessionVars, At, Fits, Seen, u
  <2>2. CASE byEmail[e] # u
    BY <1>2, <1>5, <2>1, <2>2 DEF StoreOK
  <2>3. CASE byEmail[e] = u
    <3>1. AccountOf(e) # Nil
      BY <1>1, <1>4, <2>1, <2>3 DEF AccountOf
    <3>2. AccountOf(e)' = Nil /\ SessionsOf(e)' = {}
      BY <1>1, <1>2, <2>1, <2>3 DEF AccountOf, SessionsOf, StoreOK
    <3> QED
      BY <3>1, <3>2 DEF Removes
  <2> QED
    BY <2>2, <2>3
<1>9. CASE ForgetEmail(t)
  <2>1. mail[t] = e
    BY <1>9 DEF ForgetEmail, At, Fits, Named
  <2>2. byEmail'[e] = Nil
    BY <1>9, <2>1 DEF ForgetEmail
  <2>3. AccountOf(e)' = Nil /\ SessionsOf(e)' = {}
    BY <2>2 DEF AccountOf, SessionsOf
  <2>4. AccountOf(e) = Nil => SessionsOf(e) = {}
    BY DEF SessionsOf
  <2> QED
    BY <2>3, <2>4 DEF Removes, Unseen
\* The profile is gone since DEL users:<id>.
<1>10. CASE DeleteSessions(t)
  <2>1. u \in deleted
    BY <1>10 DEF DeleteSessions, At, IInv, RemovalProgress, u
  <2>2. name[u] = Nil
    BY <1>1, <2>1 DEF Whole
  <2>3. /\ sessions' = [sessions EXCEPT ![u] = {}]
        /\ UNCHANGED <<name, pass, byEmail>>
    BY <1>10 DEF DeleteSessions, hashVars, indexVars, u
  <2>4. CASE byEmail[e] # u
    BY <1>2, <1>5, <2>3, <2>4 DEF StoreOK
  <2>5. CASE byEmail[e] = u
    BY <1>1, <2>2, <2>3, <2>5 DEF AccountOf, SessionsOf, Unseen
  <2> QED
    BY <2>4, <2>5
<1> QED
  BY <1>6, <1>7, <1>8, <1>9, <1>10 DEF Changes
-----------------------------------------------------------------------------
(* The refinement, step by step.                                           *)

\* What one command does to its own address, and leaves of the others, is a
\* step of AccountDirectory.
LEMMA SeenByDirectory ==
  ASSUME NEW e \in Emails, \A f \in Emails \ {e} : Unseen(f),
         \/ Unseen(e) \/ Removes(e)
         \/ \E p \in Passwords : Registers(e, p) \/ ChangesPassword(e, p)
         \/ \E s \in 1..MaxSessions : SignsIn(e, s)
  PROVE  [Directory!Next]_(Directory!vars)
<1> DEFINE A == [f \in Emails |-> AccountOf(f)]
           S == [f \in Emails |-> SessionsOf(f)]
<1>1. \A f \in Emails \ {e} : AccountOf(f)' = AccountOf(f) /\ SessionsOf(f)' = SessionsOf(f)
  BY DEF Unseen
<1>2. CASE Unseen(e)
  <2>1. A' = A /\ S' = S
    BY <1>1, <1>2 DEF Unseen
  <2> QED
    BY <2>1 DEF Directory!vars
<1>3. CASE Removes(e)
  <2>1. A' = [A EXCEPT ![e] = Nil] /\ S' = [S EXCEPT ![e] = {}]
    BY <1>1, <1>3 DEF Removes
  <2>2. Directory!Remove(e)
    BY <1>3, <2>1 DEF Directory!Remove, Removes
  <2> QED
    BY <2>2 DEF Directory!Next
<1>4. ASSUME NEW p \in Passwords, Registers(e, p)
      PROVE  Directory!Next
  <2>1. A' = [A EXCEPT ![e] = p] /\ S' = S
    BY <1>1, <1>4 DEF Registers
  <2>2. Directory!Register(e, p)
    BY <1>4, <2>1 DEF Directory!Register, Registers
  <2> QED
    BY <2>2 DEF Directory!Next
<1>5. ASSUME NEW p \in Passwords, ChangesPassword(e, p)
      PROVE  Directory!Next
  <2>1. A' = [A EXCEPT ![e] = p] /\ S' = S
    BY <1>1, <1>5 DEF ChangesPassword
  <2>2. Directory!ChangePassword(e, p)
    BY <1>5, <2>1 DEF Directory!ChangePassword, ChangesPassword
  <2> QED
    BY <2>2 DEF Directory!Next
<1>6. ASSUME NEW s \in 1..MaxSessions, SignsIn(e, s)
      PROVE  Directory!Next
  <2>1. A' = A /\ S' = [S EXCEPT ![e] = @ \cup {s}]
    BY <1>1, <1>6 DEF SignsIn
  <2>2. Directory!SignIn(e, s)
    BY <1>6, <2>1 DEF Directory!SignIn, SignsIn
  <2> QED
    BY <2>2 DEF Directory!Next
<1> QED
  BY <1>2, <1>3, <1>4, <1>5, <1>6

LEMMA DirectoryInit == Init => Directory!Init
<1> SUFFICES ASSUME Init PROVE Directory!Init
  OBVIOUS
<1>1. \A e \in Emails : AccountOf(e) = Nil /\ SessionsOf(e) = {}
  BY DEF Init, AccountOf, SessionsOf
<1> QED
  BY <1>1 DEF Directory!Init

LEMMA DirectoryStep ==
  SerialInv /\ [SerialNext]_vars => [Directory!Next]_(Directory!vars)
<1> SUFFICES ASSUME SerialInv, [SerialNext]_vars
             PROVE  [Directory!Next]_(Directory!vars)
  OBVIOUS
<1>1. IInv /\ Drawn /\ Whole /\ HandlersFit
  BY DEF SerialInv
<1>2. ASSUME UNCHANGED <<name, pass, byEmail, sessions>>
      PROVE  UNCHANGED Directory!vars
  BY <1>2 DEF Directory!vars, AccountOf, SessionsOf
<1>3. CASE UNCHANGED vars
  BY <1>2, <1>3 DEF vars, hashVars, indexVars, sessionVars
<1>4. ASSUME NEW t \in Threads, Request(t)
      PROVE  UNCHANGED Directory!vars
  BY <1>1, <1>2, <1>4, RequestLeaves DEF accountVars
<1>5. ASSUME NEW t \in Threads, Step(t) \/ Abort(t)
      PROVE  [Directory!Next]_(Directory!vars)
  <2>1. PICK e \in Emails : Fits(t, e)
    BY <1>1, <1>5, HandlerBusy DEF HandlersFit
  <2>2. \A f \in Emails \ {e} : Unseen(f)
    BY <1>1, <1>5, <2>1, FitsStep, UntouchedPromise DEF Unseen
  <2>3. CASE Looks(t)
    BY <1>1, <1>2, <2>3, LooksLeaves DEF accountVars
  <2>4. CASE Creates(t)
    BY <1>1, <2>1, <2>2, <2>4, CreatesSeen, SeenByDirectory
  <2>5. CASE Changes(t)
    BY <1>1, <2>1, <2>2, <2>5, ChangesSeen, SeenByDirectory
  <2> QED
    BY <1>5, <2>3, <2>4, <2>5, StepKinds
<1> QED
  BY <1>3, <1>4, <1>5 DEF SerialNext, Next

\* When requests about one account do not overlap, the handlers of ZUserManager
\* and ZSessionService are an AccountDirectory for their clients, whatever the
\* handlers about other accounts do meanwhile and wherever handlers die.
THEOREM SerialImplements == SerialSpec => ImplementsDirectory
<1>1. SerialSpec => []SerialInv /\ Init /\ [][SerialNext]_vars
  BY SerialAlways, PTL DEF SerialSpec
<1>2. SerialInv /\ [SerialNext]_vars => [Directory!Next]_(Directory!vars)
  BY DirectoryStep
<1> QED
  BY <1>1, <1>2, DirectoryInit, PTL DEF ImplementsDirectory, Directory!Spec
=============================================================================
