--------------------------- MODULE ZUserAccounts ---------------------------
(***************************************************************************)
(* User accounts of zcloud: ZUserManager, the account handlers of ZWorker  *)
(* and of the HTTP API, and the session sets of ZSessionService.           *)
(*                                                                         *)
(* Poco's HTTPServer runs up to sixteen handlers at once.  The handlers    *)
(* share nothing but Redis, and each call on ZDBProxy is one atomic Redis  *)
(* command, so one action here is one command of one handler.  Nothing     *)
(* groups the commands of a handler: other handlers run between them, and  *)
(* a handler that dies leaves what it had written.                         *)
(*                                                                         *)
(* A request's first command is part of the action that starts its        *)
(* handler.  A request that its first command refuses changes nothing and *)
(* has no action.  A read whose result the handler ignores has none either. *)
(***************************************************************************)
EXTENDS Integers, FiniteSets

CONSTANTS
    Threads,      \* the HTTP server's worker threads
    Emails,       \* well-formed addresses, ZUserInfo::userName
    Passwords,    \* non-empty passwords
    Nil,          \* an empty reply: no such key, no such field
    MaxUsers,     \* bound on counter:id:users
    MaxSessions,  \* bound on the session ids handed out
    MaxDevices    \* bound on counter:id:devices

ASSUME BoundsAssumption ==
    MaxUsers \in Nat /\ MaxSessions \in Nat /\ MaxDevices \in Nat
ASSUME NilAssumption == Nil \notin Emails \cup Passwords \cup Nat

UserIds == 1..MaxUsers

\* ZUserInfo() starts with userId_ 0, so 0 names a user no counter hands out.
Ids == 0..MaxUsers

VARIABLES
    nextId,       \* counter:id:users
    name,         \* users:<id> userName (with userId and the profile fields)
    pass,         \* users:<id> password
    apikey,       \* users:<id> apikey; the uuid made for user u is named u
    byApikey,     \* users:lookup:apikey
    byEmail,      \* users:lookup:email
    userSet,      \* users:set
    apikeyOwner,  \* the ids with a users.apikey:<uuid> hash
    sessions,     \* users:<id>:sessions
    nextSid,      \* session ids drawn so far
    devices,      \* devices that exist (devices:<id>)
    nextDev,      \* counter:id:devices
    userDevices,  \* users:<id>:devices
    pc,           \* per thread: the command its handler sends next
    op,           \* per thread: the request it serves
    uid,          \* per thread: the user id its handler works on
    mail,         \* per thread: the address of the request, or the userName read
    pw,           \* per thread: the password of the request
    key,          \* per thread: the apikey read
    devs,         \* per thread: the devices created, or read from the relation
    owner,        \* history: the address an id was registered under
    deleted,      \* history: the ids whose users:<id> was deleted
    torn          \* history: the ids whose create() died half-way

hashVars == <<name, pass, apikey>>
indexVars == <<byApikey, byEmail, userSet, apikeyOwner>>
sessionVars == <<sessions, nextSid>>
deviceVars == <<devices, nextDev, userDevices>>
locals == <<op, uid, mail, pw, key, devs>>
historyVars == <<owner, deleted, torn>>
vars == <<nextId, hashVars, indexVars, sessionVars, deviceVars, pc, locals, historyVars>>

\* The commands of ZUserManager::create after the id is drawn.
CreateSteps == {"save", "key", "byKey", "byMail", "set", "own"}

Labels == CreateSteps \cup
    {"idle", "exists", "incr", "info", "read", "open", "lLen", "lRead", "cLen",
     "cRead", "cWrite", "dLen", "aLen", "aRead", "rLen", "rName", "rKey", "del",
     "srem", "hdelKey", "hdelMail", "delSess", "devs", "devDel", "devRel",
     "vNew", "vLink"}

Operations == {"none", "register", "login", "password", "remove", "admin", "diy", "sensor"}

\* HLEN users:<u> is not 0.
Exists(u) == name[u] # Nil \/ apikey[u] # Nil

At(t, label) == pc[t] = label
Goto(t, label) == pc' = [pc EXCEPT ![t] = label] /\ UNCHANGED locals

\* A thread takes a request up, and is done with it.
Start(t, o, label, u, e, p) ==
    /\ At(t, "idle")
    /\ pc' = [pc EXCEPT ![t] = label]
    /\ op' = [op EXCEPT ![t] = o]
    /\ uid' = [uid EXCEPT ![t] = u]
    /\ mail' = [mail EXCEPT ![t] = e]
    /\ pw' = [pw EXCEPT ![t] = p]
    /\ UNCHANGED <<key, devs>>

Finish(t) ==
    /\ pc' = [pc EXCEPT ![t] = "idle"]
    /\ op' = [op EXCEPT ![t] = "none"]
    /\ uid' = [uid EXCEPT ![t] = 0]
    /\ mail' = [mail EXCEPT ![t] = Nil]
    /\ pw' = [pw EXCEPT ![t] = Nil]
    /\ key' = [key EXCEPT ![t] = Nil]
    /\ devs' = [devs EXCEPT ![t] = {}]

\* A profile was read with HMGET users:<id>, and the handler goes on with its
\* userId(): a hash emptied since HLEN leaves the constructor's 0.
GotoReadId(t, label) ==
    /\ pc' = [pc EXCEPT ![t] = label]
    /\ uid' = [uid EXCEPT ![t] = IF name[@] = Nil THEN 0 ELSE @]
    /\ UNCHANGED <<op, mail, pw, key, devs>>

\* A profile was read with HMGET users:<id>, and the handler keeps its userName.
GotoReadName(t, label) ==
    /\ pc' = [pc EXCEPT ![t] = label]
    /\ mail' = [mail EXCEPT ![t] = name[uid[t]]]
    /\ UNCHANGED <<op, uid, pw, key, devs>>

Init ==
    /\ nextId = 0
    /\ name = [u \in Ids |-> Nil]
    /\ pass = [u \in Ids |-> Nil]
    /\ apikey = [u \in Ids |-> Nil]
    /\ byApikey = [k \in UserIds |-> Nil]
    /\ byEmail = [e \in Emails |-> Nil]
    /\ userSet = {}
    /\ apikeyOwner = {}
    /\ sessions = [u \in Ids |-> {}]
    /\ nextSid = 0
    /\ devices = {}
    /\ nextDev = 0
    /\ userDevices = [u \in Ids |-> {}]
    /\ pc = [t \in Threads |-> "idle"]
    /\ op = [t \in Threads |-> "none"]
    /\ uid = [t \in Threads |-> 0]
    /\ mail = [t \in Threads |-> Nil]
    /\ pw = [t \in Threads |-> Nil]
    /\ key = [t \in Threads |-> Nil]
    /\ devs = [t \in Threads |-> {}]
    /\ owner = [u \in Ids |-> Nil]
    /\ deleted = {}
    /\ torn = {}
-----------------------------------------------------------------------------
(* POST /user/register: handleUserRegister, createNewUser, create.         *)

\* getUserInfo(email): HGET users:lookup:email.
Register(t, e, p) ==
    /\ IF byEmail[e] = Nil
         THEN Start(t, "register", "incr", 0, e, p)
         ELSE Start(t, "register", "exists", byEmail[e], e, p)
    /\ UNCHANGED <<nextId, hashVars, indexVars, sessionVars, deviceVars, historyVars>>

\* Mutant of RegisterExists: the answer of getUserInfo(email) is ignored.
RegisterExistsIgnored(t) ==
    /\ At(t, "exists")
    /\ Goto(t, "incr")
    /\ UNCHANGED <<nextId, hashVars, indexVars, sessionVars, deviceVars, historyVars>>

\* HLEN users:<id> of the id found: User_Exists, or the entry is stale.
RegisterExists(t) ==
    /\ At(t, "exists")
    /\ IF Exists(uid[t]) THEN Finish(t) ELSE Goto(t, "incr")
    /\ UNCHANGED <<nextId, hashVars, indexVars, sessionVars, deviceVars, historyVars>>

\* Mutant of NewUserId: the profile is saved before setUserId().
NewUserIdUnset(t) ==
    /\ At(t, "incr")
    /\ nextId < MaxUsers
    /\ nextId' = nextId + 1
    /\ Goto(t, "save")
    /\ owner' = [owner EXCEPT ![nextId + 1] = mail[t]]
    /\ UNCHANGED <<hashVars, indexVars, sessionVars, deviceVars, deleted, torn>>

\* ZIdGenerator::getNext: INCR counter:id:users.
NewUserId(t) ==
    /\ At(t, "incr")
    /\ nextId < MaxUsers
    /\ nextId' = nextId + 1
    /\ pc' = [pc EXCEPT ![t] = "save"]
    /\ uid' = [uid EXCEPT ![t] = nextId + 1]
    /\ owner' = [owner EXCEPT ![nextId + 1] = mail[t]]
    /\ UNCHANGED <<op, mail, pw, key, devs, hashVars, indexVars, sessionVars,
                   deviceVars, deleted, torn>>

\* Mutant of SaveUser: the apikey is published before it is in the profile.
SaveUserPublishes(t) ==
    /\ At(t, "save")
    /\ name' = [name EXCEPT ![uid[t]] = mail[t]]
    /\ pass' = [pass EXCEPT ![uid[t]] = pw[t]]
    /\ byApikey' = [byApikey EXCEPT ![uid[t]] = uid[t]]
    /\ Goto(t, "key")
    /\ UNCHANGED <<nextId, apikey, byEmail, userSet, apikeyOwner,
                   sessionVars, deviceVars, historyVars>>

\* saveToDB: HMSET users:<id>.
SaveUser(t) ==
    /\ At(t, "save")
    /\ name' = [name EXCEPT ![uid[t]] = mail[t]]
    /\ pass' = [pass EXCEPT ![uid[t]] = pw[t]]
    /\ Goto(t, "key")
    /\ UNCHANGED <<nextId, apikey, indexVars, sessionVars, deviceVars, historyVars>>

\* HSET users:<id> apikey.
SaveApikey(t) ==
    /\ At(t, "key")
    /\ apikey' = [apikey EXCEPT ![uid[t]] = uid[t]]
    /\ Goto(t, "byKey")
    /\ UNCHANGED <<nextId, name, pass, indexVars, sessionVars, deviceVars, historyVars>>

\* HSET users:lookup:apikey.
PublishApikey(t) ==
    /\ At(t, "byKey")
    /\ byApikey' = [byApikey EXCEPT ![uid[t]] = uid[t]]
    /\ Goto(t, "byMail")
    /\ UNCHANGED <<nextId, hashVars, byEmail, userSet, apikeyOwner,
                   sessionVars, deviceVars, historyVars>>

\* Mutant of PublishEmail: the counter is read again instead of the id drawn.
PublishEmailLatest(t) ==
    /\ At(t, "byMail")
    /\ byEmail' = [byEmail EXCEPT ![mail[t]] = nextId]
    /\ Goto(t, "set")
    /\ UNCHANGED <<nextId, hashVars, byApikey, userSet, apikeyOwner,
                   sessionVars, deviceVars, historyVars>>

\* HSET users:lookup:email.
PublishEmail(t) ==
    /\ At(t, "byMail")
    /\ byEmail' = [byEmail EXCEPT ![mail[t]] = uid[t]]
    /\ Goto(t, "set")
    /\ UNCHANGED <<nextId, hashVars, byApikey, userSet, apikeyOwner,
                   sessionVars, deviceVars, historyVars>>

\* SADD users:set.
ListUser(t) ==
    /\ At(t, "set")
    /\ userSet' = userSet \cup {uid[t]}
    /\ Goto(t, "own")
    /\ UNCHANGED <<nextId, hashVars, byApikey, byEmail, apikeyOwner,
                   sessionVars, deviceVars, historyVars>>

\* HSET users.apikey:<uuid>.
SaveApikeyOwner(t) ==
    /\ At(t, "own")
    /\ apikeyOwner' = apikeyOwner \cup {uid[t]}
    /\ Goto(t, "info")
    /\ UNCHANGED <<nextId, hashVars, byApikey, byEmail, userSet,
                   sessionVars, deviceVars, historyVars>>

\* getUserInfo(userId): HLEN users:<id>.
RegisterInfo(t) ==
    /\ At(t, "info")
    /\ IF Exists(uid[t]) THEN Goto(t, "read") ELSE Finish(t)
    /\ UNCHANGED <<nextId, hashVars, indexVars, sessionVars, deviceVars, historyVars>>

\* get: HMGET users:<id>; the session will be that of user->userId().
RegisterRead(t) ==
    /\ At(t, "read")
    /\ GotoReadId(t, "open")
    /\ UNCHANGED <<nextId, hashVars, indexVars, sessionVars, deviceVars, historyVars>>

\* create_jwt: SADD users:<id>:sessions, and the token is answered.
OpenSession(t) ==
    /\ At(t, "open")
    /\ nextSid < MaxSessions
    /\ nextSid' = nextSid + 1
    /\ sessions' = [sessions EXCEPT ![uid[t]] = @ \cup {nextSid + 1}]
    /\ Finish(t)
    /\ UNCHANGED <<nextId, hashVars, indexVars, deviceVars, historyVars>>
-----------------------------------------------------------------------------
(* POST /user/login: handleUserLogin.                                      *)

\* getUserInfo(email): HGET users:lookup:email finds an id.
Login(t, e, p) ==
    /\ byEmail[e] # Nil
    /\ Start(t, "login", "lLen", byEmail[e], e, p)
    /\ UNCHANGED <<nextId, hashVars, indexVars, sessionVars, deviceVars, historyVars>>

\* HLEN users:<id>.
LoginExists(t) ==
    /\ At(t, "lLen")
    /\ IF Exists(uid[t]) THEN Goto(t, "lRead") ELSE Finish(t)
    /\ UNCHANGED <<nextId, hashVars, indexVars, sessionVars, deviceVars, historyVars>>

\* HMGET users:<id>, and the password is compared.
LoginRead(t) ==
    /\ At(t, "lRead")
    /\ IF pass[uid[t]] = pw[t]
         THEN GotoReadId(t, "open")
         ELSE Finish(t)
    /\ UNCHANGED <<nextId, hashVars, indexVars, sessionVars, deviceVars, historyVars>>
-----------------------------------------------------------------------------
(* POST /user/password: handleUserPassword, changeUserPassword.            *)

\* validate_jwt: SISMEMBER users:<id>:sessions.
ChangePassword(t, u, p) ==
    /\ sessions[u] # {}
    /\ Start(t, "password", "cLen", u, Nil, p)
    /\ UNCHANGED <<nextId, hashVars, indexVars, sessionVars, deviceVars, historyVars>>

\* HLEN users:<id>.
PasswordExists(t) ==
    /\ At(t, "cLen")
    /\ IF Exists(uid[t]) THEN Goto(t, "cRead") ELSE Finish(t)
    /\ UNCHANGED <<nextId, hashVars, indexVars, sessionVars, deviceVars, historyVars>>

\* HMGET users:<id>: the old password presented (old) must be the one stored;
\* the whole profile is kept for the write.
PasswordRead(t, old) ==
    /\ At(t, "cRead")
    /\ IF pass[uid[t]] = old
         THEN GotoReadName(t, "cWrite")
         ELSE Finish(t)
    /\ UNCHANGED <<nextId, hashVars, indexVars, sessionVars, deviceVars, historyVars>>

\* Mutant of PasswordWrite: the apikey read with the profile is written too.
PasswordWriteApikey(t) ==
    /\ At(t, "cWrite")
    /\ name' = [name EXCEPT ![uid[t]] = mail[t]]
    /\ pass' = [pass EXCEPT ![uid[t]] = pw[t]]
    /\ apikey' = [apikey EXCEPT ![uid[t]] = uid[t]]
    /\ Finish(t)
    /\ UNCHANGED <<nextId, indexVars, sessionVars, deviceVars, historyVars>>

\* update, saveToDB: HMSET users:<id> of every field but the apikey.
PasswordWrite(t) ==
    /\ At(t, "cWrite")
    /\ name' = [name EXCEPT ![uid[t]] = mail[t]]
    /\ pass' = [pass EXCEPT ![uid[t]] = pw[t]]
    /\ Finish(t)
    /\ UNCHANGED <<nextId, apikey, indexVars, sessionVars, deviceVars, historyVars>>
-----------------------------------------------------------------------------
(* POST /user/remove: handleUserRemove, ZWorker::removeUser; and the       *)
(* administrator's DELETE: handleDeleteAdminUserApikey.  Both go through   *)
(* ZUserManager::remove, from "rLen" to "hdelMail".                        *)

\* validate_jwt: SISMEMBER users:<id>:sessions.
RemoveUser(t, u) ==
    /\ sessions[u] # {}
    /\ Start(t, "remove", "dLen", u, Nil, Nil)
    /\ UNCHANGED <<nextId, hashVars, indexVars, sessionVars, deviceVars, historyVars>>

\* Mutants of RemoveUserExists: the sessions, or the devices, go first.
RemoveUserSessionsFirst(t) ==
    /\ At(t, "dLen")
    /\ IF Exists(uid[t]) THEN Goto(t, "delSess") ELSE Finish(t)
    /\ UNCHANGED <<nextId, hashVars, indexVars, sessionVars, deviceVars, historyVars>>
RemoveUserDevicesFirst(t) ==
    /\ At(t, "dLen")
    /\ IF Exists(uid[t]) THEN Goto(t, "devs") ELSE Finish(t)
    /\ UNCHANGED <<nextId, hashVars, indexVars, sessionVars, deviceVars, historyVars>>

\* The existence check of removeUser: HLEN users:<id>.
RemoveUserExists(t) ==
    /\ At(t, "dLen")
    /\ IF Exists(uid[t]) THEN Goto(t, "rLen") ELSE Finish(t)
    /\ UNCHANGED <<nextId, hashVars, indexVars, sessionVars, deviceVars, historyVars>>

\* getUserWithApikey: HGET users:lookup:apikey.
AdminDelete(t, k) ==
    /\ byApikey[k] # Nil
    /\ Start(t, "admin", "aLen", byApikey[k], Nil, Nil)
    /\ UNCHANGED <<nextId, hashVars, indexVars, sessionVars, deviceVars, historyVars>>

\* getWithUserKey: HLEN users:<id> of the id found.
AdminExists(t) ==
    /\ At(t, "aLen")
    /\ Exists(uid[t])
    /\ Goto(t, "aRead")
    /\ UNCHANGED <<nextId, hashVars, indexVars, sessionVars, deviceVars, historyVars>>

\* The lookup named an account that is gone: the handler dereferences the
\* null profile, and the process dies with every handler it was running.
AdminNullDeref(t) ==
    /\ At(t, "aLen")
    /\ ~Exists(uid[t])
    /\ pc' = [x \in Threads |-> "idle"]
    /\ op' = [x \in Threads |-> "none"]
    /\ uid' = [x \in Threads |-> 0]
    /\ mail' = [x \in Threads |-> Nil]
    /\ pw' = [x \in Threads |-> Nil]
    /\ key' = [x \in Threads |-> Nil]
    /\ devs' = [x \in Threads |-> {}]
    /\ torn' = torn \cup {uid[x] : x \in {y \in Threads : pc[y] \in CreateSteps}}
    /\ UNCHANGED <<nextId, hashVars, indexVars, sessionVars, deviceVars, owner, deleted>>

\* HMGET users:<id>; remove() is called with user->userId().
AdminRead(t) ==
    /\ At(t, "aRead")
    /\ GotoReadId(t, "rLen")
    /\ UNCHANGED <<nextId, hashVars, indexVars, sessionVars, deviceVars, historyVars>>

\* remove() answered, OK or NotFound: removeUser goes on with the sessions
\* whatever it answered, the administrator's request is done.
AfterRemove(t) ==
    IF op[t] = "remove" THEN Goto(t, "delSess") ELSE Finish(t)

\* get in remove: HLEN users:<id>.
RemoveExists(t) ==
    /\ At(t, "rLen")
    /\ IF Exists(uid[t]) THEN Goto(t, "rName") ELSE AfterRemove(t)
    /\ UNCHANGED <<nextId, hashVars, indexVars, sessionVars, deviceVars, historyVars>>

\* get in remove: HMGET users:<id>.
RemoveReadName(t) ==
    /\ At(t, "rName")
    /\ GotoReadName(t, "rKey")
    /\ UNCHANGED <<nextId, hashVars, indexVars, sessionVars, deviceVars, historyVars>>

\* HGET users:<id> apikey.
RemoveReadApikey(t) ==
    /\ At(t, "rKey")
    /\ pc' = [pc EXCEPT ![t] = "del"]
    /\ key' = [key EXCEPT ![t] = apikey[uid[t]]]
    /\ UNCHANGED <<op, uid, mail, pw, devs>>
    /\ UNCHANGED <<nextId, hashVars, indexVars, sessionVars, deviceVars, historyVars>>

\* DEL users:<id>.
DeleteHash(t) ==
    /\ At(t, "del")
    /\ name' = [name EXCEPT ![uid[t]] = Nil]
    /\ pass' = [pass EXCEPT ![uid[t]] = Nil]
    /\ apikey' = [apikey EXCEPT ![uid[t]] = Nil]
    /\ deleted' = deleted \cup {uid[t]}
    /\ Goto(t, "srem")
    /\ UNCHANGED <<nextId, indexVars, sessionVars, deviceVars, owner, torn>>

\* SREM users:set.
UnlistUser(t) ==
    /\ At(t, "srem")
    /\ userSet' = userSet \ {uid[t]}
    /\ Goto(t, "hdelKey")
    /\ UNCHANGED <<nextId, hashVars, byApikey, byEmail, apikeyOwner,
                   sessionVars, deviceVars, historyVars>>

\* HDEL users:lookup:apikey of the uuid read; HDEL of "" deletes nothing.
ForgetApikey(t) ==
    /\ At(t, "hdelKey")
    /\ byApikey' = [k \in UserIds |-> IF k = key[t] THEN Nil ELSE byApikey[k]]
    /\ Goto(t, "hdelMail")
    /\ UNCHANGED <<nextId, hashVars, byEmail, userSet, apikeyOwner,
                   sessionVars, deviceVars, historyVars>>

\* HDEL users:lookup:email of the name read, whichever id it leads to by now.
ForgetEmail(t) ==
    /\ At(t, "hdelMail")
    /\ byEmail' = [e \in Emails |-> IF e = mail[t] THEN Nil ELSE byEmail[e]]
    /\ AfterRemove(t)
    /\ UNCHANGED <<nextId, hashVars, byApikey, userSet, apikeyOwner,
                   sessionVars, deviceVars, historyVars>>

\* DEL users:<id>:sessions.
DeleteSessions(t) ==
    /\ At(t, "delSess")
    /\ sessions' = [sessions EXCEPT ![uid[t]] = {}]
    /\ Goto(t, "devs")
    /\ UNCHANGED <<nextId, hashVars, indexVars, nextSid, deviceVars, historyVars>>

\* SMEMBERS users:<id>:devices.
ReadDevices(t) ==
    /\ At(t, "devs")
    /\ IF userDevices[uid[t]] = {}
         THEN Finish(t)
         ELSE /\ pc' = [pc EXCEPT ![t] = "devDel"]
              /\ devs' = [devs EXCEPT ![t] = userDevices[uid[t]]]
              /\ UNCHANGED <<op, uid, mail, pw, key>>
    /\ UNCHANGED <<nextId, hashVars, indexVars, sessionVars, deviceVars, historyVars>>

\* deleteDevice(key) of one device of the list: its keys go in one step here.
DeleteDevice(t, d) ==
    /\ At(t, "devDel")
    /\ d \in devs[t]
    /\ devices' = devices \ {d}
    /\ devs' = [devs EXCEPT ![t] = @ \ {d}]
    /\ pc' = [pc EXCEPT ![t] = IF devs[t] = {d} THEN "devRel" ELSE "devDel"]
    /\ UNCHANGED <<op, uid, mail, pw, key, nextId, hashVars, indexVars, sessionVars,
                   nextDev, userDevices, historyVars>>

\* DEL users:<id>:devices.
DeleteRelation(t) ==
    /\ At(t, "devRel")
    /\ userDevices' = [userDevices EXCEPT ![uid[t]] = {}]
    /\ Finish(t)
    /\ UNCHANGED <<nextId, hashVars, indexVars, sessionVars, devices, nextDev, historyVars>>
-----------------------------------------------------------------------------
(* Devices reach an account in two ways: addDIYDevice for a session, and   *)
(* addSensorDevice for an apikey.                                          *)

\* addDIYDevice: SISMEMBER users:<id>:sessions.
AddDIYDevice(t, u) ==
    /\ sessions[u] # {}
    /\ Start(t, "diy", "vNew", u, Nil, Nil)
    /\ UNCHANGED <<nextId, hashVars, indexVars, sessionVars, deviceVars, historyVars>>

\* addSensorDevice: HGET users.apikey:<uuid>.
AddSensorDevice(t, u) ==
    /\ u \in apikeyOwner
    /\ Start(t, "sensor", "vNew", u, Nil, Nil)
    /\ UNCHANGED <<nextId, hashVars, indexVars, sessionVars, deviceVars, historyVars>>

\* createDeviceInfo and createVarInfo: the device's keys come in one step here.
CreateDevice(t) ==
    /\ At(t, "vNew")
    /\ nextDev < MaxDevices
    /\ nextDev' = nextDev + 1
    /\ devices' = devices \cup {nextDev + 1}
    /\ pc' = [pc EXCEPT ![t] = "vLink"]
    /\ devs' = [devs EXCEPT ![t] = {nextDev + 1}]
    /\ UNCHANGED <<op, uid, mail, pw, key, nextId, hashVars, indexVars, sessionVars,
                   userDevices, historyVars>>

\* SADD users:<id>:devices.
LinkDevice(t) ==
    /\ At(t, "vLink")
    /\ userDevices' = [userDevices EXCEPT ![uid[t]] = @ \cup devs[t]]
    /\ Finish(t)
    /\ UNCHANGED <<nextId, hashVars, indexVars, sessionVars, devices, nextDev, historyVars>>
-----------------------------------------------------------------------------
\* A handler ends early: a command threw, or the process was killed.  Redis
\* keeps what the handler wrote; the command that threw may have run or not.
Abort(t) ==
    /\ ~At(t, "idle")
    /\ Finish(t)
    /\ torn' = IF pc[t] \in CreateSteps THEN torn \cup {uid[t]} ELSE torn
    /\ UNCHANGED <<nextId, hashVars, indexVars, sessionVars, deviceVars, owner, deleted>>

Request(t) ==
    \/ \E e \in Emails, p \in Passwords : Register(t, e, p) \/ Login(t, e, p)
    \/ \E u \in Ids, p \in Passwords : ChangePassword(t, u, p)
    \/ \E u \in Ids : RemoveUser(t, u) \/ AddDIYDevice(t, u) \/ AddSensorDevice(t, u)
    \/ \E k \in UserIds : AdminDelete(t, k)

RegisterStep(t) ==
    \/ RegisterExists(t) \/ NewUserId(t) \/ SaveUser(t) \/ SaveApikey(t)
    \/ PublishApikey(t) \/ PublishEmail(t) \/ ListUser(t) \/ SaveApikeyOwner(t)
    \/ RegisterInfo(t) \/ RegisterRead(t)

SignInStep(t) == LoginExists(t) \/ LoginRead(t) \/ OpenSession(t)

PasswordStep(t) ==
    \/ PasswordExists(t)
    \/ \E old \in Passwords : PasswordRead(t, old)
    \/ PasswordWrite(t)

RemoveStep(t) ==
    \/ RemoveUserExists(t) \/ AdminExists(t) \/ AdminNullDeref(t) \/ AdminRead(t)
    \/ RemoveExists(t) \/ RemoveReadName(t) \/ RemoveReadApikey(t) \/ DeleteHash(t)
    \/ UnlistUser(t) \/ ForgetApikey(t) \/ ForgetEmail(t) \/ DeleteSessions(t)
    \/ ReadDevices(t) \/ DeleteRelation(t)
    \/ \E d \in 1..MaxDevices : DeleteDevice(t, d)

DeviceStep(t) == CreateDevice(t) \/ LinkDevice(t)

Step(t) ==
    RegisterStep(t) \/ SignInStep(t) \/ PasswordStep(t) \/ RemoveStep(t) \/ DeviceStep(t)

Next == \E t \in Threads : Request(t) \/ Step(t) \/ Abort(t)

Spec == Init /\ [][Next]_vars
-----------------------------------------------------------------------------
TypeOK ==
    /\ nextId \in 0..MaxUsers
    /\ name \in [Ids -> Emails \cup {Nil}]
    /\ pass \in [Ids -> Passwords \cup {Nil}]
    /\ apikey \in [Ids -> UserIds \cup {Nil}]
    /\ byApikey \in [UserIds -> UserIds \cup {Nil}]
    /\ byEmail \in [Emails -> UserIds \cup {Nil}]
    /\ userSet \subseteq UserIds
    /\ apikeyOwner \subseteq UserIds
    /\ sessions \in [Ids -> SUBSET (1..MaxSessions)]
    /\ nextSid \in 0..MaxSessions
    /\ devices \subseteq 1..MaxDevices
    /\ nextDev \in 0..MaxDevices
    /\ userDevices \in [Ids -> SUBSET (1..MaxDevices)]
    /\ pc \in [Threads -> Labels]
    /\ op \in [Threads -> Operations]
    /\ uid \in [Threads -> Ids]
    /\ mail \in [Threads -> Emails \cup {Nil}]
    /\ pw \in [Threads -> Passwords \cup {Nil}]
    /\ key \in [Threads -> UserIds \cup {Nil}]
    /\ devs \in [Threads -> SUBSET (1..MaxDevices)]
    /\ owner \in [Ids -> Emails \cup {Nil}]
    /\ deleted \subseteq Ids
    /\ torn \subseteq Ids

\* A sign-in or a registration opens its session on an account registered
\* under the address its request carried, or on id 0 when the profile vanished
\* between two reads (handleUserLogin and handleUserRegister call create_jwt
\* with an id that went through users:lookup:email, HLEN and HMGET).
SignInOpensOwnAccount ==
    \A t \in Threads : At(t, "open") /\ uid[t] # 0 => owner[uid[t]] = mail[t]

\* An account with an apikey is found by that apikey and listed in users:set,
\* unless its create() is still running or died half-way: no interleaving of
\* remove() with the other handlers hides an account that is still there.
FullAccountIndexed ==
    \A u \in UserIds :
        apikey[u] # Nil =>
            \/ byApikey[u] = u /\ u \in userSet
            \/ u \in torn
            \/ \E t \in Threads : uid[t] = u /\ pc[t] \in {"byKey", "byMail", "set"}

\* "user is existed" is what a registration under an address in use answers
\* (ZApiHTTPUserRequestHandler.cpp:138), so no two accounts whose create() did
\* not die half-way hold the same address.
EmailUnique ==
    \A u, v \in UserIds \ torn : u # v /\ name[u] # Nil => name[u] # name[v]

\* A password change can write back the hash of an account that is being
\* removed (update has no existence check), yet never its apikey: what comes
\* back after DEL users:<id> is not a whole account.
DeletedNeverWhole == \A u \in deleted : apikey[u] = Nil

\* Sessions disappear only from accounts whose hash was deleted before: a
\* removal never signs out an account that is still there (removeUser deletes
\* the sessions after remove(), and also when remove() answers NotFound).
LogoutOnlyAfterDelete ==
    [][\A u \in Ids : ~(sessions[u] \subseteq sessions'[u]) => u \in deleted]_vars

\* The removal of an account deletes the devices linked to it only after the
\* account's hash (the loop of removeUser works on a list read earlier, while
\* other handlers link devices).  Requests that delete one device are not part
\* of this module.
DevicesDeletedAfterAccount ==
    [][\A u \in Ids : \A d \in userDevices[u] \cap (devices \ devices') : u \in deleted]_vars
=============================================================================
