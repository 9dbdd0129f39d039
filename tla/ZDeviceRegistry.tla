---------------------------- MODULE ZDeviceRegistry ----------------------------
(***************************************************************************)
(* Devices of zcloud: ZDeviceManager, the device operations of ZWorker, the *)
(* handlers of the device and device-API routes, the administrator's        *)
(* factory devices and the widgets that come and go with a device.          *)
(*                                                                         *)
(* As in ZUserAccounts, an action is one Redis command of one handler, and  *)
(* a handler that dies leaves what it had written.  ZDeviceInfo::Ptr is a   *)
(* shared pointer: dereferencing an empty one kills the process, with every *)
(* handler in it (Crash).                                                  *)
(*                                                                         *)
(* A sensor is an (address, type) pair with type >= 1; its hash             *)
(* address:<a>:type:<t>:vars holds addresskey, the id of its device, and    *)
(* the fields of its variable.  Left out, as nothing here reads them back:  *)
(* values, names and times, the vars:<d>:<ts> hashes, the last timestamp    *)
(* and the battery of a device.  The set that lists the vars:<d>:<ts> is    *)
(* there as whether it has a member.                                       *)
(***************************************************************************)
EXTENDS Integers, Sequences, FiniteSets

CONSTANTS
    Threads,      \* the HTTP server's worker threads
    Users,        \* users with a session and an apikey, for as long as we look
    Sensors,      \* (address, type) pairs
    Nil,          \* an empty reply, and the empty pointer
    NoAddress,    \* the empty address of a factory device
    MaxDevices,   \* bound on counter:id:devices
    LogLimit,     \* entries LTRIM keeps: 20
    MaxOver,      \* bound on the entries of a log past LogLimit
    MaxRequests   \* bound on the requests taken up

ASSUME RegistryAssumption ==
    /\ IsFiniteSet(Threads)
    /\ MaxDevices \in Nat /\ MaxOver \in Nat /\ MaxRequests \in Nat
    /\ LogLimit \in Nat \ {0}
    /\ Nil \notin Nat \cup Sensors \cup Users
    /\ NoAddress \notin Sensors \cup {Nil}

DeviceIds == 1..MaxDevices

\* ZDeviceInfo() starts with deviceId_ 0 and type 0; devices:0 is the hash a
\* handler writes that saves a profile it read from a hash just deleted.
Ids == 0..MaxDevices

VARIABLES
    nextDev,      \* counter:id:devices
    address,      \* devices:<d> address (with id and the profile's fields)
    keyed,        \* the ids whose devices:<d> has its apikey
    byApikey,     \* the ids found by their apikey in devices:lookup:apikey
    deviceSet,    \* devices:set
    factory,      \* factorydevices:set
    addressKey,   \* per sensor: addresskey, the device of the address
    varDevice,    \* per sensor: deviceId of its variable
    varList,      \* the devices whose set of value keys is not empty
    log,          \* per device: the list of values, the newest first
    userDevices,  \* users:<id>:devices
    widgets,      \* the devices with a widgets:<d>:data hash
    userWidgets,  \* users:<id>:widgets
    pc,           \* per thread: the command its handler sends next
    op,           \* per thread: the request it serves
    user,         \* per thread: the user of the request
    sensor,       \* per thread: the sensor of the request
    dev,          \* per thread: the device id the handler works on
    info,         \* per thread: deviceId() of the profile read, Nil for none
    held,         \* per thread: what else it read: an address, a variable's device
    requests,     \* requests taken up so far
    made,         \* history: the sensor (or NoAddress) a device was created for
    removed,      \* history: devices deleted after their creation was complete
    early,        \* history: devices a deletion reached while being created
    torn,         \* history: devices whose creation or deletion died half-way
    claimed,      \* history: factory devices whose claim ended after their creation
    lost,         \* history: per device, LPUSHes since the last LTRIM whose own
                  \* LTRIM is never sent
    crowded       \* history: see below

hashVars == <<address, keyed>>
indexVars == <<byApikey, deviceSet, factory>>
sensorVars == <<addressKey, varDevice>>
logVars == <<varList, log>>
userVars == <<userDevices, widgets, userWidgets>>
locals == <<op, user, sensor, dev, info, held, requests>>
historyVars == <<made, removed, early, torn, claimed, lost, crowded>>
store == <<nextDev, hashVars, indexVars, sensorVars, logVars, userVars>>
vars == <<store, pc, locals, historyVars>>

\* createDeviceInfo and createFactoryDeviceInfo after the id is drawn.
CreateSteps == {"save", "key", "byKey", "set", "link"}

Labels == CreateSteps \cup
    {"idle", "new", "nLen", "nRead", "var", "list", "push", "trim", "own",
     "widget", "widgets", "pLen", "pRead", "look", "lLen", "varRead",
     "cRead", "cSave", "cOwn", "cSrem", "uLen", "uMember", "uLen2", "uRead", "uSave",
     "dLen", "dRead", "dKey", "dDel", "dSrem", "dHdel", "dOwn", "dWidget",
     "dWidgets", "deref", "lDel"}

Operations ==
    {"none", "diy", "sensor", "push", "control", "factory", "claim", "update",
     "delete", "removeLog"}

\* HLEN devices:<d> is not 0.
Exists(d) == address[d] # Nil \/ d \in keyed

\* The profile and the apikey of d are both there.
Whole(d) == address[d] # Nil /\ d \in keyed

\* HMGET devices:<d>: deviceId() of the profile read.
ReadId(d) == IF address[d] = Nil THEN 0 ELSE d

At(t, label) == pc[t] = label
Goto(t, label) == pc' = [pc EXCEPT ![t] = label] /\ UNCHANGED locals

\* Some handler is creating d, and has not yet written all its keys.
Creating(d) == \E t \in Threads : dev[t] = d /\ pc[t] \in CreateSteps

\* Some handler has linked d to its user and is adding the widget.
Adorning(d) == \E t \in Threads : info[t] = d /\ pc[t] \in {"widget", "widgets"}

\* A thread takes a request up, and is done with it.
Start(t, o, label, u, s, d) ==
    /\ At(t, "idle")
    /\ requests < MaxRequests
    /\ requests' = requests + 1
    /\ pc' = [pc EXCEPT ![t] = label]
    /\ op' = [op EXCEPT ![t] = o]
    /\ user' = [user EXCEPT ![t] = u]
    /\ sensor' = [sensor EXCEPT ![t] = s]
    /\ dev' = [dev EXCEPT ![t] = d]
    /\ UNCHANGED <<info, held>>

Finish(t) ==
    /\ pc' = [pc EXCEPT ![t] = "idle"]
    /\ op' = [op EXCEPT ![t] = "none"]
    /\ user' = [user EXCEPT ![t] = Nil]
    /\ sensor' = [sensor EXCEPT ![t] = Nil]
    /\ dev' = [dev EXCEPT ![t] = 0]
    /\ info' = [info EXCEPT ![t] = Nil]
    /\ held' = [held EXCEPT ![t] = Nil]
    /\ UNCHANGED requests

GotoInfo(t, label, i) ==
    /\ pc' = [pc EXCEPT ![t] = label]
    /\ info' = [info EXCEPT ![t] = i]
    /\ UNCHANGED <<op, user, sensor, dev, held, requests>>

\* The devices whose creation or deletion, and the sensors whose work, stops
\* when the handlers of T die.
Interrupted(T) ==
    {dev[t] : t \in {r \in T : pc[r] \in CreateSteps \cup {"dWidget", "dWidgets"}}}
Disturbed(T) == {sensor[t] : t \in T} \ {Nil}

\* The device whose log the handler writes to.
Target(t) == IF op[t] = "diy" THEN dev[t] ELSE info[t]

\* The handlers between LPUSH and LTRIM on the log of d.
Trimming(d) == {t \in Threads : At(t, "trim") /\ Target(t) = d}

LostWith(T) == [d \in Ids |-> lost[d] + Cardinality(Trimming(d) \cap T)]

\* An empty pointer is dereferenced: the process dies with all its handlers,
\* and is started again on the same Redis.
Crash ==
    /\ pc' = [t \in Threads |-> "idle"]
    /\ op' = [t \in Threads |-> "none"]
    /\ user' = [t \in Threads |-> Nil]
    /\ sensor' = [t \in Threads |-> Nil]
    /\ dev' = [t \in Threads |-> 0]
    /\ info' = [t \in Threads |-> Nil]
    /\ held' = [t \in Threads |-> Nil]
    /\ torn' = torn \cup Interrupted(Threads)
    /\ lost' = LostWith(Threads)
    /\ crowded' = crowded \cup Disturbed(Threads)
    /\ UNCHANGED <<store, requests, made, removed, early, claimed>>

\* crowded: the sensors two handlers served at once, that a handler died
\* serving, or that a user added by hand a second time.
Serve(t, s) ==
    crowded' = crowded \cup {r \in {s} : \E q \in Threads \ {t} : sensor[q] = r}

Init ==
    /\ nextDev = 0
    /\ requests = 0
    /\ address = [d \in Ids |-> Nil]
    /\ keyed = {}
    /\ byApikey = {}
    /\ deviceSet = {}
    /\ factory = {}
    /\ addressKey = [s \in Sensors |-> Nil]
    /\ varDevice = [s \in Sensors |-> Nil]
    /\ varList = {}
    /\ log = [d \in Ids |-> <<>>]
    /\ userDevices = [u \in Users |-> {}]
    /\ widgets = {}
    /\ userWidgets = [u \in Users |-> {}]
    /\ pc = [t \in Threads |-> "idle"]
    /\ op = [t \in Threads |-> "none"]
    /\ user = [t \in Threads |-> Nil]
    /\ sensor = [t \in Threads |-> Nil]
    /\ dev = [t \in Threads |-> 0]
    /\ info = [t \in Threads |-> Nil]
    /\ held = [t \in Threads |-> Nil]
    /\ made = [d \in Ids |-> Nil]
    /\ removed = {}
    /\ early = {}
    /\ torn = {}
    /\ claimed = {}
    /\ lost = [d \in Ids |-> 0]
    /\ crowded = {}
-----------------------------------------------------------------------------
(* createDeviceInfo and createFactoryDeviceInfo, and what follows them.    *)

\* POST /user/device: addDIYDevice once the session is checked.
AddDIYDevice(t, u, s) ==
    /\ Start(t, "diy", "new", u, s, 0)
    /\ crowded' = crowded \cup {r \in {s} : addressKey[r] # Nil
                                  \/ \E q \in Threads : sensor[q] = r}
    /\ UNCHANGED <<store, made, removed, early, torn, claimed, lost>>

\* The administrator's request for factory devices.
AddFactoryDevices(t) ==
    /\ Start(t, "factory", "new", Nil, Nil, 0)
    /\ UNCHANGED <<store, historyVars>>

\* Mutant of NewDevice: the profile is saved before setDeviceId().
NewDeviceUnset(t) ==
    /\ At(t, "new")
    /\ nextDev < MaxDevices
    /\ nextDev' = nextDev + 1
    /\ Goto(t, "save")
    /\ made' = [made EXCEPT ![nextDev + 1] =
                  IF op[t] = "factory" THEN NoAddress ELSE sensor[t]]
    /\ UNCHANGED <<hashVars, indexVars, sensorVars, logVars, userVars, removed,
                   early, torn, claimed, lost, crowded>>

\* ZIdGenerator::getNext: INCR counter:id:devices.
NewDevice(t) ==
    /\ At(t, "new")
    /\ nextDev < MaxDevices
    /\ nextDev' = nextDev + 1
    /\ pc' = [pc EXCEPT ![t] = "save"]
    /\ dev' = [dev EXCEPT ![t] = nextDev + 1]
    /\ made' = [made EXCEPT ![nextDev + 1] =
                  IF op[t] = "factory" THEN NoAddress ELSE sensor[t]]
    /\ UNCHANGED <<hashVars, indexVars, sensorVars, logVars, userVars, op, user,
                   sensor, info, held, requests, removed, early, torn, claimed, lost, crowded>>

\* saveDeviceInfoToDB: HMSET devices:<d>.
SaveDevice(t) ==
    /\ At(t, "save")
    /\ address' = [address EXCEPT ![dev[t]] =
                     IF op[t] = "factory" THEN NoAddress ELSE sensor[t]]
    /\ Goto(t, "key")
    /\ UNCHANGED <<nextDev, keyed, indexVars, sensorVars, logVars, userVars, historyVars>>

\* HSET devices:<d> apikey.
SaveApikey(t) ==
    /\ At(t, "key")
    /\ keyed' = keyed \cup {dev[t]}
    /\ Goto(t, "byKey")
    /\ UNCHANGED <<nextDev, address, indexVars, sensorVars, logVars, userVars, historyVars>>

\* HSET devices:lookup:apikey.
PublishApikey(t) ==
    /\ At(t, "byKey")
    /\ byApikey' = byApikey \cup {dev[t]}
    /\ Goto(t, "set")
    /\ UNCHANGED <<nextDev, hashVars, deviceSet, factory, sensorVars, logVars,
                   userVars, historyVars>>

\* SADD devices:set.
ListDevice(t) ==
    /\ At(t, "set")
    /\ deviceSet' = deviceSet \cup {dev[t]}
    /\ Goto(t, "link")
    /\ UNCHANGED <<nextDev, hashVars, byApikey, factory, sensorVars, logVars,
                   userVars, historyVars>>

\* Mutant of LinkAddress: addresskey is not set.
LinkAddressForgotten(t) ==
    /\ At(t, "link")
    /\ op[t] # "factory"
    /\ Goto(t, "nLen")
    /\ UNCHANGED <<store, historyVars>>

\* createDeviceInfo: HSET address:<a>:type:<t>:vars addresskey.
LinkAddress(t) ==
    /\ At(t, "link")
    /\ op[t] # "factory"
    /\ addressKey' = [addressKey EXCEPT ![sensor[t]] = dev[t]]
    /\ Goto(t, "nLen")
    /\ UNCHANGED <<nextDev, hashVars, indexVars, varDevice, logVars, userVars, historyVars>>

\* createFactoryDeviceInfo: SADD factorydevices:set.
ListFactory(t) ==
    /\ At(t, "link")
    /\ op[t] = "factory"
    /\ factory' = factory \cup {dev[t]}
    /\ Goto(t, "nLen")
    /\ UNCHANGED <<nextDev, hashVars, byApikey, deviceSet, sensorVars, logVars,
                   userVars, historyVars>>

\* getDeviceInfo of the device just created: HLEN.  The factory handler
\* dereferences an empty answer at once, the others after more commands.
NewDeviceExists(t) ==
    /\ At(t, "nLen")
    /\ IF Exists(dev[t]) THEN Goto(t, "nRead") /\ UNCHANGED <<store, historyVars>>
       ELSE IF op[t] = "factory" THEN Crash
       ELSE GotoInfo(t, "var", Nil) /\ UNCHANGED <<store, historyVars>>

\* HMGET; the factory handler then goes on to its next device or answers.
NewDeviceRead(t) ==
    /\ At(t, "nRead")
    /\ IF op[t] # "factory" THEN GotoInfo(t, "var", ReadId(dev[t]))
       ELSE Goto(t, "new") \/ Finish(t)
    /\ UNCHANGED <<store, historyVars>>

\* Mutant of SaveVarInfo: the creation takes the id of the profile it read.
SaveVarInfoOfProfile(t) ==
    /\ At(t, "var")
    /\ varDevice' = [varDevice EXCEPT ![sensor[t]] =
                       IF op[t] \in {"diy", "sensor"} THEN info[t] ELSE held[t]]
    /\ Goto(t, IF op[t] = "sensor" THEN "own" ELSE "list")
    /\ UNCHANGED <<nextDev, hashVars, indexVars, addressKey, logVars, userVars, historyVars>>

\* saveVarInfoToDB: HMSET address:<a>:type:<t>:vars, by the two creations and
\* by updateStatusDevice, which writes back the variable it read.
SaveVarInfo(t) ==
    /\ At(t, "var")
    /\ varDevice' = [varDevice EXCEPT ![sensor[t]] =
                       IF op[t] \in {"diy", "sensor"} THEN dev[t] ELSE held[t]]
    /\ Goto(t, IF op[t] = "sensor" THEN "own" ELSE "list")
    /\ UNCHANGED <<nextDev, hashVars, indexVars, addressKey, logVars, userVars, historyVars>>

\* SADD users:<id>:devices with deviceInfo->deviceId().
LinkDevice(t) ==
    /\ At(t, "own")
    /\ IF info[t] = Nil THEN Crash
       ELSE /\ userDevices' = [userDevices EXCEPT ![user[t]] = @ \cup {info[t]}]
            /\ Goto(t, "widget")
            /\ UNCHANGED <<nextDev, hashVars, indexVars, sensorVars, logVars, widgets,
                           userWidgets, historyVars>>

\* addWidget: HMSET widgets:<d>:data.
SaveWidget(t) ==
    /\ At(t, "widget")
    /\ widgets' = widgets \cup {info[t]}
    /\ Goto(t, "widgets")
    /\ UNCHANGED <<nextDev, hashVars, indexVars, sensorVars, logVars, userDevices,
                   userWidgets, historyVars>>

\* SADD users:<id>:widgets.  addDIYDevice ends here; a push goes on to
\* updateStatusDevice with the device it has created.
ListWidget(t) ==
    /\ At(t, "widgets")
    /\ userWidgets' = [userWidgets EXCEPT ![user[t]] = @ \cup {info[t]}]
    /\ IF op[t] = "diy" THEN Finish(t)
       ELSE /\ pc' = [pc EXCEPT ![t] = "look"]
            /\ op' = [op EXCEPT ![t] = "push"]
            /\ UNCHANGED <<user, sensor, dev, info, held, requests>>
    /\ UNCHANGED <<nextDev, hashVars, indexVars, sensorVars, logVars, userDevices,
                   widgets, historyVars>>
-----------------------------------------------------------------------------
(* A sensor's message: handleRegisterDevice, handleUpdateStatusDevice and  *)
(* handleDevicePushData ("push"), handleDeviceControl ("control").          *)

\* Mutant of GetSensorDevice: the hash is looked up without the type.
GetDeviceAnyType(t, u, s, o) ==
    /\ \E r \in Sensors :
         Start(t, o, "pLen", u, s, IF addressKey[r] = Nil THEN 0 ELSE addressKey[r])
    /\ Serve(t, s)
    /\ UNCHANGED <<store, made, removed, early, torn, claimed, lost>>

\* HGET addresskey, 0 when there is none.
GetSensorDevice(t, u, s, o) ==
    /\ Start(t, o, "pLen", u, s, IF addressKey[s] = Nil THEN 0 ELSE addressKey[s])
    /\ Serve(t, s)
    /\ UNCHANGED <<store, made, removed, early, torn, claimed, lost>>

\* POST /user/device/api/register, /user/device/api/update, /user/device/data/push.
Push(t, u, s) == GetSensorDevice(t, u, s, "push")

\* POST /user/device/control.
Control(t, u, s) == GetSensorDevice(t, u, s, "control")

\* HLEN: a message for an unknown device creates it, a control request ends.
PushExists(t) ==
    /\ At(t, "pLen")
    /\ IF Exists(dev[t]) THEN Goto(t, "pRead")
       ELSE IF op[t] = "control" THEN Finish(t)
       ELSE /\ pc' = [pc EXCEPT ![t] = "new"]
            /\ op' = [op EXCEPT ![t] = "sensor"]
            /\ UNCHANGED <<user, sensor, dev, info, held, requests>>
    /\ UNCHANGED <<store, historyVars>>

\* HMGET: the device's id and type go to updateStatusDevice.
PushRead(t) ==
    /\ At(t, "pRead")
    /\ GotoInfo(t, "look", ReadId(dev[t]))
    /\ UNCHANGED <<store, historyVars>>

\* updateStatusDevice: HGET addresskey under the address of the request and the
\* type of the profile; an empty profile has type 0, under which there is none.
StatusLookup(t) ==
    /\ At(t, "look")
    /\ pc' = [pc EXCEPT ![t] = "lLen"]
    /\ dev' = [dev EXCEPT ![t] =
                 IF info[t] = 0 \/ addressKey[sensor[t]] = Nil THEN 0
                 ELSE addressKey[sensor[t]]]
    /\ UNCHANGED <<op, user, sensor, info, held, requests, store, historyVars>>

\* HLEN of the device found: Device_NotFound.
StatusExists(t) ==
    /\ At(t, "lLen")
    /\ IF Exists(dev[t]) THEN Goto(t, "varRead") ELSE Finish(t)
    /\ UNCHANGED <<store, historyVars>>

\* getVarInfo: the hash under type 0 is empty and gives an empty pointer; one
\* with addresskey alone gives a ZVarInfo whose deviceId_ was never set.
ReadVarInfo(t) ==
    /\ At(t, "varRead")
    /\ IF info[t] = 0 THEN Crash
       ELSE /\ pc' = [pc EXCEPT ![t] = "var"]
            /\ \E d \in Ids :
                 /\ varDevice[sensor[t]] # Nil => d = varDevice[sensor[t]]
                 /\ held' = [held EXCEPT ![t] = d]
            /\ UNCHANGED <<op, user, sensor, dev, info, requests, store, historyVars>>

\* saveVarValueToDB: SADD vars:<d>:list.
ListValue(t) ==
    /\ At(t, "list")
    /\ varList' = varList \cup {Target(t)}
    /\ Goto(t, "push")
    /\ UNCHANGED <<nextDev, hashVars, indexVars, sensorVars, log, userVars, historyVars>>

\* LPUSH vars:<d>:array.
PushValue(t) ==
    /\ At(t, "push")
    /\ Len(log[Target(t)]) < LogLimit + MaxOver
    /\ log' = [log EXCEPT ![Target(t)] = <<[from |-> sensor[t], old |-> FALSE]>> \o @]
    /\ Goto(t, "trim")
    /\ UNCHANGED <<nextDev, hashVars, indexVars, sensorVars, varList, userVars, historyVars>>

\* Mutant of TrimLog: the last index is LogLimit.
TrimLogOneMore(t) ==
    /\ At(t, "trim")
    /\ log' = [log EXCEPT ![Target(t)] =
                 SubSeq(@, 1, IF Len(@) < LogLimit + 1 THEN Len(@) ELSE LogLimit + 1)]
    /\ lost' = [lost EXCEPT ![Target(t)] = 0]
    /\ IF op[t] = "diy" THEN Goto(t, "own") ELSE Finish(t)
    /\ UNCHANGED <<nextDev, hashVars, indexVars, sensorVars, varList, userVars,
                   made, removed, early, torn, claimed, crowded>>

\* LTRIM vars:<d>:array 0 19.
TrimLog(t) ==
    /\ At(t, "trim")
    /\ log' = [log EXCEPT ![Target(t)] =
                 SubSeq(@, 1, IF Len(@) < LogLimit THEN Len(@) ELSE LogLimit)]
    /\ lost' = [lost EXCEPT ![Target(t)] = 0]
    /\ IF op[t] = "diy" THEN Goto(t, "own") ELSE Finish(t)
    /\ UNCHANGED <<nextDev, hashVars, indexVars, sensorVars, varList, userVars,
                   made, removed, early, torn, claimed, crowded>>
-----------------------------------------------------------------------------
(* addIndieDevice and updateDevice: a profile is read, and written back    *)
(* under the id it holds.                                                  *)

\* getDeviceInfo(deviceId): HLEN.
Claim(t, u, d) ==
    /\ Exists(d)
    /\ Start(t, "claim", "cRead", u, Nil, d)
    /\ UNCHANGED <<store, historyVars>>

\* A thread keeps the id and the address of the profile it reads.
ReadProfile(t, label) ==
    /\ pc' = [pc EXCEPT ![t] = label]
    /\ info' = [info EXCEPT ![t] = ReadId(dev[t])]
    /\ held' = [held EXCEPT ![t] =
                  IF address[dev[t]] = Nil THEN NoAddress ELSE address[dev[t]]]
    /\ UNCHANGED <<op, user, sensor, dev, requests>>

\* HMGET, and the apikey read is compared with the request's, which may be
\* empty as the one of a hash without apikey is.
ClaimRead(t) ==
    /\ At(t, "cRead")
    /\ ReadProfile(t, "cSave") \/ Finish(t)
    /\ UNCHANGED <<store, historyVars>>

\* Mutant of UpdateDeviceInfo: the apikey is saved with the profile.
UpdateDeviceInfoKey(t) ==
    /\ pc[t] \in {"cSave", "uSave"}
    /\ address' = [address EXCEPT ![info[t]] = held[t]]
    /\ keyed' = keyed \cup {info[t]}
    /\ IF At(t, "cSave") THEN Goto(t, "cOwn") ELSE Finish(t)
    /\ UNCHANGED <<nextDev, indexVars, sensorVars, logVars, userVars, historyVars>>

\* updateDeviceInfo: HMSET devices:<deviceId()>, by a claim and by an update.
UpdateDeviceInfo(t) ==
    /\ pc[t] \in {"cSave", "uSave"}
    /\ address' = [address EXCEPT ![info[t]] = held[t]]
    /\ IF At(t, "cSave") THEN Goto(t, "cOwn") ELSE Finish(t)
    /\ UNCHANGED <<nextDev, keyed, indexVars, sensorVars, logVars, userVars, historyVars>>

\* SADD users:<id>:devices.
ClaimLink(t) ==
    /\ At(t, "cOwn")
    /\ userDevices' = [userDevices EXCEPT ![user[t]] = @ \cup {info[t]}]
    /\ Goto(t, "cSrem")
    /\ UNCHANGED <<nextDev, hashVars, indexVars, sensorVars, logVars, widgets,
                   userWidgets, historyVars>>

\* Mutant of ClaimUnlist: SREM of the id instead of the device's key.
ClaimUnlistId(t) ==
    /\ At(t, "cSrem")
    /\ claimed' = IF Creating(info[t]) THEN claimed ELSE claimed \cup {info[t]}
    /\ Finish(t)
    /\ UNCHANGED <<store, made, removed, early, torn, lost, crowded>>

\* SREM factorydevices:set.
ClaimUnlist(t) ==
    /\ At(t, "cSrem")
    /\ factory' = factory \ {info[t]}
    /\ claimed' = IF Creating(info[t]) THEN claimed ELSE claimed \cup {info[t]}
    /\ Finish(t)
    /\ UNCHANGED <<nextDev, hashVars, byApikey, deviceSet, sensorVars, logVars,
                   userVars, made, removed, early, torn, lost, crowded>>

\* handleUpdateDeviceWithId: getDIYDevice looks the device up among the user's,
Update(t, u, d) ==
    /\ d \in userDevices[u]
    /\ Start(t, "update", "uLen", u, Nil, d)
    /\ UNCHANGED <<store, historyVars>>

\* HLEN, for getDIYDevice and then again for updateDevice,
UpdateExists(t) ==
    /\ pc[t] \in {"uLen", "uLen2"}
    /\ IF ~Exists(dev[t]) THEN Finish(t)
       ELSE Goto(t, IF At(t, "uLen") THEN "uMember" ELSE "uRead")
    /\ UNCHANGED <<store, historyVars>>

\* SISMEMBER users:<id>:devices of updateDevice,
UpdateMember(t) ==
    /\ At(t, "uMember")
    /\ IF dev[t] \in userDevices[user[t]] THEN Goto(t, "uLen2") ELSE Finish(t)
    /\ UNCHANGED <<store, historyVars>>

\* and its HMGET.
UpdateRead(t) ==
    /\ At(t, "uRead")
    /\ ReadProfile(t, "uSave")
    /\ UNCHANGED <<store, historyVars>>
-----------------------------------------------------------------------------
(* deleteDevice, which does not ask whose device it is, and removeLog.     *)

\* getDeviceInfo: HLEN; the pointer is kept for the event at the end.
Delete(t, u, d) ==
    /\ At(t, "idle")
    /\ requests < MaxRequests
    /\ requests' = requests + 1
    /\ pc' = [pc EXCEPT ![t] = "dLen"]
    /\ op' = [op EXCEPT ![t] = "delete"]
    /\ user' = [user EXCEPT ![t] = u]
    /\ dev' = [dev EXCEPT ![t] = d]
    /\ info' = [info EXCEPT ![t] = IF Exists(d) THEN d ELSE Nil]
    /\ UNCHANGED <<sensor, held, store, historyVars>>

\* removeDeviceInfo: HLEN; a device that is not there is left as it is.
DeleteExists(t) ==
    /\ At(t, "dLen")
    /\ Goto(t, IF Exists(dev[t]) THEN "dKey" ELSE "dOwn")
    /\ UNCHANGED <<store, historyVars>>

\* Mutant of DeleteReadApikey: SREM devices:set comes before DEL.
DeleteReadApikeyUnlists(t) ==
    /\ At(t, "dKey")
    /\ pc' = [pc EXCEPT ![t] = "dDel"]
    /\ held' = [held EXCEPT ![t] = IF dev[t] \in keyed THEN dev[t] ELSE Nil]
    /\ deviceSet' = deviceSet \ {dev[t]}
    /\ UNCHANGED <<op, user, sensor, dev, info, requests, nextDev, hashVars, byApikey,
                   factory, sensorVars, logVars, userVars, historyVars>>

\* HGET devices:<d> apikey.
DeleteReadApikey(t) ==
    /\ At(t, "dKey")
    /\ pc' = [pc EXCEPT ![t] = "dDel"]
    /\ held' = [held EXCEPT ![t] = IF dev[t] \in keyed THEN dev[t] ELSE Nil]
    /\ UNCHANGED <<op, user, sensor, dev, info, requests, store, historyVars>>

\* DEL devices:<d>.
DeleteHash(t) ==
    /\ At(t, "dDel")
    /\ address' = [address EXCEPT ![dev[t]] = Nil]
    /\ keyed' = keyed \ {dev[t]}
    /\ removed' = IF Creating(dev[t]) THEN removed ELSE removed \cup {dev[t]}
    /\ early' = IF Creating(dev[t]) THEN early \cup {dev[t]} ELSE early
    /\ Goto(t, "dSrem")
    /\ UNCHANGED <<nextDev, indexVars, sensorVars, logVars, userVars, made, torn,
                   claimed, lost, crowded>>

\* SREM devices:set.
UnlistDevice(t) ==
    /\ At(t, "dSrem")
    /\ deviceSet' = deviceSet \ {dev[t]}
    /\ Goto(t, "dHdel")
    /\ UNCHANGED <<nextDev, hashVars, byApikey, factory, sensorVars, logVars,
                   userVars, historyVars>>

\* HDEL devices:lookup:apikey of the key read.
ForgetApikey(t) ==
    /\ At(t, "dHdel")
    /\ byApikey' = byApikey \ {held[t]}
    /\ Goto(t, "dOwn")
    /\ UNCHANGED <<nextDev, hashVars, deviceSet, factory, sensorVars, logVars,
                   userVars, historyVars>>

\* SREM users:<id>:devices.  devices:<d>:vars, read next, is never written.
UnlinkDevice(t) ==
    /\ At(t, "dOwn")
    /\ userDevices' = [userDevices EXCEPT ![user[t]] = @ \ {dev[t]}]
    /\ early' = IF Adorning(dev[t]) THEN early \cup {dev[t]} ELSE early
    /\ Goto(t, "dWidget")
    /\ UNCHANGED <<nextDev, hashVars, indexVars, sensorVars, logVars, widgets,
                   userWidgets, made, removed, torn, claimed, lost, crowded>>

\* removeWidget: DEL widgets:<d>:data.
DeleteWidget(t) ==
    /\ At(t, "dWidget")
    /\ widgets' = widgets \ {dev[t]}
    /\ Goto(t, "dWidgets")
    /\ UNCHANGED <<nextDev, hashVars, indexVars, sensorVars, logVars, userDevices,
                   userWidgets, historyVars>>

\* Mutant of UnlistWidget: only the widget's hash is deleted.
UnlistWidgetForgotten(t) ==
    /\ At(t, "dWidgets")
    /\ Goto(t, "deref")
    /\ UNCHANGED <<store, historyVars>>

\* SREM users:<id>:widgets.
UnlistWidget(t) ==
    /\ At(t, "dWidgets")
    /\ userWidgets' = [userWidgets EXCEPT ![user[t]] = @ \ {dev[t]}]
    /\ Goto(t, "deref")
    /\ UNCHANGED <<nextDev, hashVars, indexVars, sensorVars, logVars, userDevices,
                   widgets, historyVars>>

\* deviceInfo->apiKey() for the event.
DeletedEvent(t) ==
    /\ At(t, "deref")
    /\ IF info[t] = Nil THEN Crash ELSE Finish(t) /\ UNCHANGED <<store, historyVars>>

\* removeVarValue: SMEMBERS vars:<d>:list, for the DELs of the hashes it lists,
RemoveLog(t, u, d) ==
    /\ Start(t, "removeLog", "lDel", u, Nil, d)
    /\ UNCHANGED <<store, historyVars>>

\* and DEL vars:<d>:list.  What the log holds is from now on an old value.
DeleteValueList(t) ==
    /\ At(t, "lDel")
    /\ varList' = varList \ {dev[t]}
    /\ log' = [log EXCEPT ![dev[t]] = [i \in DOMAIN @ |-> [@[i] EXCEPT !.old = TRUE]]]
    /\ Finish(t)
    /\ UNCHANGED <<nextDev, hashVars, indexVars, sensorVars, userVars, historyVars>>
-----------------------------------------------------------------------------
\* A command throws, or its process dies with this handler only: the writes
\* of the handler so far stay.
Abort(t) ==
    /\ ~At(t, "idle")
    /\ Finish(t)
    /\ torn' = torn \cup Interrupted({t})
    /\ lost' = LostWith({t})
    /\ crowded' = crowded \cup Disturbed({t})
    /\ UNCHANGED <<store, made, removed, early, claimed>>

Request(t) ==
    \/ AddFactoryDevices(t)
    \/ \E u \in Users, s \in Sensors :
         AddDIYDevice(t, u, s) \/ Push(t, u, s) \/ Control(t, u, s)
    \/ \E u \in Users, d \in Ids :
         Claim(t, u, d) \/ Update(t, u, d) \/ Delete(t, u, d) \/ RemoveLog(t, u, d)

CreateStep(t) ==
    \/ NewDevice(t) \/ SaveDevice(t) \/ SaveApikey(t) \/ PublishApikey(t)
    \/ ListDevice(t) \/ LinkAddress(t) \/ ListFactory(t)
    \/ NewDeviceExists(t) \/ NewDeviceRead(t)

LinkStep(t) == LinkDevice(t) \/ SaveWidget(t) \/ ListWidget(t)

PushStep(t) ==
    \/ PushExists(t) \/ PushRead(t) \/ StatusLookup(t) \/ StatusExists(t)
    \/ ReadVarInfo(t) \/ SaveVarInfo(t) \/ ListValue(t) \/ PushValue(t) \/ TrimLog(t)

ProfileStep(t) ==
    \/ ClaimRead(t) \/ UpdateDeviceInfo(t) \/ ClaimLink(t) \/ ClaimUnlist(t)
    \/ UpdateExists(t) \/ UpdateMember(t) \/ UpdateRead(t)

DeleteStep(t) ==
    \/ DeleteExists(t) \/ DeleteReadApikey(t) \/ DeleteHash(t) \/ UnlistDevice(t)
    \/ ForgetApikey(t) \/ UnlinkDevice(t) \/ DeleteWidget(t) \/ UnlistWidget(t)
    \/ DeletedEvent(t) \/ DeleteValueList(t)

Step(t) == CreateStep(t) \/ LinkStep(t) \/ PushStep(t) \/ ProfileStep(t) \/ DeleteStep(t)

Next == \E t \in Threads : Request(t) \/ Step(t) \/ Abort(t)

Spec == Init /\ [][Next]_vars
-----------------------------------------------------------------------------
\* The type invariant: every key and every handler holds what it can hold.
TypeOK ==
    /\ nextDev \in 0..MaxDevices
    /\ requests \in 0..MaxRequests
    /\ address \in [Ids -> Sensors \cup {NoAddress, Nil}]
    /\ keyed \subseteq DeviceIds
    /\ byApikey \subseteq DeviceIds
    /\ deviceSet \subseteq DeviceIds
    /\ factory \subseteq DeviceIds
    /\ addressKey \in [Sensors -> DeviceIds \cup {Nil}]
    /\ varDevice \in [Sensors -> Ids \cup {Nil}]
    /\ varList \subseteq DeviceIds
    /\ log \in [Ids -> Seq([from : Sensors, old : BOOLEAN])]
    /\ userDevices \in [Users -> SUBSET Ids]
    /\ widgets \subseteq Ids
    /\ userWidgets \in [Users -> SUBSET Ids]
    /\ pc \in [Threads -> Labels]
    /\ op \in [Threads -> Operations]
    /\ user \in [Threads -> Users \cup {Nil}]
    /\ sensor \in [Threads -> Sensors \cup {Nil}]
    /\ dev \in [Threads -> Ids]
    /\ info \in [Threads -> Ids \cup {Nil}]
    /\ held \in [Threads -> Ids \cup Sensors \cup {NoAddress, Nil}]
    /\ made \in [Ids -> Sensors \cup {NoAddress, Nil}]
    /\ removed \subseteq Ids /\ early \subseteq Ids /\ torn \subseteq Ids
    /\ claimed \subseteq Ids
    /\ lost \in [Ids -> Nat]
    /\ crowded \subseteq Sensors

\* A device with an apikey is found by it and listed, unless its creation is
\* still running or died, or a deletion had reached it before (ids are
\* consecutive, so a request can name a device that is being created).
DeviceIndexed ==
    \A d \in keyed :
        \/ d \in byApikey /\ d \in deviceSet
        \/ d \in torn \cup early
        \/ Creating(d)

\* updateDeviceInfo writes a profile back under an id another handler may have
\* deleted meanwhile: a device deleted after its creation never has its apikey
\* again, so it cannot come back whole.
DeletedNeverWhole == removed \cap keyed = {}

\* getSensorDevice and addSensorDevice are a check and an act with a dozen
\* commands between: as long as no two handlers serve a sensor at once (and
\* none dies serving it), it never has two devices, whatever handlers of other
\* sensors, claims, updates and deletions do in between.
OneDevicePerSensor ==
    \A s \in Sensors \ crowded :
        \A d, e \in DeviceIds :
            Whole(d) /\ Whole(e) /\ address[d] = s /\ address[e] = s => d = e

\* updateStatusDevice writes back a variable it read many commands before:
\* between the messages of a sensor that are not served at once, the variable
\* is that of the device its address leads to.
VarOfCurrentDevice ==
    \A s \in Sensors \ crowded :
        (\A t \in Threads : sensor[t] # s) => varDevice[s] = addressKey[s]

\* A value reaches the log of a device made for the sensor that sent it: the
\* id updateStatusDevice logs under was read several commands before, and the
\* sensor may have another device by then, but never another sensor's.
ValueInOwnLog ==
    \A d \in Ids : \A i \in DOMAIN log[d] : made[d] = log[d][i].from

\* LPUSH and LTRIM 0 19 (ZDeviceManager.cpp:130) are two commands: a log is
\* longer than its limit by at most one entry for each handler between the
\* two, and for each that died there since the last LTRIM.
LogBounded ==
    \A d \in Ids : Len(log[d]) <= LogLimit + Cardinality(Trimming(d)) + lost[d]

\* A factory device whose claim ended, and began or ended after its creation,
\* is never offered again.
ClaimedLeavesFactory == claimed \cap factory = {}

\* A widget on a user's page is of a device among his own: the two sets are
\* written by creations and deletions with other commands between, and only a
\* deletion that runs, that died, or that met the device's creation parts them.
WidgetOfOwnDevice ==
    \A u \in Users : \A d \in userWidgets[u] \ userDevices[u] :
        \/ d \in early \cup torn
        \/ \E t \in Threads : /\ user[t] = u /\ dev[t] = d
                            /\ pc[t] \in {"dWidget", "dWidgets"}

\* "Delete the log that records the history of the device's status updates"
\* (ZDeviceManager.cpp:416, in Vietnamese): what getLog answers (nothing while
\* the set of value keys is empty) has no value from before the removal.
LogRemoved ==
    \A d \in varList : \A i \in DOMAIN log[d] : ~log[d][i].old
=============================================================================
