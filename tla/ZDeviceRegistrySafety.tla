------------------------- MODULE ZDeviceRegistrySafety -------------------------
(***************************************************************************)
(* Safety of ZDeviceRegistry for any finite set of threads and any users,    *)
(* sensors and bounds.                                                     *)
(***************************************************************************)
EXTENDS ZDeviceRegistryProofs

-----------------------------------------------------------------------------
(***************************************************************************)
(* Ids.  A device deleted after its creation stays deleted, and a claimed    *)
(* one leaves the factory.                                                 *)
(***************************************************************************)

\* The handlers that are creating a device.
Creators == {t \in Threads : pc[t] \in CreateSteps}

\* Only ids the counter has given out are in use.
Drawn ==
    /\ \A d \in Ids : Exists(d) => d <= nextDev
    /\ \A d \in removed \cup claimed : d <= nextDev
    /\ \A t \in Threads :
        /\ pc[t] \in CreateSteps \cup {"dKey", "dDel"} => dev[t] <= nextDev
        /\ pc[t] \in SaveLabels \cup {"cOwn", "cSrem"} => info[t] <= nextDev

\* A device is created by one handler, and counts as removed or claimed only after that.
OneCreator ==
    /\ \A t \in Creators : dev[t] \notin removed \cup claimed
    /\ \A t, r \in Creators : t # r => dev[t] # dev[r]

IdInv == Drawn /\ OneCreator /\ DeletedNeverWhole /\ ClaimedLeavesFactory

\* At the start no id is in use,
LEMMA IdInit == Init => IdInv
  BY RegistryAssumption
     DEF Init, IdInv, Drawn, OneCreator, DeletedNeverWhole, ClaimedLeavesFactory, Creators,
         Exists, Ids, CreateSteps, SaveLabels

\* What most steps leave alone.
Quiet(t) ==
    /\ UNCHANGED <<nextDev, keyed, address, removed, claimed>> /\ factory' \subseteq factory
    /\ pc'[t] \in CreateSteps => pc[t] \in CreateSteps /\ dev'[t] = dev[t]
    /\ pc'[t] \in {"dKey", "dDel"} => dev'[t] = dev[t] /\ (pc[t] = "dKey" \/ Exists(dev[t]))
    /\ pc'[t] \in SaveLabels => info'[t] = ReadId(dev[t])
    /\ pc'[t] \in {"cOwn", "cSrem"} => pc[t] = "cOwn" /\ info'[t] = info[t]

\* A step that leaves the hashes and the counter alone keeps the invariant.
LEMMA QuietStep ==
  ASSUME TypeInv, IdInv, NEW t \in Threads, Moves(t), Quiet(t)
  PROVE  IdInv'
  <1>. USE DEF IdInv, Quiet
  <1>1. /\ nextDev \in Nat /\ dev[t] \in Nat /\ dev[t] \in Ids
    BY RegistryAssumption DEF TypeInv, StoreOK, LocalsOK, HandlersOK, Ids
  <1>2. Creators' \subseteq Creators /\ \A r \in Creators' : dev'[r] = dev[r]
    BY DEF Creators, Moves, Keeps
  <1>3. OneCreator' /\ DeletedNeverWhole' /\ ClaimedLeavesFactory'
    BY <1>2 DEF OneCreator, DeletedNeverWhole, ClaimedLeavesFactory
  <1>4. ReadId(dev[t]) <= nextDev
    BY <1>1 DEF ReadId, Drawn, Exists
  <1>5. ASSUME NEW r \in Threads, r # t
        PROVE  /\ pc'[r] \in CreateSteps \cup {"dKey", "dDel"} => dev'[r] <= nextDev
               /\ pc'[r] \in SaveLabels \cup {"cOwn", "cSrem"} => info'[r] <= nextDev
    BY <1>5 DEF Moves, Keeps, Drawn
  <1>6. /\ pc'[t] \in CreateSteps \cup {"dKey", "dDel"} => dev'[t] <= nextDev
        /\ pc'[t] \in SaveLabels \cup {"cOwn", "cSrem"} => info'[t] <= nextDev
    BY <1>1, <1>4 DEF Drawn
  <1>. QED
    BY <1>3, <1>5, <1>6 DEF Drawn, Exists

\* Which steps those are.
LEMMA QuietSteps ==
  ASSUME TypeInv, NEW t \in Threads, ~Crash,
         \/ Request(t) \/ Abort(t) \/ PublishApikey(t) \/ ListDevice(t) \/ LinkAddress(t)
         \/ NewDeviceExists(t) \/ NewDeviceRead(t) \/ PushStep(t) \/ LinkStep(t)
         \/ (ProfileStep(t) /\ ~UpdateDeviceInfo(t) /\ ~ClaimUnlist(t))
         \/ (DeleteStep(t) /\ ~DeleteHash(t))
  PROVE  Quiet(t)
  <1>. USE DEF Quiet, CreateSteps, SaveLabels, store, hashVars, indexVars, sensorVars, logVars,
               userVars, locals, historyVars, At, Goto, Start, Finish, GotoInfo, ReadProfile,
               TypeInv, LocalsOK, HandlersOK
  <1>1. CASE Abort(t)
    BY <1>1 DEF Abort
  <1>2. CASE Request(t)
    <2>1. UNCHANGED <<store, removed, claimed>>
          /\ pc'[t] \in {"new", "pLen", "cRead", "uLen", "dLen", "lDel"}
      BY <1>2
         DEF Request, AddFactoryDevices, AddDIYDevice, Push, Control, GetSensorDevice, Claim,
             Update, Delete, RemoveLog
    <2>. QED
      BY <2>1
  <1>3. CASE PublishApikey(t) \/ ListDevice(t) \/ LinkAddress(t)
    BY <1>3 DEF PublishApikey, ListDevice, LinkAddress
  <1>4. CASE NewDeviceExists(t) \/ NewDeviceRead(t)
    BY <1>4 DEF NewDeviceExists, NewDeviceRead
  <1>5. CASE LinkStep(t)
    BY <1>5 DEF LinkStep, LinkDevice, SaveWidget, ListWidget
  <1>6. CASE PushExists(t) \/ PushRead(t) \/ StatusLookup(t) \/ StatusExists(t) \/ ReadVarInfo(t)
    BY <1>6 DEF PushExists, PushRead, StatusLookup, StatusExists, ReadVarInfo
  <1>7. CASE SaveVarInfo(t) \/ ListValue(t) \/ PushValue(t) \/ TrimLog(t)
    BY <1>7 DEF SaveVarInfo, ListValue, PushValue, TrimLog
  <1>8. CASE ClaimRead(t) \/ ClaimLink(t)
    BY <1>8 DEF ClaimRead, ClaimLink
  <1>9. CASE UpdateExists(t) \/ UpdateMember(t) \/ UpdateRead(t)
    BY <1>9 DEF UpdateExists, UpdateMember, UpdateRead
  <1>10. CASE DeleteExists(t) \/ DeleteReadApikey(t) \/ UnlistDevice(t) \/ ForgetApikey(t)
    BY <1>10 DEF DeleteExists, DeleteReadApikey, UnlistDevice, ForgetApikey
  <1>11. CASE \/ UnlinkDevice(t) \/ DeleteWidget(t) \/ UnlistWidget(t) \/ DeletedEvent(t)
              \/ DeleteValueList(t)
    BY <1>11 DEF UnlinkDevice, DeleteWidget, UnlistWidget, DeletedEvent, DeleteValueList
  <1>. HIDE DEF Quiet, CreateSteps, SaveLabels, store, hashVars, indexVars, sensorVars, logVars,
               userVars, locals, historyVars, At, Goto, Start, Finish, GotoInfo, ReadProfile,
               TypeInv, LocalsOK, HandlersOK
  <1>. QED
    BY <1>1, <1>2, <1>3, <1>4, <1>5, <1>6, <1>7, <1>8, <1>9, <1>10, <1>11
       DEF PushStep, ProfileStep, DeleteStep

\* The process ends, and its handlers with it.
LEMMA CrashId ==
  ASSUME IdInv, Crash
  PROVE  IdInv'
  BY RegistryAssumption
     DEF Crash, IdInv, Drawn, OneCreator, DeletedNeverWhole, ClaimedLeavesFactory, Creators,
         Exists, Ids, CreateSteps, SaveLabels, store, hashVars, indexVars

\* A creation draws an id above every id in use.
LEMMA NewDeviceId ==
  ASSUME TypeInv, IdInv, NEW t \in Threads, NewDevice(t), Moves(t)
  PROVE  IdInv'
  <1>. USE DEF IdInv, Moves, Keeps
  <1>1. /\ nextDev' = nextDev + 1 /\ pc[t] = "new" /\ pc'[t] = "save" /\ dev'[t] = nextDev + 1
        /\ UNCHANGED <<keyed, address, removed, claimed, factory>>
    BY DEF NewDevice, At, TypeInv, LocalsOK, HandlersOK, hashVars, indexVars
  <1>2. nextDev \in Nat /\ Ids \subseteq Nat /\ removed \cup claimed \subseteq Ids
    BY RegistryAssumption DEF TypeInv, StoreOK, HistoryOK, Ids
  <1>3. \A r \in Threads : dev[r] \in Nat /\ info[r] \in Nat \cup {Nil}
    BY <1>2 DEF TypeInv, LocalsOK, HandlersOK
  <1>4. \A r \in Threads : pc[r] \in SaveLabels \cup {"cOwn", "cSrem"} => info[r] \in Nat
    BY <1>2 DEF TypeInv, LocalsOK, LocalOK, Fits
  <1>5. Creators' = Creators \cup {t} /\ t \notin Creators
    BY <1>1 DEF Creators, CreateSteps
  <1>6. Drawn'
    <2>1. ASSUME NEW r \in Threads
          PROVE  /\ pc'[r] \in CreateSteps \cup {"dKey", "dDel"} => dev'[r] <= nextDev + 1
                 /\ pc'[r] \in SaveLabels \cup {"cOwn", "cSrem"} => info'[r] <= nextDev + 1
      BY <1>1, <1>2, <1>3, <1>4 DEF Drawn, SaveLabels
    <2>2. ASSUME NEW d \in Ids, d <= nextDev PROVE d <= nextDev + 1
      BY <1>2, <2>2
    <2>3. /\ (\A d \in Ids : Exists(d) => d <= nextDev)'
          /\ (\A d \in removed \cup claimed : d <= nextDev)'
      BY <1>1, <1>2, <2>2 DEF Drawn, Exists
    <2>. QED
      BY <1>1, <2>1, <2>3 DEF Drawn
  <1>7. OneCreator'
    <2>1. nextDev + 1 \notin removed \cup claimed /\ \A r \in Creators : dev[r] # nextDev + 1
      BY <1>2, <1>3 DEF Drawn, Creators
    <2>. QED
      BY <1>1, <1>5, <2>1 DEF OneCreator, Creators
  <1>. QED
    BY <1>1, <1>6, <1>7 DEF DeletedNeverWhole, ClaimedLeavesFactory

\* A creation writes to the hash, or lists the device, of an id nobody else creates.
LEMMA CreationId ==
  ASSUME TypeInv, IdInv,
         NEW t \in Threads, SaveDevice(t) \/ SaveApikey(t) \/ ListFactory(t), Moves(t)
  PROVE  IdInv'
  <1>. USE DEF IdInv, Moves, Keeps
  <1>1. /\ UNCHANGED <<nextDev, removed, claimed, dev, info>>
        /\ t \in Creators /\ pc'[t] \in CreateSteps \cup {"nLen"}
        /\ keyed' \subseteq keyed \cup {dev[t]} /\ factory' \subseteq factory \cup {dev[t]}
        /\ \A d \in Ids \ {dev[t]} : address'[d] = address[d]
    BY DEF SaveDevice, SaveApikey, ListFactory, At, Goto, locals, indexVars, hashVars,
           historyVars, Creators, CreateSteps, TypeInv, StoreOK, LocalsOK, HandlersOK
  <1>2. Creators' \subseteq Creators
    BY <1>1 DEF Creators
  <1>3. dev[t] <= nextDev /\ dev[t] \notin removed \cup claimed
    BY <1>1 DEF Drawn, OneCreator, Creators
  <1>4. OneCreator' /\ DeletedNeverWhole' /\ ClaimedLeavesFactory'
    BY <1>1, <1>2, <1>3 DEF OneCreator, DeletedNeverWhole, ClaimedLeavesFactory
  <1>5. Drawn'
    <2>1. ASSUME NEW r \in Threads
          PROVE  /\ pc'[r] \in CreateSteps \cup {"dKey", "dDel"} => dev'[r] <= nextDev
                 /\ pc'[r] \in SaveLabels \cup {"cOwn", "cSrem"} => info'[r] <= nextDev
      BY <1>1, <1>3 DEF Drawn, SaveLabels, CreateSteps
    <2>. QED
      BY <1>1, <1>3, <2>1 DEF Drawn, Exists
  <1>. QED
    BY <1>4, <1>5

\* A profile is written back, without its apikey; a claim takes the device off the list.
LEMMA ProfileId ==
  ASSUME TypeInv, IdInv, NEW t \in Threads, UpdateDeviceInfo(t) \/ ClaimUnlist(t), Moves(t)
  PROVE  IdInv'
  <1>. USE DEF IdInv, Moves, Keeps
  <1>1. /\ UNCHANGED <<nextDev, removed, keyed>>
        /\ pc[t] \in SaveLabels \cup {"cSrem"} /\ pc'[t] \in {"cOwn", "idle"}
        /\ pc'[t] = "cOwn" => info'[t] = info[t]
        /\ \A d \in Ids \ {info[t]} : address'[d] = address[d]
    BY DEF UpdateDeviceInfo, ClaimUnlist, At, Goto, Finish, locals, hashVars, historyVars,
           SaveLabels, TypeInv, StoreOK, LocalsOK, HandlersOK
  <1>2. /\ claimed' \subseteq claimed \cup {info[t]} /\ factory' \subseteq factory
        /\ claimed' # claimed => ~Creating(info[t]) /\ info[t] \notin factory'
    BY DEF UpdateDeviceInfo, ClaimUnlist, indexVars, historyVars
  <1>3. info[t] <= nextDev
    BY <1>1 DEF Drawn
  <1>4. Creators' = Creators
    BY <1>1 DEF Creators, CreateSteps, SaveLabels
  <1>5. OneCreator'
    <2>1. \A r \in Creators : r # t /\ dev[r] \notin claimed'
      BY <1>1, <1>2 DEF OneCreator, Creating, Creators, CreateSteps, SaveLabels
    <2>. QED
      BY <1>1, <1>4, <2>1 DEF OneCreator, Creators
  <1>6. DeletedNeverWhole' /\ ClaimedLeavesFactory'
    BY <1>1, <1>2 DEF DeletedNeverWhole, ClaimedLeavesFactory
  <1>7. Drawn'
    <2>1. ASSUME NEW r \in Threads
          PROVE  /\ pc'[r] \in CreateSteps \cup {"dKey", "dDel"} => dev'[r] <= nextDev
                 /\ pc'[r] \in SaveLabels \cup {"cOwn", "cSrem"} => info'[r] <= nextDev
      BY <1>1, <1>3 DEF Drawn, SaveLabels, CreateSteps
    <2>. QED
      BY <1>1, <1>2, <1>3, <2>1 DEF Drawn, Exists
  <1>. QED
    BY <1>5, <1>6, <1>7

\* The deletion of a hash counts as a removal only when no handler is creating the device.
LEMMA DeleteHashId ==
  ASSUME TypeInv, IdInv, NEW t \in Threads, DeleteHash(t), Moves(t)
  PROVE  IdInv'
  <1>. USE DEF IdInv, Moves, Keeps
  <1>1. /\ UNCHANGED <<nextDev, dev, info, claimed, factory>>
        /\ pc[t] = "dDel" /\ pc'[t] = "dSrem"
        /\ address' = [address EXCEPT ![dev[t]] = Nil] /\ keyed' = keyed \ {dev[t]}
        /\ removed' = removed \/ (~Creating(dev[t]) /\ removed' = removed \cup {dev[t]})
    BY DEF DeleteHash, At, Goto, locals, indexVars, TypeInv, LocalsOK, HandlersOK
  <1>2. Creators' = Creators /\ (~Creating(dev[t]) => \A r \in Creators : dev[r] # dev[t])
    BY <1>1 DEF Creators, CreateSteps, Creating
  <1>3. dev[t] <= nextDev
    BY <1>1 DEF Drawn
  <1>4. OneCreator' /\ DeletedNeverWhole' /\ ClaimedLeavesFactory'
    BY <1>1, <1>2 DEF OneCreator, DeletedNeverWhole, ClaimedLeavesFactory
  <1>5. \A d \in Ids : Exists(d)' => Exists(d)
    BY <1>1 DEF Exists, TypeInv, StoreOK
  <1>6. ASSUME NEW r \in Threads
        PROVE  /\ pc'[r] \in CreateSteps \cup {"dKey", "dDel"} => dev'[r] <= nextDev
               /\ pc'[r] \in SaveLabels \cup {"cOwn", "cSrem"} => info'[r] <= nextDev
    BY <1>1, <1>3 DEF Drawn, SaveLabels, CreateSteps
  <1>. QED
    BY <1>1, <1>3, <1>4, <1>5, <1>6 DEF Drawn

\* and every step keeps the invariant.
LEMMA IdStep ==
  ASSUME TypeInv, IdInv, [Next]_vars
  PROVE  IdInv'
  <1>1. CASE UNCHANGED vars
    BY <1>1 DEF vars, store, hashVars, indexVars, locals, historyVars, IdInv, Drawn, OneCreator,
                DeletedNeverWhole, ClaimedLeavesFactory, Creators, Exists
  <1>2. ASSUME NEW t \in Threads, Request(t) \/ Step(t) \/ Abort(t), ~Crash
        PROVE  IdInv'
    <2>1. Moves(t)
      BY <1>2, HandlersStep DEF TypeInv
    <2>. QED
      BY <1>2, <2>1, QuietSteps, QuietStep, NewDeviceId, CreationId, ProfileId, DeleteHashId
         DEF Step, CreateStep, ProfileStep, DeleteStep
  <1>. QED
    BY <1>1, <1>2, CrashId DEF Next

\* A device deleted after its creation never has its apikey again: the profile that an
\* update or a claim writes back has none, and no creation is given its id.
THEOREM DeletedStaysKeyless == Spec => []DeletedNeverWhole
  <1>1. TypeInv /\ IdInv => DeletedNeverWhole
    BY DEF IdInv
  <1>. QED
    BY TypeInit, TypeStep, IdInit, IdStep, <1>1, PTL DEF Spec

\* A factory device that was claimed after its creation is never offered again.
THEOREM ClaimedStaysClaimed == Spec => []ClaimedLeavesFactory
  <1>1. TypeInv /\ IdInv => ClaimedLeavesFactory
    BY DEF IdInv
  <1>. QED
    BY TypeInit, TypeStep, IdInit, IdStep, <1>1, PTL DEF Spec

-----------------------------------------------------------------------------
(***************************************************************************)
(* Values.  Whatever a handler that serves a sensor has in hand was made for *)
(* that sensor, and so are the values it logs.                             *)
(***************************************************************************)

\* What a handler at p knows of the devices it works on, with m for made.
MadeFits(m, p, o, s, d, i, h) ==
    /\ p \in MakerLabels => m[d] = IF o = "factory" THEN NoAddress ELSE s
    /\ p \in SensorLabels /\ o \in {"diy", "sensor"} => m[d] = s
    /\ p \in {"pLen", "pRead"} => d = 0 \/ m[d] = s
    /\ p \in SensorLabels \ {"pLen", "pRead"} => i \in {0, Nil} \/ m[i] = s
    /\ p \in SaveLabels => h = IF i = 0 THEN NoAddress ELSE m[i]

MadeOK(t) == MadeFits(made, pc[t], op[t], sensor[t], dev[t], info[t], held[t])

\* The ids drawn are those made for something, and the keys agree with that.
MadeStore ==
    /\ \A d \in Ids : made[d] # Nil <=> d # 0 /\ d <= nextDev
    /\ \A s \in Sensors : addressKey[s] # Nil => made[addressKey[s]] = s
    /\ \A d \in Ids : address[d] # Nil => address[d] = IF d = 0 THEN NoAddress ELSE made[d]

MadeInv == MadeStore /\ ValueInOwnLog /\ \A t \in Threads : MadeOK(t)

\* What a device is made for never changes.
Agree == \A d \in Ids : made[d] # Nil => made'[d] = made[d]

\* Only the id just drawn gets a maker.
LEMMA MadeAgrees ==
  ASSUME TypeInv, MadeStore, NEW t \in Threads, Request(t) \/ Step(t) \/ Abort(t)
  PROVE  Agree
  <1>1. CASE made' = made
    BY <1>1 DEF Agree
  <1>2. CASE NewDevice(t)
    <2>1. nextDev \in Nat /\ ~(nextDev + 1 <= nextDev)
      BY DEF TypeInv, StoreOK
    <2>2. ASSUME NEW d \in Ids, made[d] # Nil PROVE d # nextDev + 1
      BY <2>1, <2>2 DEF MadeStore
    <2>. QED
      BY <1>2, <2>2 DEF NewDevice, Agree, TypeInv, HistoryOK
  <1>. QED
    BY <1>1, <1>2, WhoWrites DEF Writes

\* What a handler knows stays true whatever is made meanwhile.
LEMMA MadeStays ==
  ASSUME Agree, NEW p, NEW o, NEW u, NEW s, NEW d \in Ids, NEW i \in Ids \cup {Nil}, NEW h,
         Fits(p, o, u, s, d, i, h), MadeFits(made, p, o, s, d, i, h)
  PROVE  MadeFits(made', p, o, s, d, i, h)
  <1>1. Nil \notin Sensors /\ Nil # NoAddress
    BY RegistryAssumption
  <1>2. ASSUME NEW e \in Ids, NEW a \in Sensors \cup {NoAddress}, made[e] = a PROVE made'[e] = a
    BY <1>1, <1>2 DEF Agree
  <1>3. p \in MakerLabels => made'[d] = IF o = "factory" THEN NoAddress ELSE s
    BY <1>2 DEF Fits, MadeFits
  <1>4. p \in SensorLabels => s \in Sensors
    BY DEF Fits
  <1>5. p \in SensorLabels /\ o \in {"diy", "sensor"} => made'[d] = s
    BY <1>2, <1>4 DEF MadeFits
  <1>6. p \in {"pLen", "pRead"} => d = 0 \/ made'[d] = s
    BY <1>2, <1>4 DEF MadeFits, SensorLabels
  <1>7. p \in SensorLabels \ {"pLen", "pRead"} => i \in {0, Nil} \/ made'[i] = s
    BY <1>2, <1>4 DEF MadeFits
  <1>8. p \in SaveLabels => h = IF i = 0 THEN NoAddress ELSE made'[i]
    BY <1>2 DEF Fits, MadeFits
  <1>. QED
    BY <1>3, <1>5, <1>6, <1>7, <1>8 DEF MadeFits

\* A handler that goes on along Flow knows no less.
LEMMA FlowMade ==
  ASSUME TypeInv, NEW t \in Threads, NEW p, <<pc[t], p>> \in Flow, Goto(t, p), MadeOK(t)
  PROVE  MadeFits(made, pc'[t], op'[t], sensor'[t], dev'[t], info'[t], held'[t])
  <1>1. MadeFits(made, p, op[t], sensor[t], dev[t], info[t], held[t])
    <2>1. LocalOK(t)
      BY DEF TypeInv, LocalsOK
    <2>. QED
      BY <2>1
         DEF MadeOK, MadeFits, LocalOK, Fits, Flow, MakerLabels, CreateSteps, ReadLabels,
             ValueLabels, LinkLabels, SensorLabels, SaveLabels
  <1>. QED
    BY <1>1 DEF Goto, locals, TypeInv, LocalsOK, HandlersOK

\* The handlers that take a request up or end one know nothing yet, but the device of an address.
LEMMA RequestMade ==
  ASSUME TypeInv, MadeInv, NEW t \in Threads, Request(t) \/ Finish(t)
  PROVE  MadeFits(made, pc'[t], op'[t], sensor'[t], dev'[t], info'[t], held'[t])
  <1>. USE DEF TypeInv, LocalsOK, HandlersOK, MadeFits, MakerLabels, CreateSteps, ReadLabels,
               ValueLabels, LinkLabels, SensorLabels, SaveLabels
  <1>1. CASE Finish(t)
    BY <1>1 DEF Finish
  <1>2. CASE pc'[t] \in {"new", "cRead", "uLen", "dLen", "lDel"}
    BY <1>2
  <1>3. ASSUME NEW u \in Users, NEW s \in Sensors, NEW o \in {"push", "control"},
               GetSensorDevice(t, u, s, o)
        PROVE  MadeFits(made, pc'[t], op'[t], sensor'[t], dev'[t], info'[t], held'[t])
    <2>1. /\ pc'[t] = "pLen" /\ op'[t] = o /\ sensor'[t] = s
          /\ dev'[t] = IF addressKey[s] = Nil THEN 0 ELSE addressKey[s]
      BY <1>3 DEF GetSensorDevice, Start
    <2>. QED
      BY <2>1 DEF MadeInv, MadeStore
  <1>. HIDE DEF MadeFits
  <1>. QED
    BY <1>1, <1>2, <1>3
       DEF Request, AddFactoryDevices, AddDIYDevice, Push, Control, Claim, Update, Delete,
           RemoveLog, Start

\* A creation is handed an id that is made for its sensor.
LEMMA NewDeviceMade ==
  ASSUME TypeInv, MadeInv, NEW t \in Threads, NewDevice(t)
  PROVE  MadeFits(made', pc'[t], op'[t], sensor'[t], dev'[t], info'[t], held'[t])
  <1>. USE DEF TypeInv, LocalsOK, HandlersOK
  <1>1. /\ pc'[t] = "save" /\ dev'[t] = nextDev + 1 /\ op'[t] = op[t] /\ sensor'[t] = sensor[t]
        /\ nextDev + 1 \in Ids
    BY RegistryAssumption DEF NewDevice, StoreOK, Ids
  <1>2. made'[nextDev + 1] = IF op[t] = "factory" THEN NoAddress ELSE sensor[t]
    BY <1>1 DEF NewDevice, HistoryOK
  <1>. QED
    BY <1>1, <1>2 DEF MadeFits, MakerLabels, CreateSteps, ReadLabels, ValueLabels, LinkLabels,
                      SensorLabels, SaveLabels

\* What a handler reads was made for its sensor too.
LEMMA ReadMade ==
  ASSUME TypeInv, MadeInv, NEW t \in Threads, ~Crash, ~Finish(t),
         \/ NewDeviceExists(t) \/ NewDeviceRead(t) \/ SaveVarInfo(t) \/ LinkDevice(t)
         \/ ListWidget(t) \/ PushExists(t) \/ PushRead(t) \/ StatusLookup(t) \/ ReadVarInfo(t)
         \/ TrimLog(t) \/ ClaimRead(t) \/ UpdateRead(t) \/ DeleteReadApikey(t)
  PROVE  MadeFits(made, pc'[t], op'[t], sensor'[t], dev'[t], info'[t], held'[t])
  <1>1. MadeOK(t) /\ Fits(pc[t], op[t], user[t], sensor[t], dev[t], info[t], held[t])
    BY DEF MadeInv, TypeInv, LocalsOK, LocalOK
  <1>2. dev[t] \in Ids /\ info[t] \in Ids \cup {Nil}
    BY DEF TypeInv, LocalsOK, HandlersOK
  <1>. USE DEF MadeOK, TypeInv, LocalsOK, HandlersOK, MadeFits, MakerLabels, CreateSteps,
               ReadLabels, ValueLabels, LinkLabels, SensorLabels, SaveLabels, At, Goto,
               GotoInfo, ReadProfile, locals
  <1>3. CASE NewDeviceExists(t)
    BY <1>1, <1>2, <1>3 DEF NewDeviceExists
  <1>4. CASE NewDeviceRead(t)
    BY <1>1, <1>2, <1>4 DEF NewDeviceRead, ReadId
  <1>5. CASE SaveVarInfo(t)
    BY <1>1, <1>2, <1>5 DEF SaveVarInfo
  <1>6. CASE LinkDevice(t)
    BY <1>1, <1>2, <1>6 DEF LinkDevice
  <1>7. CASE ListWidget(t)
    BY <1>1, <1>2, <1>7 DEF ListWidget
  <1>8. CASE PushExists(t)
    BY <1>1, <1>2, <1>8 DEF PushExists
  <1>9. CASE PushRead(t)
    BY <1>1, <1>2, <1>9 DEF PushRead, ReadId, Fits
  <1>10. CASE StatusLookup(t)
    BY <1>1, <1>2, <1>10 DEF StatusLookup, Fits
  <1>11. CASE ReadVarInfo(t)
    BY <1>1, <1>2, <1>11 DEF ReadVarInfo, Fits
  <1>12. CASE TrimLog(t)
    BY <1>1, <1>2, <1>12 DEF TrimLog
  <1>13. CASE ClaimRead(t) \/ UpdateRead(t)
    BY <1>1, <1>2, <1>13 DEF ClaimRead, UpdateRead, ReadId, MadeInv, MadeStore
  <1>14. CASE DeleteReadApikey(t)
    BY <1>1, <1>2, <1>14 DEF DeleteReadApikey
  <1>. HIDE DEF MadeOK, TypeInv, LocalsOK, HandlersOK, MadeFits, MakerLabels, CreateSteps,
                ReadLabels, ValueLabels, LinkLabels, SensorLabels, SaveLabels, At, Goto,
                GotoInfo, ReadProfile, locals
  <1>. QED
    BY <1>3, <1>4, <1>5, <1>6, <1>7, <1>8, <1>9, <1>10, <1>11, <1>12, <1>13, <1>14

\* Every step leaves what its handler knows true.
LEMMA HandlersMade ==
  ASSUME TypeInv, MadeInv, NEW t \in Threads, Request(t) \/ Step(t) \/ Abort(t), ~Crash
  PROVE  MadeFits(made', pc'[t], op'[t], sensor'[t], dev'[t], info'[t], held'[t])
  <1>1. MadeOK(t)
    BY DEF MadeInv
  <1>. QED
    BY <1>1, WhoWrites, NewDeviceMade, ReadMade, RequestMade, FlowSteps, FlowMade
       DEF Writes, Step, CreateStep, LinkStep, PushStep, ProfileStep, DeleteStep

\* An address leads to a device made for it, and a hash holds the address it was made for.
LEMMA StoreMade ==
  ASSUME TypeInv, IdInv, MadeInv, NEW t \in Threads, Request(t) \/ Step(t) \/ Abort(t)
  PROVE  MadeStore'
  <1>1. /\ Writes(t) /\ Agree /\ nextDev \in Nat /\ dev[t] \in Ids /\ Ids \subseteq Nat
        /\ Nil \notin Ids /\ Nil \notin Sensors /\ Nil # NoAddress
        /\ MadeStore /\ address' \in [Ids -> Sensors \cup {NoAddress, Nil}]
    BY WhoWrites, MadeAgrees, StoreStep, RegistryAssumption
       DEF MadeInv, TypeInv, StoreOK, LocalsOK, HandlersOK, Ids
  <1>2. Fits(pc[t], op[t], user[t], sensor[t], dev[t], info[t], held[t])
    BY DEF TypeInv, LocalsOK, LocalOK
  <1>3. MadeFits(made, pc[t], op[t], sensor[t], dev[t], info[t], held[t])
    BY DEF MadeInv, MadeOK
  <1>4. (\A d \in Ids : made[d] # Nil <=> d # 0 /\ d <= nextDev)'
    <2>1. CASE UNCHANGED <<nextDev, made>>
      BY <1>1, <2>1 DEF MadeStore
    <2>2. CASE NewDevice(t)
      <3>1. op[t] = "factory" \/ sensor[t] \in Sensors
        BY <1>2, <2>2 DEF NewDevice, At, Fits
      <3>2. /\ nextDev' = nextDev + 1 /\ made'[nextDev + 1] # Nil
            /\ \A d \in Ids : d # nextDev + 1 => made'[d] = made[d]
        BY <1>1, <2>2, <3>1, RegistryAssumption DEF NewDevice, TypeInv, StoreOK, HistoryOK, Ids
      <3>. QED
        BY <1>1, <3>2 DEF MadeStore
    <2>. QED
      BY <1>1, <2>1, <2>2 DEF Writes
  <1>5. (\A s \in Sensors : addressKey[s] # Nil => made[addressKey[s]] = s)'
    <2>1. \A s \in Sensors : addressKey[s] # Nil => addressKey[s] \in Ids
      BY RegistryAssumption DEF TypeInv, StoreOK, Ids, DeviceIds
    <2>2. CASE addressKey' = addressKey
      BY <1>1, <2>1, <2>2 DEF MadeStore, Agree
    <2>3. CASE LinkAddress(t)
      <3>1. addressKey' = [addressKey EXCEPT ![sensor[t]] = dev[t]]
        BY <2>3 DEF LinkAddress
      <3>2. made[dev[t]] = sensor[t] /\ sensor[t] \in Sensors
        BY <1>2, <1>3, <2>3 DEF LinkAddress, At, Fits, MadeFits, MakerLabels, CreateSteps
      <3>3. made'[dev[t]] = sensor[t]
        BY <1>1, <3>2 DEF Agree
      <3>. QED
        BY <1>1, <2>1, <3>1, <3>3 DEF MadeStore, Agree, TypeInv, StoreOK
    <2>. QED
      BY <1>1, <2>2, <2>3 DEF Writes
  <1>6. (\A d \in Ids : address[d] # Nil => address[d] = IF d = 0 THEN NoAddress ELSE made[d])'
    <2>1. ASSUME NEW d \in Ids, address'[d] # Nil
          PROVE  address'[d] = IF d = 0 THEN NoAddress ELSE made[d]
      <3>1. CASE address' = address
        BY <1>1, <2>1, <3>1 DEF MadeStore
      <3>2. CASE SaveDevice(t)
        BY <1>1, <1>2, <1>3, <2>1, <3>2, RegistryAssumption
           DEF SaveDevice, At, MadeStore, Fits, MadeFits, MakerLabels, CreateSteps, TypeInv,
               StoreOK, DeviceIds
      <3>3. CASE UpdateDeviceInfo(t)
        BY <1>1, <1>3, <2>1, <3>3
           DEF UpdateDeviceInfo, MadeStore, MadeFits, SaveLabels, TypeInv, StoreOK
      <3>4. CASE DeleteHash(t)
        BY <1>1, <2>1, <3>4 DEF DeleteHash, MadeStore, TypeInv, StoreOK
      <3>. QED
        BY <1>1, <3>1, <3>2, <3>3, <3>4 DEF Writes
    <2>. QED
      BY <1>1, <2>1 DEF Agree
  <1>. QED
    BY <1>4, <1>5, <1>6 DEF MadeStore

\* The log of a device.
LEMMA LogMade ==
  ASSUME TypeInv, MadeInv, NEW t \in Threads, Request(t) \/ Step(t) \/ Abort(t)
  PROVE  ValueInOwnLog'
  <1>1. /\ Agree /\ ValueInOwnLog /\ Nil \notin Sensors /\ Nil \notin Ids
        /\ DeviceIds \subseteq Ids /\ 0 \notin DeviceIds
    BY MadeAgrees, RegistryAssumption DEF MadeInv, DeviceIds, Ids
  <1>2. ASSUME NEW d \in Ids
        PROVE  /\ log[d] \in Seq(Entries) /\ DOMAIN log[d] = 1..Len(log[d]) /\ Len(log[d]) \in Nat
               /\ \A i \in DOMAIN log[d] : log[d][i].from \in Sensors
    <2>1. log[d] \in Seq(Entries)
      BY DEF TypeInv, LogOK
    <2>2. DOMAIN log[d] = 1..Len(log[d]) /\ Len(log[d]) \in Nat
      BY <2>1, LenProperties
    <2>3. \A i \in 1..Len(log[d]) : log[d][i] \in Entries
      BY <2>1, ElementOfSeq
    <2>. QED
      BY <2>1, <2>2, <2>3 DEF Entries
  <1>3. PushValue(t) \/ TrimLog(t) => Target(t) \in DeviceIds /\ sensor[t] \in Sensors
    BY LogSteps DEF TypeInv
  <1>4. \A d \in Ids : \A i \in DOMAIN log[d] : made'[d] = log[d][i].from
    BY <1>1, <1>2 DEF Agree, ValueInOwnLog
  <1>5. CASE log' = log
    BY <1>4, <1>5 DEF ValueInOwnLog
  <1>6. CASE PushValue(t)
    <2>. DEFINE e == [from |-> sensor[t], old |-> FALSE]
                q == log[Target(t)]
    <2>1. made'[Target(t)] = sensor[t]
      <3>1. made[Target(t)] = sensor[t]
        BY <1>1, <1>6, <1>3
           DEF MadeInv, MadeOK, MadeFits, PushValue, At, Target, SensorLabels, ValueLabels,
               TypeInv, LocalsOK, LocalOK, Fits
      <3>. QED
        BY <1>1, <1>6, <1>3, <3>1 DEF Agree
    <2>2. e \in Entries /\ e.from = sensor[t]
      BY <1>6, <1>3 DEF Entries
    <2>3. log' = [log EXCEPT ![Target(t)] = <<e>> \o q] /\ Target(t) \in Ids
      BY <1>1, <1>6, <1>3 DEF PushValue, TypeInv, LogOK
    <2>4. /\ <<e>> \o q \in Seq(Entries) /\ Len(<<e>> \o q) = Len(q) + 1
          /\ \A i \in 1..Len(q) + 1 : (<<e>> \o q)[i] = IF i = 1 THEN e ELSE q[i - 1]
      <3>1. q \in Seq(Entries)
        BY <1>2, <2>3
      <3>. HIDE DEF e, q
      <3>. QED
        BY <2>2, <3>1, Pushed
    <2>5. DOMAIN (<<e>> \o q) = 1..Len(q) + 1
      BY <2>4, LenProperties
    <2>6. \A i \in 1..Len(q) + 1 : (<<e>> \o q)[i].from = made'[Target(t)]
      BY <1>2, <1>4, <2>1, <2>2, <2>3, <2>4
    <2>. QED
      BY <1>4, <2>3, <2>5, <2>6 DEF ValueInOwnLog, TypeInv, LogOK
  <1>7. CASE TrimLog(t)
    <2>. DEFINE q == log[Target(t)]
                m == IF Len(q) < LogLimit THEN Len(q) ELSE LogLimit
    <2>1. log' = [log EXCEPT ![Target(t)] = SubSeq(q, 1, m)] /\ Target(t) \in Ids
      BY <1>1, <1>7, <1>3 DEF TrimLog, TypeInv, LogOK
    <2>2. /\ SubSeq(q, 1, m) \in Seq(Entries) /\ Len(SubSeq(q, 1, m)) = m
          /\ \A i \in 1..m : SubSeq(q, 1, m)[i] = q[i]
      BY <1>2, <2>1, Trimmed, RegistryAssumption
    <2>3. DOMAIN SubSeq(q, 1, m) = 1..m /\ 1..m \subseteq 1..Len(q)
      BY <1>2, <2>1, <2>2, LenProperties, RegistryAssumption
    <2>. QED
      BY <1>2, <1>4, <2>1, <2>2, <2>3 DEF ValueInOwnLog, TypeInv, LogOK
  <1>8. CASE DeleteValueList(t)
    <2>. DEFINE q == log[dev[t]]
                r == [i \in DOMAIN q |-> [q[i] EXCEPT !.old = TRUE]]
    <2>1. dev[t] \in Ids
      BY DEF TypeInv, LocalsOK, HandlersOK
    <2>2. log' = [log EXCEPT ![dev[t]] = r]
      BY <1>8, <2>1 DEF DeleteValueList, TypeInv, LogOK
    <2>3. DOMAIN r = DOMAIN q /\ \A i \in DOMAIN q : r[i].from = q[i].from
      BY <1>2, <2>1, Aged
    <2>. QED
      BY <1>4, <2>1, <2>2, <2>3 DEF ValueInOwnLog, TypeInv, LogOK
  <1>. QED
    BY <1>5, <1>6, <1>7, <1>8, LogSteps DEF TypeInv

\* MadeInv holds at the start,
LEMMA MadeInit == Init => MadeInv
  <1>. SUFFICES ASSUME Init PROVE MadeInv
    OBVIOUS
  <1>1. MadeStore
    BY RegistryAssumption DEF Init, MadeStore, Ids
  <1>2. ValueInOwnLog
    BY DEF Init, ValueInOwnLog
  <1>3. \A t \in Threads : MadeOK(t)
    BY DEF Init, MadeOK, MadeFits, MakerLabels, CreateSteps, ReadLabels, ValueLabels,
           LinkLabels, SensorLabels, SaveLabels
  <1>. QED
    BY <1>1, <1>2, <1>3 DEF MadeInv

\* and after every step.
LEMMA MadeStep ==
  ASSUME TypeInv, IdInv, MadeInv, [Next]_vars
  PROVE  MadeInv'
  <1>1. CASE UNCHANGED vars
    <2>1. UNCHANGED <<store, pc, locals, historyVars>>
      BY <1>1 DEF vars
    <2>. QED
      BY <2>1
         DEF store, hashVars, sensorVars, logVars, locals, historyVars, MadeInv, MadeStore,
             MadeOK, MadeFits, ValueInOwnLog
  <1>2. ASSUME NEW t \in Threads, Request(t) \/ Step(t) \/ Abort(t) PROVE MadeInv'
    <2>1. MadeStore' /\ ValueInOwnLog'
      BY <1>2, StoreMade, LogMade
    <2>2. ASSUME NEW r \in Threads PROVE MadeOK(r)'
      <3>1. CASE Crash
        BY <3>1
           DEF Crash, MadeOK, MadeFits, MakerLabels, CreateSteps, ReadLabels, ValueLabels,
               LinkLabels, SensorLabels, SaveLabels
      <3>2. CASE r = t /\ ~Crash
        BY <1>2, <3>2, HandlersMade DEF MadeOK
      <3>3. CASE r # t /\ ~Crash
        <4>1. Moves(t) /\ Agree
          BY <1>2, <3>3, HandlersStep, MadeAgrees DEF TypeInv, MadeInv
        <4>2. MadeFits(made', pc[r], op[r], sensor[r], dev[r], info[r], held[r])
          BY <4>1, MadeStays DEF TypeInv, LocalsOK, HandlersOK, LocalOK, MadeInv, MadeOK
        <4>. QED
          BY <3>3, <4>1, <4>2 DEF Moves, Keeps, MadeOK
      <3>. QED
        BY <3>1, <3>2, <3>3
    <2>. QED
      BY <2>1, <2>2 DEF MadeInv
  <1>. QED
    BY <1>1, <1>2 DEF Next

\* A value reaches the log of a device made for the sensor that sent it, however many
\* devices the sensor has had since the handler read the id.
THEOREM ValuesLogged == Spec => []ValueInOwnLog
  <1>1. MadeInv => ValueInOwnLog
    BY DEF MadeInv
  <1>. QED
    BY TypeInit, TypeStep, IdInit, IdStep, MadeInit, MadeStep, <1>1, PTL DEF Spec

-----------------------------------------------------------------------------
(***************************************************************************)
(* The length of a log: an entry past the limit has a handler that will cut  *)
(* it off, or died before it could.                                        *)
(***************************************************************************)

\* Only LPUSH and LTRIM bring a handler to LTRIM and past it, and only LTRIM and a death
\* touch the entries counted as lost.
LEMMA TrimSteps ==
  ASSUME TypeInv, NEW t \in Threads, ~Crash, Request(t) \/ Step(t)
  PROVE  \/ PushValue(t) \/ TrimLog(t)
         \/ pc[t] # "trim" /\ pc'[t] # "trim" /\ UNCHANGED lost
  <1>1. /\ pc[t] \in Labels /\ pc \in [Threads -> Labels]
        /\ UNCHANGED lost \/ TrimLog(t) \/ Abort(t)
    BY WhoWrites DEF Writes, TypeInv, LocalsOK, HandlersOK
  <1>. USE DEF At, Goto, GotoInfo, ReadProfile, Finish, Start
  <1>2. CASE Request(t)
    BY <1>1, <1>2
       DEF Request, AddFactoryDevices, AddDIYDevice, Push, Control, GetSensorDevice, Claim,
           Update, Delete, RemoveLog, historyVars
  <1>3. CASE CreateStep(t)
    BY <1>1, <1>3
       DEF CreateStep, NewDevice, SaveDevice, SaveApikey, PublishApikey, ListDevice,
           LinkAddress, ListFactory, NewDeviceExists, NewDeviceRead, historyVars
  <1>4. CASE LinkStep(t)
    BY <1>1, <1>4 DEF LinkStep, LinkDevice, SaveWidget, ListWidget, historyVars
  <1>5. CASE PushExists(t) \/ PushRead(t) \/ StatusLookup(t) \/ StatusExists(t)
    BY <1>1, <1>5 DEF PushExists, PushRead, StatusLookup, StatusExists, historyVars
  <1>6. CASE ReadVarInfo(t) \/ SaveVarInfo(t) \/ ListValue(t)
    BY <1>1, <1>6 DEF ReadVarInfo, SaveVarInfo, ListValue, historyVars
  <1>7. CASE ProfileStep(t)
    BY <1>1, <1>7
       DEF ProfileStep, ClaimRead, UpdateDeviceInfo, ClaimLink, ClaimUnlist, UpdateExists,
           UpdateMember, UpdateRead, historyVars
  <1>8. CASE DeleteStep(t)
    BY <1>1, <1>8
       DEF DeleteStep, DeleteExists, DeleteReadApikey, DeleteHash, UnlistDevice, ForgetApikey,
           UnlinkDevice, DeleteWidget, UnlistWidget, DeletedEvent, DeleteValueList, historyVars
  <1>. HIDE DEF At, Goto, GotoInfo, ReadProfile, Finish, Start
  <1>. QED
    BY <1>2, <1>3, <1>4, <1>5, <1>6, <1>7, <1>8 DEF Step, PushStep

\* The handlers that will trim a log are finitely many.
LEMMA TrimmingCount ==
  ASSUME NEW d
  PROVE  /\ IsFiniteSet(Trimming(d)) /\ Cardinality(Trimming(d)) \in Nat
         /\ \A t \in Trimming(d) : Cardinality(Trimming(d) \ {t}) = Cardinality(Trimming(d)) - 1
         /\ \A t : t \notin Trimming(d) => Trimming(d) \ {t} = Trimming(d)
  <1>1. Trimming(d) \subseteq Threads
    BY DEF Trimming
  <1>2. IsFiniteSet(Trimming(d))
    BY <1>1, FS_Subset, RegistryAssumption
  <1>. QED
    BY <1>2, FS_CardinalityType, FS_RemoveElement

\* A step of t concerns t only.
LEMMA TrimmingOthers ==
  ASSUME NEW t \in Threads, Moves(t), NEW d
  PROVE  Trimming(d)' \ {t} = Trimming(d) \ {t}
  BY DEF Moves, Keeps, Trimming, At, Target

\* The length of every log after a step that changes one.
LEMMA LogLengths ==
  ASSUME TypeInv, NEW t \in Threads, Request(t) \/ Step(t) \/ Abort(t), NEW d \in Ids
  PROVE  /\ Len(log[d]) \in Nat /\ Len(log'[d]) \in Nat
         /\ PushValue(t) /\ d = Target(t) => Len(log'[d]) = Len(log[d]) + 1
         /\ TrimLog(t) /\ d = Target(t) => Len(log'[d]) <= LogLimit
         /\ d # Target(t) \/ ~(PushValue(t) \/ TrimLog(t)) => Len(log'[d]) = Len(log[d])
  <1>1. /\ log \in [Ids -> Seq(Entries)] /\ log[d] \in Seq(Entries) /\ Len(log[d]) \in Nat
        /\ DeviceIds \subseteq Ids
    BY LenProperties, RegistryAssumption DEF TypeInv, LogOK, DeviceIds, Ids
  <1>2. Len(log'[d]) \in Nat
    <2>1. LogOK'
      BY LogStep DEF TypeInv
    <2>. QED
      BY <2>1, LenProperties DEF LogOK
  <1>3. PushValue(t) \/ TrimLog(t) => Target(t) \in Ids /\ sensor[t] \in Sensors
    BY <1>1, LogSteps DEF TypeInv
  <1>4. CASE PushValue(t)
    <2>. DEFINE e == [from |-> sensor[t], old |-> FALSE]
    <2>1. e \in Entries
      BY <1>3, <1>4 DEF Entries
    <2>2. log' = [log EXCEPT ![Target(t)] = <<e>> \o log[Target(t)]] /\ ~TrimLog(t)
      BY <1>1, <1>3, <1>4 DEF PushValue, TrimLog, At
    <2>3. Len(<<e>> \o log[d]) = Len(log[d]) + 1
      BY <1>1, <2>1, Pushed
    <2>. QED
      BY <1>1, <1>2, <1>3, <1>4, <2>2, <2>3
  <1>5. CASE TrimLog(t)
    <2>. DEFINE r == SubSeq(log[d], 1, IF Len(log[d]) < LogLimit THEN Len(log[d]) ELSE LogLimit)
    <2>1. /\ Target(t) = d => log'[d] = r
          /\ Target(t) # d => log'[d] = log[d]
          /\ ~PushValue(t)
      BY <1>1, <1>3, <1>5 DEF TrimLog, PushValue, At
    <2>2. Len(r) = IF Len(log[d]) < LogLimit THEN Len(log[d]) ELSE LogLimit
      BY <1>1, Trimmed, RegistryAssumption
    <2>3. Len(r) <= LogLimit
      BY <1>1, <2>2, RegistryAssumption
    <2>. QED
      BY <1>1, <1>2, <1>5, <2>1, <2>3
  <1>6. CASE ~PushValue(t) /\ ~TrimLog(t)
    <2>. DEFINE r == [i \in DOMAIN log[d] |-> [log[d][i] EXCEPT !.old = TRUE]]
    <2>1. log' = log \/ DeleteValueList(t)
      BY <1>6, LogSteps DEF TypeInv
    <2>2. log'[d] = r \/ log'[d] = log[d]
      <3>1. CASE DeleteValueList(t) /\ dev[t] = d
        BY <1>1, <3>1 DEF DeleteValueList
      <3>2. CASE DeleteValueList(t) /\ dev[t] # d
        BY <1>1, <3>2 DEF DeleteValueList
      <3>. QED
        BY <2>1, <3>1, <3>2
    <2>3. Len(r) = Len(log[d])
      BY <1>1, Aged
    <2>. QED
      BY <1>1, <1>6, <2>2, <2>3
  <1>. QED
    BY <1>4, <1>5, <1>6

\* An entry past the limit is paid for after every step, too.
LEMMA LengthStep ==
  ASSUME TypeInv, LogBounded, [Next]_vars
  PROVE  LogBounded'
  <1>1. CASE UNCHANGED vars
    BY <1>1 DEF vars, store, logVars, locals, historyVars, LogBounded, Trimming, Target, At
  <1>2. ASSUME NEW t \in Threads, Request(t) \/ Step(t) \/ Abort(t), NEW d \in Ids
        PROVE  Len(log'[d]) <= LogLimit + Cardinality(Trimming(d)') + lost'[d]
    <2>. DEFINE n == Cardinality(Trimming(d)) m == Cardinality(Trimming(d)')
    <2>1. /\ Len(log[d]) <= LogLimit + n + lost[d] /\ lost[d] \in Nat /\ LogLimit \in Nat
          /\ n \in Nat /\ Len(log[d]) \in Nat /\ Len(log'[d]) \in Nat
      BY <1>2, TrimmingCount, LogLengths, RegistryAssumption DEF LogBounded, TypeInv, HistoryOK
    <2>2. CASE Crash
      <3>1. Trimming(d)' = {} /\ Trimming(d) \cap Threads = Trimming(d)
        BY <2>2 DEF Crash, Trimming, At
      <3>2. /\ log' = log
            /\ lost' = [x \in Ids |-> lost[x] + Cardinality(Trimming(x) \cap Threads)] /\ m = 0
        BY <2>2, <3>1, FS_EmptySet DEF Crash, store, logVars, LostWith
      <3>. QED
        BY <2>1, <3>1, <3>2
    <2>3. CASE Abort(t)
      <3>1. Moves(t) /\ t \notin Trimming(d)'
        BY <2>3, FinishMoves DEF Abort, Finish, Trimming, At, TypeInv, LocalsOK, HandlersOK
      <3>2. Trimming(d)' = Trimming(d) \ {t}
        BY <3>1, TrimmingOthers
      <3>3. log' = log /\ lost'[d] = lost[d] + Cardinality(Trimming(d) \cap {t})
        BY <2>3 DEF Abort, store, logVars, LostWith
      <3>4. CASE t \in Trimming(d)
        <4>1. Cardinality(Trimming(d) \cap {t}) = 1
          <5>1. Trimming(d) \cap {t} = {t}
            BY <3>4
          <5>. QED
            BY <5>1, FS_Singleton
        <4>2. m = n - 1
          BY <3>2, <3>4, TrimmingCount
        <4>. QED
          BY <2>1, <3>3, <4>1, <4>2
      <3>5. CASE t \notin Trimming(d)
        <4>1. Cardinality(Trimming(d) \cap {t}) = 0
          <5>1. Trimming(d) \cap {t} = {}
            BY <3>5
          <5>. QED
            BY <5>1, FS_EmptySet
        <4>2. m = n
          BY <3>2, <3>5, TrimmingCount
        <4>. QED
          BY <2>1, <3>3, <4>1, <4>2
      <3>. QED
        BY <3>4, <3>5
    <2>4. CASE ~Crash /\ ~Abort(t)
      <3>1. Moves(t)
        BY <1>2, <2>4, HandlersStep DEF TypeInv
      <3>2. Trimming(d)' \ {t} = Trimming(d) \ {t}
        BY <3>1, TrimmingOthers
      <3>3. m \in Nat /\ lost'[d] \in Nat
        <4>1. Trimming(d)' \subseteq Threads /\ IsFiniteSet(Threads)
          BY RegistryAssumption DEF Trimming
        <4>2. HistoryOK'
          BY <1>2, HistoryStep DEF TypeInv
        <4>. QED
          BY <4>1, <4>2, FS_Subset, FS_CardinalityType DEF HistoryOK
      <3>4. CASE /\ pc[t] # "trim" /\ pc'[t] # "trim" /\ UNCHANGED lost /\ ~PushValue(t)
                 /\ ~TrimLog(t)
        <4>1. Trimming(d)' = Trimming(d)
          BY <3>2, <3>4 DEF Trimming, At
        <4>. QED
          BY <1>2, <2>1, <3>4, <4>1, LogLengths
      <3>5. CASE PushValue(t)
        <4>1. /\ pc[t] = "push" /\ pc'[t] = "trim" /\ Target(t)' = Target(t) /\ lost' = lost
          BY <3>5
             DEF PushValue, At, Goto, locals, Target, historyVars, TypeInv, LocalsOK,
                 HandlersOK
        <4>2. t \notin Trimming(d) /\ (t \in Trimming(d)' <=> d = Target(t))
          BY <4>1 DEF Trimming, At
        <4>3. Len(log'[d]) = IF d = Target(t) THEN Len(log[d]) + 1 ELSE Len(log[d])
          BY <1>2, <3>5, <4>1, LogLengths DEF TrimLog, At
        <4>4. CASE d = Target(t)
          <5>1. Trimming(d)' = Trimming(d) \cup {t}
            BY <3>2, <4>2, <4>4
          <5>2. m = n + 1
            BY <4>2, <5>1, TrimmingCount, FS_AddElement
          <5>. QED
            BY <2>1, <4>1, <4>3, <4>4, <5>2
        <4>5. CASE d # Target(t)
          <5>1. Trimming(d)' = Trimming(d)
            BY <3>2, <4>2, <4>5
          <5>. QED
            BY <2>1, <4>1, <4>3, <4>5, <5>1
        <4>. QED
          BY <4>4, <4>5
      <3>6. CASE TrimLog(t)
        <4>1. /\ pc[t] = "trim" /\ pc'[t] # "trim"
              /\ \A x \in Ids \ {Target(t)} : lost'[x] = lost[x]
          BY <3>6 DEF TrimLog, At, Goto, Finish, TypeInv, LocalsOK, HandlersOK, HistoryOK
        <4>2. CASE d = Target(t)
          <5>1. Len(log'[d]) <= LogLimit /\ Len(log'[d]) \in Nat
            BY <1>2, <3>6, <4>1, <4>2, LogLengths
          <5>. QED
            BY <2>1, <3>3, <5>1
        <4>3. CASE d # Target(t)
          <5>1. Trimming(d)' = Trimming(d)
            BY <3>2, <4>1, <4>3 DEF Trimming, At
          <5>2. Len(log'[d]) = Len(log[d])
            BY <1>2, <4>1, <4>3, LogLengths
          <5>. QED
            BY <2>1, <4>1, <4>3, <5>1, <5>2
        <4>. QED
          BY <4>2, <4>3
      <3>. QED
        BY <1>2, <2>4, <3>4, <3>5, <3>6, TrimSteps
    <2>. QED
      BY <2>2, <2>3, <2>4
  <1>. QED
    BY <1>1, <1>2 DEF Next, LogBounded

\* A log is over its limit by at most one entry per handler between LPUSH and LTRIM, running or
\* dead since the last LTRIM.
THEOREM LogsBounded == Spec => []LogBounded
  <1>1. Init => LogBounded
    <2>. SUFFICES ASSUME Init, NEW d \in Ids
                  PROVE  Len(log[d]) <= LogLimit + Cardinality(Trimming(d)) + lost[d]
      BY DEF LogBounded
    <2>1. log[d] = <<>> /\ Len(<<>>) = 0 /\ lost[d] = 0
      BY EmptySeq DEF Init
    <2>2. Cardinality(Trimming(d)) \in Nat /\ LogLimit \in Nat
      BY TrimmingCount, RegistryAssumption
    <2>. QED
      BY <2>1, <2>2
  <1>. QED
    BY TypeInit, TypeStep, LengthStep, <1>1, PTL DEF Spec

-----------------------------------------------------------------------------
(***************************************************************************)
(* The index of devices.                                                   *)
(***************************************************************************)

\* What a creation has published, unless a deletion came early, and what a deletion had deleted
\* when it takes the device off the index.
IndexOK(t) ==
    /\ pc[t] \in {"set", "link"} => dev[t] \in byApikey \cup early
    /\ pc[t] = "link" => dev[t] \in deviceSet \cup early
    /\ pc[t] \in {"dSrem", "dHdel"} => dev[t] \in removed \cup early

IndexInv == DeviceIndexed /\ \A t \in Threads : IndexOK(t)

\* The records of what happened to a device only grow.
LEMMA HistoryGrows ==
  ASSUME NEW t \in Threads, Request(t) \/ Step(t) \/ Abort(t)
  PROVE  removed \subseteq removed' /\ early \subseteq early' /\ torn \subseteq torn'
  <1>1. Writes(t)
    BY WhoWrites
  <1>. QED
    BY <1>1 DEF Writes, DeleteHash, UnlinkDevice, Abort, Crash

\* The steps that have nothing to do with the index.
OffIndex(t) ==
    /\ UNCHANGED <<keyed, byApikey, deviceSet>>
    /\ pc[t] \notin CreateSteps /\ pc'[t] \notin {"set", "link", "dSrem", "dHdel"}

\* The steps that touch no index.
LEMMA OffIndexSteps ==
  ASSUME TypeInv, NEW t \in Threads, ~Crash,
         \/ Request(t) \/ NewDevice(t) \/ NewDeviceExists(t) \/ NewDeviceRead(t) \/ LinkStep(t)
         \/ PushStep(t) \/ ProfileStep(t)
         \/ (DeleteStep(t) /\ ~DeleteHash(t) /\ ~UnlistDevice(t) /\ ~ForgetApikey(t))
  PROVE  OffIndex(t)
  <1>1. pc \in [Threads -> Labels]
    BY DEF TypeInv, LocalsOK, HandlersOK
  <1>. USE DEF OffIndex, CreateSteps, store, hashVars, indexVars, At, Goto, Start, Finish,
               GotoInfo, ReadProfile
  <1>2. CASE Request(t)
    <2>1. /\ UNCHANGED store /\ At(t, "idle")
          /\ pc'[t] \in {"new", "pLen", "cRead", "uLen", "dLen", "lDel"}
      BY <1>1, <1>2
         DEF Request, AddFactoryDevices, AddDIYDevice, Push, Control, GetSensorDevice, Claim,
             Update, Delete, RemoveLog
    <2>. QED
      BY <2>1
  <1>3. CASE NewDevice(t) \/ NewDeviceExists(t) \/ NewDeviceRead(t)
    BY <1>1, <1>3 DEF NewDevice, NewDeviceExists, NewDeviceRead
  <1>4. CASE LinkStep(t)
    BY <1>1, <1>4 DEF LinkStep, LinkDevice, SaveWidget, ListWidget
  <1>5. CASE PushExists(t) \/ PushRead(t) \/ StatusLookup(t) \/ StatusExists(t) \/ ReadVarInfo(t)
    BY <1>1, <1>5 DEF PushExists, PushRead, StatusLookup, StatusExists, ReadVarInfo
  <1>6. CASE SaveVarInfo(t) \/ ListValue(t) \/ PushValue(t) \/ TrimLog(t)
    BY <1>1, <1>6 DEF SaveVarInfo, ListValue, PushValue, TrimLog
  <1>7. CASE ProfileStep(t)
    BY <1>1, <1>7
       DEF ProfileStep, ClaimRead, UpdateDeviceInfo, ClaimLink, ClaimUnlist, UpdateExists,
           UpdateMember, UpdateRead
  <1>8. CASE DeleteExists(t) \/ DeleteReadApikey(t) \/ UnlinkDevice(t) \/ DeleteWidget(t)
    BY <1>1, <1>8 DEF DeleteExists, DeleteReadApikey, UnlinkDevice, DeleteWidget
  <1>9. CASE UnlistWidget(t) \/ DeletedEvent(t) \/ DeleteValueList(t)
    BY <1>1, <1>9 DEF UnlistWidget, DeletedEvent, DeleteValueList
  <1>. HIDE DEF OffIndex, CreateSteps, store, hashVars, indexVars, At, Goto, Start, Finish,
                GotoInfo, ReadProfile
  <1>. QED
    BY <1>2, <1>3, <1>4, <1>5, <1>6, <1>7, <1>8, <1>9 DEF PushStep, DeleteStep

\* What a step must observe: a device gets its apikey while it is being created, leaves the index
\* after its deletion, and its creation ends with the device in the index or known as torn.
Indexes(t) ==
    /\ \A d \in keyed' : d \in keyed \/ (dev'[t] = d /\ pc'[t] \in CreateSteps)
    /\ byApikey \subseteq byApikey' \cup removed \cup early
    /\ deviceSet \subseteq deviceSet' \cup removed \cup early
    /\ pc[t] \in CreateSteps =>
         \/ dev'[t] = dev[t] /\ pc'[t] \in CreateSteps
         \/ dev[t] \in torn' \cup early'
         \/ dev[t] \in byApikey' /\ dev[t] \in deviceSet'
    /\ IndexOK(t)'

\* A step that observes this keeps the invariant.
LEMMA IndexKept ==
  ASSUME IndexInv, IdInv, IdInv', NEW t \in Threads, Moves(t), Indexes(t),
         removed \subseteq removed', early \subseteq early', torn \subseteq torn'
  PROVE  IndexInv'
  <1>. USE DEF IndexInv, Indexes
  <1>1. ASSUME NEW r \in Threads, r # t PROVE IndexOK(r)'
    <2>1. pc'[r] = pc[r] /\ dev'[r] = dev[r] /\ IndexOK(r)
      BY <1>1 DEF Moves, Keeps
    <2>2. pc[r] \in CreateSteps => dev[r] \notin removed
      BY DEF IdInv, OneCreator, Creators
    <2>. QED
      BY <2>1, <2>2 DEF IndexOK, CreateSteps
  <1>2. ASSUME NEW d \in keyed'
        PROVE  \/ d \in byApikey' /\ d \in deviceSet'
               \/ d \in torn' \cup early'
               \/ Creating(d)'
    <2>1. d \notin removed
      BY DEF IdInv, DeletedNeverWhole
    <2>2. CASE d \notin keyed
      BY <2>2 DEF Creating
    <2>3. CASE d \in keyed /\ ~Creating(d)
      BY <2>1, <2>3 DEF DeviceIndexed
    <2>4. ASSUME NEW r \in Threads, dev[r] = d, pc[r] \in CreateSteps
          PROVE  \/ d \in byApikey' /\ d \in deviceSet'
                 \/ d \in torn' \cup early'
                 \/ Creating(d)'
      <3>1. CASE r = t
        BY <2>4, <3>1 DEF Creating
      <3>2. CASE r # t
        BY <2>4, <3>2 DEF Moves, Keeps, Creating
      <3>. QED
        BY <3>1, <3>2
    <2>. QED
      BY <2>2, <2>3, <2>4 DEF Creating
  <1>. QED
    BY <1>1, <1>2 DEF DeviceIndexed

\* Every step does.
LEMMA StepIndexes ==
  ASSUME TypeInv, IdInv, IndexInv, NEW t \in Threads, Request(t) \/ Step(t) \/ Abort(t), ~Crash
  PROVE  Indexes(t)
  <1>1. /\ IndexOK(t) /\ early \subseteq early' /\ removed \subseteq removed'
        /\ pc \in [Threads -> Labels] /\ dev \in [Threads -> Ids]
    BY HistoryGrows DEF IndexInv, TypeInv, LocalsOK, HandlersOK
  <1>2. Nil \notin byApikey /\ (pc[t] = "dHdel" => held[t] \in {dev[t], Nil})
    <2>1. /\ Fits(pc[t], op[t], user[t], sensor[t], dev[t], info[t], held[t])
          /\ byApikey \subseteq DeviceIds
      BY DEF TypeInv, StoreOK, LocalsOK, LocalOK
    <2>2. Nil \notin DeviceIds
      BY RegistryAssumption DEF DeviceIds
    <2>. QED
      BY <2>1, <2>2 DEF Fits
  <1>3. CASE OffIndex(t)
    BY <1>3 DEF OffIndex, Indexes, IndexOK
  <1>4. CASE Abort(t)
    BY <1>1, <1>4 DEF Abort, Finish, store, hashVars, indexVars, Indexes, IndexOK, Interrupted
  <1>. USE DEF Indexes, IndexOK, CreateSteps, At, Goto, locals, hashVars, indexVars, historyVars
  <1>5. CASE SaveDevice(t) \/ SaveApikey(t)
    BY <1>1, <1>5 DEF SaveDevice, SaveApikey
  <1>6. CASE PublishApikey(t) \/ ListDevice(t)
    BY <1>1, <1>6 DEF PublishApikey, ListDevice
  <1>7. CASE LinkAddress(t) \/ ListFactory(t)
    BY <1>1, <1>7 DEF LinkAddress, ListFactory
  <1>8. CASE DeleteHash(t)
    BY <1>1, <1>8 DEF DeleteHash
  <1>9. CASE UnlistDevice(t)
    BY <1>1, <1>9 DEF UnlistDevice
  <1>10. CASE ForgetApikey(t)
    BY <1>1, <1>10, <1>2 DEF ForgetApikey
  <1>. HIDE DEF Indexes, IndexOK, CreateSteps, At, Goto, locals, hashVars, indexVars,
                historyVars
  <1>. QED
    BY <1>3, <1>4, <1>5, <1>6, <1>7, <1>8, <1>9, <1>10, OffIndexSteps
       DEF Step, CreateStep, DeleteStep

\* IndexInv holds at the start,
LEMMA IndexInit == Init => IndexInv
  BY DEF Init, IndexInv, IndexOK, DeviceIndexed

\* and after every step.
LEMMA IndexStep ==
  ASSUME TypeInv, IdInv, IndexInv, [Next]_vars
  PROVE  IndexInv'
  <1>1. CASE UNCHANGED vars
    BY <1>1
       DEF vars, store, hashVars, indexVars, locals, historyVars, IndexInv, IndexOK,
           DeviceIndexed, Creating
  <1>2. CASE Crash
    <2>1. /\ UNCHANGED <<keyed, byApikey, deviceSet, removed, early>>
          /\ torn' = torn \cup Interrupted(Threads)
          /\ \A t \in Threads : pc'[t] = "idle"
      BY <1>2 DEF Crash, store, hashVars, indexVars
    <2>2. \A d \in keyed : Creating(d) => d \in torn'
      BY <2>1 DEF Creating, Interrupted
    <2>. QED
      BY <2>1, <2>2 DEF IndexInv, IndexOK, DeviceIndexed
  <1>3. ASSUME NEW t \in Threads, Request(t) \/ Step(t) \/ Abort(t), ~Crash
        PROVE  IndexInv'
    <2>1. IdInv'
      BY <1>3, IdStep DEF Next
    <2>. QED
      BY <1>3, <2>1, HandlersStep, HistoryGrows, StepIndexes, IndexKept DEF TypeInv
  <1>. QED
    BY <1>1, <1>2, <1>3 DEF Next

\* A device that has its apikey is found by it and listed, unless its creation still runs or died
\* half-way, or a deletion had reached it before.
THEOREM DevicesIndexed == Spec => []DeviceIndexed
  <1>1. IndexInv => DeviceIndexed
    BY DEF IndexInv
  <1>. QED
    BY TypeInit, TypeStep, IdInit, IdStep, IndexInit, IndexStep, <1>1, PTL DEF Spec

-----------------------------------------------------------------------------
(***************************************************************************)
(* Widgets.                                                                *)
(***************************************************************************)

AdornLabels == {"widget", "widgets"}
UnadornLabels == {"dWidget", "dWidgets"}

\* A handler that adds a widget has linked the device to its user, unless a deletion came between.
WidgetOK(t) == pc[t] \in AdornLabels => info[t] \in userDevices[user[t]] \cup early \cup torn

WidgetInv == WidgetOfOwnDevice /\ \A t \in Threads : WidgetOK(t)

\* The steps that have nothing to do with widgets.
OffPage(t) ==
    /\ userWidgets' = userWidgets /\ \A u \in Users : userDevices[u] \subseteq userDevices'[u]
    /\ pc[t] \notin UnadornLabels /\ pc'[t] \notin AdornLabels

\* The steps that touch no page.
LEMMA OffPageSteps ==
  ASSUME TypeInv, NEW t \in Threads, ~Crash,
         \/ Request(t) \/ CreateStep(t) \/ PushStep(t) \/ ProfileStep(t)
         \/ DeleteExists(t) \/ DeleteReadApikey(t) \/ DeleteHash(t) \/ UnlistDevice(t)
         \/ ForgetApikey(t) \/ DeletedEvent(t) \/ DeleteValueList(t)
  PROVE  OffPage(t)
  <1>1. pc \in [Threads -> Labels] /\ userDevices \in [Users -> SUBSET Ids]
    BY DEF TypeInv, StoreOK, LocalsOK, HandlersOK
  <1>. USE DEF OffPage, AdornLabels, UnadornLabels, CreateSteps, store, userVars, At, Goto,
               Start, Finish, GotoInfo, ReadProfile
  <1>2. CASE Request(t)
    <2>1. /\ UNCHANGED store /\ At(t, "idle")
          /\ pc'[t] \in {"new", "pLen", "cRead", "uLen", "dLen", "lDel"}
      BY <1>1, <1>2
         DEF Request, AddFactoryDevices, AddDIYDevice, Push, Control, GetSensorDevice, Claim,
             Update, Delete, RemoveLog
    <2>. QED
      BY <2>1
  <1>3. CASE NewDevice(t) \/ SaveDevice(t) \/ SaveApikey(t) \/ PublishApikey(t) \/ ListDevice(t)
    BY <1>1, <1>3 DEF NewDevice, SaveDevice, SaveApikey, PublishApikey, ListDevice
  <1>4. CASE LinkAddress(t) \/ ListFactory(t) \/ NewDeviceExists(t) \/ NewDeviceRead(t)
    BY <1>1, <1>4 DEF LinkAddress, ListFactory, NewDeviceExists, NewDeviceRead
  <1>5. CASE PushExists(t) \/ PushRead(t) \/ StatusLookup(t) \/ StatusExists(t) \/ ReadVarInfo(t)
    BY <1>1, <1>5 DEF PushExists, PushRead, StatusLookup, StatusExists, ReadVarInfo
  <1>6. CASE SaveVarInfo(t) \/ ListValue(t) \/ PushValue(t) \/ TrimLog(t)
    BY <1>1, <1>6 DEF SaveVarInfo, ListValue, PushValue, TrimLog
  <1>7. CASE ClaimRead(t) \/ UpdateDeviceInfo(t) \/ ClaimLink(t) \/ ClaimUnlist(t)
    BY <1>1, <1>7 DEF ClaimRead, UpdateDeviceInfo, ClaimLink, ClaimUnlist
  <1>8. CASE UpdateExists(t) \/ UpdateMember(t) \/ UpdateRead(t)
    BY <1>1, <1>8 DEF UpdateExists, UpdateMember, UpdateRead
  <1>9. CASE DeleteExists(t) \/ DeleteReadApikey(t) \/ DeleteHash(t) \/ UnlistDevice(t)
    BY <1>1, <1>9 DEF DeleteExists, DeleteReadApikey, DeleteHash, UnlistDevice
  <1>10. CASE ForgetApikey(t) \/ DeletedEvent(t) \/ DeleteValueList(t)
    BY <1>1, <1>10 DEF ForgetApikey, DeletedEvent, DeleteValueList
  <1>. HIDE DEF OffPage, AdornLabels, UnadornLabels, CreateSteps, store, userVars, At, Goto,
                Start, Finish, GotoInfo, ReadProfile
  <1>. QED
    BY <1>2, <1>3, <1>4, <1>5, <1>6, <1>7, <1>8, <1>9, <1>10
       DEF CreateStep, PushStep, ProfileStep

\* What a step must observe: a widget is added for a device of the user or one known as early or
\* torn, and a device leaves the user only with its deletion on the way to the widget.
Adorns(t) ==
    /\ \A u \in Users :
         userWidgets'[u] \subseteq userWidgets[u] \cup userDevices'[u] \cup early' \cup torn'
    /\ \A u \in Users : \A d \in userDevices[u] \ userDevices'[u] :
         /\ user'[t] = u /\ dev'[t] = d /\ pc'[t] \in UnadornLabels
         /\ Adorning(d) => d \in early'
    /\ pc[t] \in UnadornLabels =>
         \/ user'[t] = user[t] /\ dev'[t] = dev[t] /\ pc'[t] \in UnadornLabels
         \/ dev[t] \in torn'
         \/ user[t] \in Users => dev[t] \notin userWidgets'[user[t]]
    /\ WidgetOK(t)'

\* A step that observes this keeps the invariant.
LEMMA WidgetKept ==
  ASSUME TypeInv, WidgetInv, NEW t \in Threads, Moves(t), Adorns(t),
         early \subseteq early', torn \subseteq torn'
  PROVE  WidgetInv'
  <1>. USE DEF WidgetInv, Adorns
  <1>1. ASSUME NEW r \in Threads, r # t PROVE WidgetOK(r)'
    <2>1. pc'[r] = pc[r] /\ user'[r] = user[r] /\ info'[r] = info[r] /\ WidgetOK(r)
      BY <1>1 DEF Moves, Keeps
    <2>2. pc[r] \in AdornLabels => Adorning(info[r]) /\ user[r] \in Users
      BY DEF Adorning, AdornLabels, TypeInv, LocalsOK, LocalOK, Fits, LinkLabels
    <2>. QED
      BY <2>1, <2>2 DEF WidgetOK
  <1>2. ASSUME NEW u \in Users, NEW d \in userWidgets'[u] \ userDevices'[u]
        PROVE  \/ d \in early' \cup torn'
               \/ \E r \in Threads : user'[r] = u /\ dev'[r] = d /\ pc'[r] \in UnadornLabels
    <2>1. CASE d \in userDevices[u]
      BY <1>2, <2>1
    <2>2. ASSUME NEW r \in Threads, user[r] = u, dev[r] = d, pc[r] \in UnadornLabels
          PROVE  \/ d \in early' \cup torn'
                 \/ \E q \in Threads : user'[q] = u /\ dev'[q] = d /\ pc'[q] \in UnadornLabels
      <3>1. CASE r = t
        BY <1>2, <2>2, <3>1
      <3>2. CASE r # t
        BY <2>2, <3>2 DEF Moves, Keeps
      <3>. QED
        BY <3>1, <3>2
    <2>3. CASE d \in userWidgets[u] \ userDevices[u]
      BY <2>2, <2>3 DEF WidgetOfOwnDevice, UnadornLabels
    <2>. QED
      BY <1>2, <2>1, <2>3
  <1>. QED
    BY <1>1, <1>2 DEF WidgetOfOwnDevice, UnadornLabels

\* Every step does.
LEMMA StepAdorns ==
  ASSUME TypeInv, WidgetInv, NEW t \in Threads, Request(t) \/ Step(t) \/ Abort(t), ~Crash
  PROVE  Adorns(t)
  <1>1. /\ WidgetOK(t) /\ early \subseteq early' /\ torn \subseteq torn'
        /\ pc \in [Threads -> Labels] /\ dev \in [Threads -> Ids]
        /\ info \in [Threads -> Ids \cup {Nil}]
        /\ userDevices \in [Users -> SUBSET Ids] /\ userWidgets \in [Users -> SUBSET Ids]
    BY HistoryGrows DEF WidgetInv, TypeInv, StoreOK, LocalsOK, HandlersOK
  <1>2. pc[t] \in AdornLabels \cup UnadornLabels \cup {"own", "dOwn"} => user[t] \in Users
    <2>1. Fits(pc[t], op[t], user[t], sensor[t], dev[t], info[t], held[t])
      BY DEF TypeInv, LocalsOK, LocalOK
    <2>. QED
      BY <2>1 DEF Fits, AdornLabels, UnadornLabels, MakerLabels, CreateSteps
  <1>3. CASE OffPage(t)
    BY <1>1, <1>3 DEF OffPage, Adorns, WidgetOK
  <1>4. CASE Abort(t)
    <2>1. /\ UNCHANGED <<userWidgets, userDevices>> /\ pc'[t] = "idle"
          /\ torn' = torn \cup Interrupted({t})
      BY <1>1, <1>4 DEF Abort, Finish, store, userVars
    <2>2. pc[t] \in UnadornLabels => dev[t] \in Interrupted({t})
      BY DEF Interrupted, UnadornLabels
    <2>3. pc[t] \in UnadornLabels => dev[t] \in torn'
      BY <2>1, <2>2
    <2>4. WidgetOK(t)'
      BY <2>1 DEF WidgetOK, AdornLabels
    <2>. QED
      BY <2>1, <2>3, <2>4 DEF Adorns
  <1>. USE DEF Adorns, WidgetOK, AdornLabels, UnadornLabels, At, Goto, locals, historyVars
  <1>5. CASE LinkDevice(t)
    BY <1>1, <1>2, <1>5 DEF LinkDevice
  <1>6. CASE SaveWidget(t)
    BY <1>1, <1>2, <1>6 DEF SaveWidget
  <1>7. CASE ListWidget(t)
    BY <1>1, <1>2, <1>7 DEF ListWidget, Finish
  <1>8. CASE UnlinkDevice(t)
    BY <1>1, <1>2, <1>8 DEF UnlinkDevice
  <1>9. CASE DeleteWidget(t)
    BY <1>1, <1>2, <1>9 DEF DeleteWidget
  <1>10. CASE UnlistWidget(t)
    BY <1>1, <1>2, <1>10 DEF UnlistWidget
  <1>. HIDE DEF Adorns, WidgetOK, AdornLabels, UnadornLabels, At, Goto, locals, historyVars
  <1>. QED
    BY <1>3, <1>4, <1>5, <1>6, <1>7, <1>8, <1>9, <1>10, OffPageSteps
       DEF Step, LinkStep, DeleteStep

\* WidgetInv holds at the start,
LEMMA WidgetInit == Init => WidgetInv
  BY DEF Init, WidgetInv, WidgetOK, WidgetOfOwnDevice, AdornLabels

\* and after every step.
LEMMA WidgetStep ==
  ASSUME TypeInv, WidgetInv, [Next]_vars
  PROVE  WidgetInv'
  <1>1. CASE UNCHANGED vars
    BY <1>1
       DEF vars, store, userVars, locals, historyVars, WidgetInv, WidgetOK, WidgetOfOwnDevice
  <1>2. CASE Crash
    <2>1. /\ UNCHANGED <<userWidgets, userDevices, early>>
          /\ torn' = torn \cup Interrupted(Threads)
          /\ \A t \in Threads : pc'[t] = "idle"
      BY <1>2 DEF Crash, store, userVars
    <2>2. \A t \in Threads : pc[t] \in {"dWidget", "dWidgets"} => dev[t] \in torn'
      BY <2>1 DEF Interrupted
    <2>. QED
      BY <2>1, <2>2 DEF WidgetInv, WidgetOK, WidgetOfOwnDevice, AdornLabels
  <1>3. ASSUME NEW t \in Threads, Request(t) \/ Step(t) \/ Abort(t), ~Crash
        PROVE  WidgetInv'
    BY <1>3, HandlersStep, HistoryGrows, StepAdorns, WidgetKept DEF TypeInv
  <1>. QED
    BY <1>1, <1>2, <1>3 DEF Next

\* A widget on a user's page is of a device among his own, unless its deletion runs, died, or met
\* the creation of the device.
THEOREM WidgetsOfOwnDevices == Spec => []WidgetOfOwnDevice
  <1>1. WidgetInv => WidgetOfOwnDevice
    BY DEF WidgetInv
  <1>. QED
    BY TypeInit, TypeStep, WidgetInit, WidgetStep, <1>1, PTL DEF Spec

-----------------------------------------------------------------------------
(***************************************************************************)
(* The device of a sensor.                                                 *)
(***************************************************************************)

\* A creation has linked the address and not yet saved its variable.
Linked(p, o) == p \in {"nLen", "nRead"} \/ (p = "var" /\ o \in {"diy", "sensor"})

\* A sensor that one handler serves, which is at p: K are the devices with an apikey made for the
\* sensor, a the device its address leads to, v the device of its variable.
ServeFits(K, a, v, p, o, d, i, h) ==
    /\ \A k \in K : k = a \/ (k = d /\ p \in CreateSteps)
    /\ p \in CreateSteps => K \subseteq {d}
    /\ p = "new" => K = {}
    /\ p \in {"pLen", "pRead"} => d = IF a = Nil THEN 0 ELSE a
    /\ IF Linked(p, o) THEN a = d ELSE v = a
    /\ p \in ReadLabels => i = 0 \/ a # Nil
    /\ p = "var" /\ o \in {"push", "control"} => h = a
    /\ p \in ValueLabels \cup LinkLabels => a # Nil

MadeFor(s) == {d \in keyed : made[d] = s}

Serving(s, t) ==
    ServeFits(MadeFor(s), addressKey[s], varDevice[s], pc[t], op[t], dev[t], info[t], held[t])

SensorOK(s) ==
    /\ \A t, r \in Threads : sensor[t] = s /\ sensor[r] = s => t = r
    /\ \A t \in Threads : sensor[t] = s => Serving(s, t)
    /\ (\A t \in Threads : sensor[t] # s) =>
         MadeFor(s) \subseteq {addressKey[s]} /\ varDevice[s] = addressKey[s]

SensorInv == \A s \in Sensors \ crowded : SensorOK(s)

\* Only a creation for the sensor gives a device made for it an apikey.
LEMMA MadeForGrows ==
  ASSUME TypeInv, IdInv, MadeInv, NEW t \in Threads, Request(t) \/ Step(t) \/ Abort(t),
         NEW s \in Sensors
  PROVE  \/ MadeFor(s)' \subseteq MadeFor(s)
         \/ SaveApikey(t) /\ sensor[t] = s /\ MadeFor(s)' \subseteq MadeFor(s) \cup {dev[t]}
  <1>1. /\ Agree /\ Writes(t) /\ keyed \subseteq Ids \ {0} /\ Nil # s /\ NoAddress # s
    BY MadeAgrees, WhoWrites, RegistryAssumption DEF MadeInv, TypeInv, StoreOK, Ids, DeviceIds
  <1>2. \A d \in keyed : made'[d] = made[d]
    BY <1>1 DEF Agree, MadeInv, MadeStore, IdInv, Drawn, Exists
  <1>3. CASE keyed' \subseteq keyed
    BY <1>2, <1>3 DEF MadeFor
  <1>4. CASE SaveApikey(t)
    <2>1. made[dev[t]] = IF op[t] = "factory" THEN NoAddress ELSE sensor[t]
      BY <1>4 DEF SaveApikey, At, MadeInv, MadeOK, MadeFits, MakerLabels, CreateSteps
    <2>2. keyed' = keyed \cup {dev[t]} /\ made' = made
      BY <1>4 DEF SaveApikey, historyVars
    <2>3. MadeFor(s)' \subseteq MadeFor(s) \cup {dev[t]}
      BY <2>2 DEF MadeFor
    <2>4. sensor[t] # s => MadeFor(s)' \subseteq MadeFor(s)
      BY <1>1, <2>1, <2>2 DEF MadeFor
    <2>. QED
      BY <1>4, <2>3, <2>4
  <1>. QED
    BY <1>1, <1>3, <1>4 DEF Writes, DeleteHash

\* A handler at a step that is about no sensor.
LEMMA RestFits ==
  ASSUME NEW K, NEW a, NEW v, NEW p, NEW o, NEW d, NEW i, NEW h,
         p \notin SensorLabels \cup MakerLabels \cup {"new"}
  PROVE  ServeFits(K, a, v, p, o, d, i, h) <=> K \subseteq {a} /\ v = a
  BY DEF ServeFits, Linked, SensorLabels, MakerLabels, ReadLabels, ValueLabels, LinkLabels,
         CreateSteps

\* The steps before LinkAddress, SaveVarInfo and SaveApikey write nothing that Serving speaks of.
Stays(s) ==
    /\ MadeFor(s)' \subseteq MadeFor(s) /\ addressKey'[s] = addressKey[s]
    /\ varDevice'[s] = varDevice[s]

\* Nor do the steps that draw, read and answer.
LEMMA MostStay ==
  ASSUME TypeInv, IdInv, MadeInv, NEW t \in Threads, Step(t),
         NEW s \in Sensors, pc[t] \notin {"key", "link", "var"}
  PROVE  Stays(s)
  BY MadeForGrows, WhoWrites DEF Stays, Writes, LinkAddress, SaveVarInfo, SaveApikey, At

\* Steps that only go on.
LEMMA FlowFits ==
  ASSUME NEW K, NEW L, NEW a, NEW v, NEW p, NEW q, NEW o, NEW d, NEW i, NEW h,
         ServeFits(K, a, v, p, o, d, i, h), <<p, q>> \in Flow, p # "link",
         L \subseteq IF p = "key" THEN K \cup {d} ELSE K
  PROVE  ServeFits(L, a, v, q, o, d, i, h)
  BY DEF ServeFits, Linked, SensorLabels, MakerLabels, ReadLabels, ValueLabels, LinkLabels,
         CreateSteps, Flow

\* A creation does not end before its variable is saved.
LEMMA CreationGoesOn ==
  ASSUME TypeInv, NEW t \in Threads, Step(t), ~Crash, pc[t] \in MakerLabels \cup {"new", "var"},
         op[t] # "factory"
  PROVE  pc'[t] # "idle"
  <1>1. pc \in [Threads -> Labels]
    BY DEF TypeInv, LocalsOK, HandlersOK
  <1>. USE DEF MakerLabels, CreateSteps, At, Goto, GotoInfo
  <1>2. CASE CreateStep(t)
    BY <1>1, <1>2
       DEF CreateStep, NewDevice, SaveDevice, SaveApikey, PublishApikey, ListDevice,
           LinkAddress, ListFactory, NewDeviceExists, NewDeviceRead
  <1>3. CASE LinkStep(t) \/ PushStep(t)
    BY <1>1, <1>3
       DEF LinkStep, PushStep, LinkDevice, SaveWidget, ListWidget, PushExists, PushRead,
           StatusLookup, StatusExists, ReadVarInfo, SaveVarInfo, ListValue, PushValue, TrimLog
  <1>4. CASE ProfileStep(t) \/ DeleteStep(t)
    BY <1>1, <1>4
       DEF ProfileStep, ClaimRead, UpdateDeviceInfo, ClaimLink, ClaimUnlist, UpdateExists,
           UpdateMember, UpdateRead, DeleteStep, DeleteExists, DeleteReadApikey, DeleteHash,
           UnlistDevice, ForgetApikey, UnlinkDevice, DeleteWidget, UnlistWidget, DeletedEvent,
           DeleteValueList
  <1>. QED
    BY <1>2, <1>3, <1>4 DEF Step

\* A step of the handler that serves the sensor alone keeps what it relies on.
LEMMA ServingStep ==
  ASSUME TypeInv, IdInv, MadeInv, NEW t \in Threads, Step(t), ~Crash,
         NEW s \in Sensors, sensor[t] = s, Serving(s, t)
  PROVE  Serving(s, t)'
  <1>. DEFINE p == pc[t] o == op[t] d == dev[t] i == info[t] h == held[t]
              K == MadeFor(s) a == addressKey[s] v == varDevice[s]
  <1>1. /\ pc \in [Threads -> Labels] /\ op \in [Threads -> Operations]
        /\ dev \in [Threads -> Ids]
        /\ info \in [Threads -> Ids \cup {Nil}]
        /\ held \in [Threads -> Ids \cup Sensors \cup {NoAddress, Nil}]
        /\ addressKey \in [Sensors -> DeviceIds \cup {Nil}]
        /\ varDevice \in [Sensors -> Ids \cup {Nil}]
    BY DEF TypeInv, StoreOK, LocalsOK, HandlersOK
  <1>2. Nil \notin Ids /\ s # Nil /\ DeviceIds \subseteq Ids /\ 0 \notin DeviceIds
    BY RegistryAssumption DEF Ids, DeviceIds
  <1>3. Fits(p, o, user[t], s, d, i, h) /\ ServeFits(K, a, v, p, o, d, i, h)
    BY DEF Serving, TypeInv, LocalsOK, LocalOK
  <1>4. p \in MakerLabels \cup {"new"} => o \in {"diy", "sensor"}
    BY <1>2, <1>3 DEF Fits
  <1>5. p \notin {"key", "link", "var"} => Stays(s)
    BY MostStay
  <1>6. ASSUME NEW q, <<p, q>> \in Flow, Goto(t, q), p # "link"
        PROVE  Serving(s, t)'
    <2>1. MadeFor(s)' \subseteq (IF p = "key" THEN K \cup {d} ELSE K)
      BY <1>6, MadeForGrows DEF SaveApikey, At
    <2>2. addressKey'[s] = a /\ varDevice'[s] = v
      BY <1>5, <1>6, WhoWrites DEF Stays, Writes, LinkAddress, SaveVarInfo, At, Flow
    <2>3. pc'[t] = q /\ op'[t] = o /\ dev'[t] = d /\ info'[t] = i /\ held'[t] = h
      BY <1>1, <1>6 DEF Goto, locals
    <2>4. ServeFits(MadeFor(s)', a, v, q, o, d, i, h)
      BY <1>3, <1>6, <2>1, FlowFits
    <2>. QED
      BY <2>2, <2>3, <2>4 DEF Serving
  <1>7. CASE Finish(t)
    <2>1. pc'[t] = "idle"
      BY <1>1, <1>7 DEF Finish
    <2>2. p \notin MakerLabels \cup {"new", "var"}
      BY <1>3, <1>4, <2>1, CreationGoesOn DEF Fits
    <2>3. Stays(s) /\ K \subseteq {a} /\ v = a
      BY <1>3, <1>5, <2>2 DEF ServeFits, Linked, MakerLabels, CreateSteps
    <2>4. "idle" \notin SensorLabels \cup MakerLabels \cup {"new"}
      BY DEF SensorLabels, MakerLabels, ReadLabels, ValueLabels, LinkLabels, CreateSteps
    <2>. QED
      BY <2>1, <2>3, <2>4, RestFits DEF Serving, Stays
  <1>8. CASE LinkAddress(t)
    <2>1. MadeFor(s)' \subseteq K /\ addressKey'[s] = d /\ p = "link"
      BY <1>1, <1>8, MadeForGrows DEF LinkAddress, SaveApikey, At
    <2>2. pc'[t] = "nLen" /\ op'[t] = o /\ dev'[t] = d /\ info'[t] = i /\ held'[t] = h
      BY <1>1, <1>8 DEF LinkAddress, Goto, locals
    <2>3. K \subseteq {d}
      BY <1>3, <2>1 DEF ServeFits, CreateSteps
    <2>. QED
      BY <2>1, <2>2, <2>3
         DEF Serving, ServeFits, Linked, ReadLabels, ValueLabels, LinkLabels, CreateSteps
  <1>. USE DEF Serving, ServeFits, Linked, SensorLabels, MakerLabels, ReadLabels, ValueLabels,
               LinkLabels, CreateSteps, Stays, At, Goto, GotoInfo, locals
  <1>9. CASE SaveVarInfo(t)
    <2>1. MadeFor(s)' \subseteq K /\ addressKey'[s] = a /\ p = "var"
      BY <1>9, MadeForGrows, WhoWrites DEF SaveVarInfo, SaveApikey, Writes, LinkAddress
    <2>2. a # Nil /\ varDevice'[s] = a
      BY <1>1, <1>2, <1>3, <1>9 DEF SaveVarInfo, Fits
    <2>. QED
      BY <1>1, <1>3, <1>9, <2>1, <2>2 DEF SaveVarInfo
  <1>10. CASE NewDevice(t)
    BY <1>1, <1>3, <1>5, <1>10 DEF NewDevice
  <1>11. CASE NewDeviceExists(t)
    BY <1>1, <1>3, <1>4, <1>5, <1>11 DEF NewDeviceExists
  <1>12. CASE NewDeviceRead(t)
    BY <1>1, <1>3, <1>4, <1>5, <1>12 DEF NewDeviceRead
  <1>13. CASE LinkDevice(t)
    BY <1>1, <1>3, <1>5, <1>13 DEF LinkDevice
  <1>14. CASE ListWidget(t) /\ ~Finish(t)
    BY <1>1, <1>3, <1>5, <1>14 DEF ListWidget
  <1>15. CASE PushExists(t) /\ ~Finish(t)
    <2>1. d \notin keyed \/ Goto(t, "pRead")
      BY <1>15 DEF PushExists, Exists
    <2>2. d \notin keyed => K = {}
      <3>1. K \subseteq keyed /\ Nil \notin keyed
        BY <1>2 DEF MadeFor, TypeInv, StoreOK
      <3>2. K \subseteq {a} /\ (a = Nil \/ a = d)
        BY <1>3, <1>15 DEF PushExists
      <3>. QED
        BY <3>1, <3>2
    <2>. QED
      BY <1>1, <1>3, <1>5, <1>15, <2>1, <2>2 DEF PushExists
  <1>16. CASE PushRead(t)
    BY <1>1, <1>2, <1>3, <1>5, <1>16 DEF PushRead, ReadId
  <1>17. CASE StatusLookup(t)
    BY <1>1, <1>3, <1>5, <1>17 DEF StatusLookup
  <1>18. CASE ReadVarInfo(t)
    <2>1. o \in {"push", "control"} /\ v = a /\ (i = 0 \/ a # Nil) /\ i # 0
      BY <1>3, <1>18 DEF ReadVarInfo, Fits
    <2>2. held'[t] = a /\ pc'[t] = "var" /\ op'[t] = o /\ p = "varRead"
      BY <1>1, <1>18, <2>1 DEF ReadVarInfo
    <2>. QED
      BY <1>3, <1>5, <2>1, <2>2
  <1>19. CASE TrimLog(t) /\ ~Finish(t)
    BY <1>1, <1>3, <1>5, <1>19 DEF TrimLog
  <1>20. CASE ClaimRead(t) \/ UpdateRead(t) \/ DeleteReadApikey(t)
    <2>1. /\ p \in {"cRead", "uRead", "dKey"}
          /\ Finish(t) \/ pc'[t] \in {"cSave", "uSave", "dDel"}
      BY <1>1, <1>20 DEF ClaimRead, UpdateRead, DeleteReadApikey, ReadProfile
    <2>. QED
      BY <1>3, <1>5, <1>7, <2>1
  <1>. HIDE DEF Serving, ServeFits, Linked, SensorLabels, MakerLabels, ReadLabels, ValueLabels,
                LinkLabels, CreateSteps, Stays, At, Goto, GotoInfo, locals
  <1>21. CASE /\ ~Finish(t)
              /\ \/ SaveDevice(t) \/ SaveApikey(t) \/ PublishApikey(t) \/ ListDevice(t) \/ SaveWidget(t)
                 \/ StatusExists(t) \/ ListValue(t) \/ PushValue(t) \/ UpdateDeviceInfo(t)
                 \/ ClaimLink(t)
                 \/ ClaimUnlist(t) \/ UpdateExists(t) \/ UpdateMember(t) \/ DeleteStep(t)
              /\ ~DeleteReadApikey(t)
    <2>1. p # "link"
      BY <1>21
         DEF At, SaveDevice, SaveApikey, PublishApikey, ListDevice, SaveWidget, StatusExists,
             ListValue, PushValue, UpdateDeviceInfo, ClaimLink, ClaimUnlist, UpdateExists,
             UpdateMember, DeleteStep, DeleteExists, DeleteHash, UnlistDevice, ForgetApikey,
             UnlinkDevice, DeleteWidget, UnlistWidget, DeletedEvent, DeleteValueList
    <2>. QED
      BY <1>6, <1>21, <2>1, FlowSteps DEF DeleteStep
  <1>22. ~ListFactory(t)
    BY <1>4 DEF ListFactory, MakerLabels, CreateSteps, At
  <1>. QED
    BY <1>7, <1>8, <1>9, <1>10, <1>11, <1>12, <1>13, <1>14, <1>15, <1>16, <1>17, <1>18, <1>19,
       <1>20, <1>21,
       <1>22 DEF Step, CreateStep, LinkStep, PushStep, ProfileStep, DeleteStep

\* A handler that takes up a request for a sensor no other serves finds the sensor at rest.
LEMMA RequestServes ==
  ASSUME TypeInv, SensorInv, NEW t \in Threads, Request(t),
         NEW s \in Sensors \ crowded', sensor'[t] = s
  PROVE  /\ \A r \in Threads \ {t} : sensor[r] # s
         /\ Serving(s, t)'
  <1>1. /\ pc \in [Threads -> Labels] /\ op \in [Threads -> Operations]
        /\ dev \in [Threads -> Ids]
        /\ sensor \in [Threads -> Sensors \cup {Nil}] /\ keyed \subseteq DeviceIds
    BY DEF TypeInv, StoreOK, LocalsOK, HandlersOK
  <1>2. Nil \notin DeviceIds /\ s # Nil
    BY RegistryAssumption DEF DeviceIds
  <1>3. /\ UNCHANGED <<keyed, made, addressKey, varDevice>> /\ crowded \subseteq crowded'
        /\ sensor[t] = Nil
    <2>1. pc[t] = "idle" => sensor[t] = Nil
      BY DEF TypeInv, LocalsOK, LocalOK, Fits
    <2>. QED
      BY <2>1
         DEF Request, AddFactoryDevices, AddDIYDevice, Push, Control, GetSensorDevice, Serve,
             Claim, Update, Delete, RemoveLog, Start, At, store, hashVars, sensorVars,
             historyVars
  <1>4. (\A r \in Threads : sensor[r] # s) =>
          /\ MadeFor(s) \subseteq {addressKey[s]} /\ varDevice[s] = addressKey[s]
          /\ MadeFor(s)' = MadeFor(s)
    BY <1>3 DEF SensorInv, SensorOK, MadeFor
  <1>. USE DEF ServeFits, Linked, ReadLabels, ValueLabels, LinkLabels, CreateSteps
  <1>5. ASSUME NEW u \in Users, AddDIYDevice(t, u, s)
        PROVE  /\ \A r \in Threads : sensor[r] # s
               /\ Serving(s, t)'
    <2>1. addressKey[s] = Nil /\ \A r \in Threads : sensor[r] # s
      BY <1>5 DEF AddDIYDevice
    <2>2. MadeFor(s)' = {}
      BY <1>1, <1>2, <1>4, <2>1 DEF MadeFor
    <2>3. pc'[t] = "new"
      BY <1>1, <1>5 DEF AddDIYDevice, Start
    <2>. QED
      BY <1>3, <1>4, <2>1, <2>2, <2>3 DEF Serving
  <1>6. ASSUME NEW u \in Users, Push(t, u, s) \/ Control(t, u, s)
        PROVE  /\ \A r \in Threads \ {t} : sensor[r] # s
               /\ Serving(s, t)'
    <2>1. \A r \in Threads \ {t} : sensor[r] # s
      BY <1>6 DEF Push, Control, GetSensorDevice, Serve
    <2>2. pc'[t] = "pLen" /\ dev'[t] = IF addressKey[s] = Nil THEN 0 ELSE addressKey[s]
      BY <1>1, <1>6 DEF Push, Control, GetSensorDevice, Start
    <2>3. \A r \in Threads : sensor[r] # s
      BY <1>2, <1>3, <2>1
    <2>. QED
      BY <1>3, <1>4, <2>1, <2>2, <2>3 DEF Serving
  <1>. HIDE DEF ServeFits, Linked, ReadLabels, ValueLabels, LinkLabels, CreateSteps
  <1>7. \E u \in Users : AddDIYDevice(t, u, s) \/ Push(t, u, s) \/ Control(t, u, s)
    <2>1. ASSUME NEW u \in Users,
                 NEW r \in Sensors, AddDIYDevice(t, u, r) \/ Push(t, u, r) \/ Control(t, u, r)
          PROVE  r = s
      BY <1>1, <2>1 DEF AddDIYDevice, Push, Control, GetSensorDevice, Start
    <2>2. AddFactoryDevices(t) \/ (\E u \in Users, d \in Ids : Claim(t, u, d) \/ Update(t, u, d)
                                      \/ Delete(t, u, d)
                                      \/ RemoveLog(t, u, d)) => sensor'[t] = Nil
      BY <1>1, <1>3 DEF AddFactoryDevices, Claim, Update, Delete, RemoveLog, Start
    <2>. QED
      BY <1>2, <2>1, <2>2 DEF Request
  <1>. QED
    BY <1>5, <1>6, <1>7

\* A step keeps the handler's sensor, or leaves it with the handler idle.
LEMMA SensorKept ==
  ASSUME TypeInv, NEW t \in Threads, ~Crash, Step(t) \/ Abort(t)
  PROVE  sensor'[t] = sensor[t] \/ (Finish(t) /\ pc'[t] = "idle" /\ sensor'[t] = Nil)
  <1>1. pc \in [Threads -> Labels] /\ sensor \in [Threads -> Sensors \cup {Nil}]
    BY DEF TypeInv, LocalsOK, HandlersOK
  <1>2. Finish(t) => pc'[t] = "idle" /\ sensor'[t] = Nil
    BY <1>1 DEF Finish
  <1>3. CASE \E p : Goto(t, p)
    BY <1>3 DEF Goto, locals
  <1>. USE DEF Goto, GotoInfo, ReadProfile, locals
  <1>4. CASE NewDevice(t) \/ NewDeviceExists(t) \/ NewDeviceRead(t)
    BY <1>2, <1>4 DEF NewDevice, NewDeviceExists, NewDeviceRead
  <1>5. CASE SaveVarInfo(t) \/ LinkDevice(t) \/ ListWidget(t)
    BY <1>2, <1>5 DEF SaveVarInfo, LinkDevice, ListWidget
  <1>6. CASE PushExists(t) \/ PushRead(t) \/ StatusLookup(t) \/ ReadVarInfo(t) \/ TrimLog(t)
    BY <1>2, <1>6 DEF PushExists, PushRead, StatusLookup, ReadVarInfo, TrimLog
  <1>7. CASE ClaimRead(t) \/ UpdateRead(t) \/ DeleteReadApikey(t)
    BY <1>2, <1>7 DEF ClaimRead, UpdateRead, DeleteReadApikey
  <1>. HIDE DEF Goto, GotoInfo, ReadProfile, locals
  <1>. QED
    BY <1>2, <1>3, <1>4, <1>5, <1>6, <1>7, FlowSteps
       DEF Step, CreateStep, LinkStep, PushStep, ProfileStep, DeleteStep

\* Fewer devices made for the sensor fit as well.
LEMMA FewerFit ==
  ASSUME NEW K, NEW L, NEW a, NEW v, NEW p, NEW o, NEW d, NEW i, NEW h,
         ServeFits(K, a, v, p, o, d, i, h), L \subseteq K
  PROVE  ServeFits(L, a, v, p, o, d, i, h)
  BY DEF ServeFits

\* A sensor once crowded stays so.
LEMMA CrowdedGrows ==
  ASSUME NEW t \in Threads, Request(t) \/ Step(t) \/ Abort(t)
  PROVE  crowded \subseteq crowded'
  <1>1. Request(t) => crowded \subseteq crowded'
    BY DEF Request, AddFactoryDevices, AddDIYDevice, Push, Control, GetSensorDevice, Serve,
           Claim, Update, Delete, RemoveLog, historyVars
  <1>2. Abort(t) \/ Crash => crowded \subseteq crowded'
    BY DEF Abort, Crash
  <1>. QED
    BY <1>1, <1>2, WhoWrites DEF Writes

\* A step of a handler that neither serves the sensor nor comes to serve it.
LEMMA ElsewhereOK ==
  ASSUME TypeInv, IdInv, MadeInv, NEW t \in Threads, Request(t) \/ Step(t) \/ Abort(t), Moves(t),
         NEW s \in Sensors, SensorOK(s), sensor[t] # s, sensor'[t] # s
  PROVE  SensorOK(s)'
  <1>1. MadeFor(s)' \subseteq MadeFor(s)
    BY MadeForGrows
  <1>2. addressKey'[s] = addressKey[s] /\ varDevice'[s] = varDevice[s]
    BY WhoWrites DEF Writes, LinkAddress, SaveVarInfo, TypeInv, StoreOK
  <1>3. \A r \in Threads : sensor'[r] = s <=> sensor[r] = s
    BY DEF Moves, Keeps
  <1>4. ASSUME NEW r \in Threads, sensor'[r] = s PROVE Serving(s, r)'
    <2>1. r # t /\ Serving(s, r)
      BY <1>3, <1>4 DEF SensorOK
    <2>2. /\ pc'[r] = pc[r] /\ op'[r] = op[r] /\ dev'[r] = dev[r] /\ info'[r] = info[r]
          /\ held'[r] = held[r]
      BY <2>1 DEF Moves, Keeps
    <2>. QED
      BY <1>1, <1>2, <2>1, <2>2, FewerFit DEF Serving
  <1>. QED
    BY <1>1, <1>2, <1>3, <1>4 DEF SensorOK

\* A step of the handler that serves the sensor.
LEMMA ServerOK ==
  ASSUME TypeInv, IdInv, MadeInv, NEW t \in Threads, Step(t), ~Crash, Moves(t),
         NEW s \in Sensors, SensorOK(s), sensor[t] = s
  PROVE  SensorOK(s)'
  <1>1. s # Nil /\ \A r \in Threads \ {t} : sensor[r] # s /\ sensor'[r] # s
    BY RegistryAssumption DEF SensorOK, Moves, Keeps
  <1>2. Serving(s, t)'
    BY ServingStep DEF SensorOK
  <1>3. CASE sensor'[t] = s
    BY <1>1, <1>2, <1>3 DEF SensorOK
  <1>4. CASE sensor'[t] # s
    <2>1. pc'[t] = "idle"
      BY <1>4, SensorKept
    <2>2. "idle" \notin SensorLabels \cup MakerLabels \cup {"new"}
      BY DEF SensorLabels, MakerLabels, ReadLabels, ValueLabels, LinkLabels, CreateSteps
    <2>3. MadeFor(s)' \subseteq {addressKey'[s]} /\ varDevice'[s] = addressKey'[s]
      BY <1>2, <2>1, <2>2, RestFits DEF Serving
    <2>. QED
      BY <1>1, <1>4, <2>3 DEF SensorOK
  <1>. QED
    BY <1>3, <1>4

\* SensorInv holds at the start,
LEMMA SensorInit == Init => SensorInv
  BY RegistryAssumption DEF Init, SensorInv, SensorOK, MadeFor

\* and after every step.
LEMMA SensorStep ==
  ASSUME TypeInv, IdInv, MadeInv, SensorInv, [Next]_vars
  PROVE  SensorInv'
  <1>1. CASE UNCHANGED vars
    <2>1. UNCHANGED <<store, pc, locals, historyVars>>
      BY <1>1 DEF vars
    <2>. QED
      BY <2>1
         DEF store, hashVars, sensorVars, locals, historyVars, SensorInv, SensorOK, Serving,
             MadeFor
  <1>2. ASSUME NEW t \in Threads, Request(t) \/ Step(t) \/ Abort(t), NEW s \in Sensors \ crowded'
        PROVE  SensorOK(s)'
    <2>1. SensorOK(s) /\ s # Nil
      BY <1>2, CrowdedGrows, RegistryAssumption DEF SensorInv
    <2>2. CASE Crash
      <3>1. /\ UNCHANGED <<keyed, made, addressKey, varDevice>>
            /\ \A r \in Threads : sensor[r] # s /\ sensor'[r] # s
        BY <1>2, <2>1, <2>2 DEF Crash, store, hashVars, sensorVars, Disturbed
      <3>. QED
        BY <2>1, <3>1 DEF SensorOK, MadeFor
    <2>3. CASE ~Crash
      <3>1. Moves(t)
        BY <1>2, <2>3, HandlersStep DEF TypeInv
      <3>2. CASE sensor[t] = s
        <4>1. ~Abort(t)
          BY <1>2, <2>1, <3>2 DEF Abort, Disturbed
        <4>2. ~Request(t)
          <5>1. pc[t] # "idle"
            BY <2>1, <3>2 DEF TypeInv, LocalsOK, LocalOK, Fits
          <5>. QED
            BY <5>1
               DEF Request, AddFactoryDevices, AddDIYDevice, Push, Control, GetSensorDevice,
                   Claim, Update, Delete, RemoveLog, Start, At
        <4>. QED
          BY <1>2, <2>1, <2>3, <3>1, <3>2, <4>1, <4>2, ServerOK
      <3>3. CASE sensor[t] # s /\ sensor'[t] = s
        <4>1. Request(t)
          BY <1>2, <2>1, <2>3, <3>3, SensorKept
        <4>2. Serving(s, t)' /\ \A r \in Threads \ {t} : sensor'[r] # s
          BY <1>2, <3>1, <3>3, <4>1, RequestServes DEF Moves, Keeps
        <4>. QED
          BY <3>3, <4>2 DEF SensorOK
      <3>4. CASE sensor[t] # s /\ sensor'[t] # s
        BY <1>2, <2>1, <3>1, <3>4, ElsewhereOK
      <3>. QED
        BY <3>2, <3>3, <3>4
    <2>. QED
      BY <2>2, <2>3
  <1>. QED
    BY <1>1, <1>2 DEF Next, SensorInv

\* A sensor no two handlers served at once has one device at most, whatever handlers of
\* other sensors, claims, updates and deletions did between the check and the creation.
THEOREM SensorsHaveOneDevice == Spec => []OneDevicePerSensor
  <1>1. ASSUME TypeInv, MadeInv, SensorInv PROVE OneDevicePerSensor
    <2>1. SUFFICES ASSUME NEW s \in Sensors \ crowded, NEW d \in DeviceIds, NEW e \in DeviceIds,
                          Whole(d), Whole(e), address[d] = s, address[e] = s
                   PROVE  d = e
      BY DEF OneDevicePerSensor
    <2>2. s # Nil /\ DeviceIds \subseteq Ids /\ 0 \notin DeviceIds
      BY RegistryAssumption DEF DeviceIds, Ids
    <2>3. d \in MadeFor(s) /\ e \in MadeFor(s)
      BY <1>1, <2>1, <2>2 DEF MadeInv, MadeStore, Whole, MadeFor
    <2>4. CASE \E t \in Threads : sensor[t] = s
      BY <1>1, <2>3, <2>4 DEF SensorInv, SensorOK, Serving, ServeFits
    <2>5. CASE \A t \in Threads : sensor[t] # s
      BY <1>1, <2>3, <2>5 DEF SensorInv, SensorOK
    <2>. QED
      BY <2>4, <2>5
  <1>. QED
    BY TypeInit, TypeStep, IdInit, IdStep, MadeInit, MadeStep, SensorInit, SensorStep, <1>1,
       PTL
       DEF Spec

\* Between the messages of such a sensor its variable is that of the device its address
\* leads to, though the variable is written back many commands after it was read.
THEOREM VariablesCurrent == Spec => []VarOfCurrentDevice
  <1>1. SensorInv => VarOfCurrentDevice
    BY DEF SensorInv, SensorOK, VarOfCurrentDevice
  <1>. QED
    BY TypeInit, TypeStep, IdInit, IdStep, MadeInit, MadeStep, SensorInit, SensorStep, <1>1,
       PTL
       DEF Spec
=============================================================================
