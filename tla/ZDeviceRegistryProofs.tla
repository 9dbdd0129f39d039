------------------------ MODULE ZDeviceRegistryProofs -------------------------
(***************************************************************************)
(* ZDeviceRegistry is type correct, for any finite set of threads and any   *)
(* users, sensors and bounds.                                              *)
(***************************************************************************)
EXTENDS ZDeviceRegistry, TLAPS, FiniteSetTheorems, SequenceTheorems

\* The keys in Redis.
StoreOK ==
    /\ nextDev \in 0..MaxDevices
    /\ address \in [Ids -> Sensors \cup {NoAddress, Nil}]
    /\ keyed \subseteq DeviceIds
    /\ byApikey \subseteq DeviceIds
    /\ deviceSet \subseteq DeviceIds
    /\ factory \subseteq DeviceIds
    /\ addressKey \in [Sensors -> DeviceIds \cup {Nil}]
    /\ varDevice \in [Sensors -> Ids \cup {Nil}]
    /\ varList \subseteq DeviceIds
    /\ userDevices \in [Users -> SUBSET Ids]
    /\ widgets \subseteq Ids
    /\ userWidgets \in [Users -> SUBSET Ids]

Entries == [from : Sensors, old : BOOLEAN]
LogOK == log \in [Ids -> Seq(Entries)]

HistoryOK ==
    /\ made \in [Ids -> Sensors \cup {NoAddress, Nil}]
    /\ removed \subseteq Ids /\ early \subseteq Ids /\ torn \subseteq Ids
    /\ claimed \subseteq Ids
    /\ lost \in [Ids -> Nat]
    /\ crowded \subseteq Sensors

HandlersOK ==
    /\ requests \in 0..MaxRequests
    /\ pc \in [Threads -> Labels]
    /\ op \in [Threads -> Operations]
    /\ user \in [Threads -> Users \cup {Nil}]
    /\ sensor \in [Threads -> Sensors \cup {Nil}]
    /\ dev \in [Threads -> Ids]
    /\ info \in [Threads -> Ids \cup {Nil}]
    /\ held \in [Threads -> Ids \cup Sensors \cup {NoAddress, Nil}]

\* Where a handler is tells what it holds.
MakerLabels == CreateSteps \cup {"nLen", "nRead"}
ReadLabels == {"look", "lLen", "varRead"}
ValueLabels == {"list", "push", "trim"}
LinkLabels == {"own", "widget", "widgets"}
SensorLabels == ReadLabels \cup ValueLabels \cup LinkLabels \cup {"pLen", "pRead", "var"}
SaveLabels == {"cSave", "uSave"}

Fits(p, o, u, s, d, i, h) ==
    /\ p = "idle" => o = "none" /\ s = Nil
    /\ p # "idle" => u \in Users \/ (o = "factory" /\ p \in MakerLabels \cup {"new"})
    /\ p \in MakerLabels \cup {"new"} =>
         (o = "factory" /\ s = Nil) \/ (o \in {"diy", "sensor"} /\ s \in Sensors)
    /\ p \in MakerLabels => d \in DeviceIds
    /\ p \in SensorLabels => s \in Sensors
    /\ p \in LinkLabels => o \in {"diy", "sensor"}
    /\ p \in ReadLabels \cup {"pLen", "pRead"} => o \in {"push", "control"}
    /\ p = "var" => o \in {"diy", "sensor"} \/ (o \in {"push", "control"} /\ h \in Ids)
    /\ p \in ValueLabels => o \in {"diy", "push", "control"}
    /\ p \in ValueLabels \cup {"var", "own"} =>
         IF o \in {"diy", "sensor"} THEN d \in DeviceIds ELSE i \in DeviceIds
    /\ p \in ReadLabels \cup SaveLabels \cup {"widget", "widgets", "cOwn", "cSrem"} => i \in Ids
    /\ p \in SaveLabels => h \in Sensors \cup {NoAddress}
    /\ p \in {"dDel", "dSrem", "dHdel"} => h \in {d, Nil}

LocalOK(t) == Fits(pc[t], op[t], user[t], sensor[t], dev[t], info[t], held[t])
LocalsOK == HandlersOK /\ \A t \in Threads : LocalOK(t)

\* What a step of t does to the handlers: the others stay where they are.
Keeps(t) ==
    \A r \in Threads \ {t} :
        /\ pc'[r] = pc[r] /\ op'[r] = op[r] /\ user'[r] = user[r] /\ sensor'[r] = sensor[r]
        /\ dev'[r] = dev[r] /\ info'[r] = info[r] /\ held'[r] = held[r]

Moves(t) == HandlersOK' /\ Keeps(t) /\ LocalOK(t)'

\* A handler that moves, with the others where they are, keeps the types.
LEMMA MovesType ==
  ASSUME LocalsOK, NEW t \in Threads, Moves(t)
  PROVE  LocalsOK'
  BY DEF LocalsOK, Moves, Keeps, LocalOK

\* A step of t alone leaves these values in its variables.
Leaves(t, p, o, u, s, d, i, h) ==
    /\ HandlersOK' /\ Keeps(t)
    /\ pc'[t] = p /\ op'[t] = o /\ user'[t] = u /\ sensor'[t] = s
    /\ dev'[t] = d /\ info'[t] = i /\ held'[t] = h

\* It is enough that the values a step leaves fit together.
LEMMA LeavesMoves ==
  ASSUME NEW t \in Threads, NEW p, NEW o, NEW u, NEW s, NEW d, NEW i, NEW h,
         Leaves(t, p, o, u, s, d, i, h), Fits(p, o, u, s, d, i, h)
  PROVE  Moves(t)
  BY DEF Leaves, Moves, LocalOK

\* A step that only goes on to p.
LEMMA GotoMoves ==
  ASSUME HandlersOK, NEW t \in Threads, NEW p \in Labels, Goto(t, p),
         Fits(p, op[t], user[t], sensor[t], dev[t], info[t], held[t])
  PROVE  Moves(t)
  BY DEF HandlersOK, Moves, Keeps, LocalOK, Goto, locals

\* A handler that is done.
LEMMA FinishMoves ==
  ASSUME LocalsOK, NEW t \in Threads, Finish(t)
  PROVE  Moves(t)
  <1>1. Fits("idle", "none", Nil, Nil, 0, Nil, Nil)
    BY DEF Fits, MakerLabels, CreateSteps, ReadLabels, ValueLabels, LinkLabels, SensorLabels,
           SaveLabels
  <1>. QED
    BY <1>1, RegistryAssumption
       DEF LocalsOK, HandlersOK, Finish, Labels, CreateSteps, Operations, Ids, Moves, Keeps,
           LocalOK

\* The steps that change nothing else of a handler, and keep what it holds fitting.
Flow ==
    { <<"save", "key">>, <<"key", "byKey">>, <<"byKey", "set">>, <<"set", "link">>,
      <<"link", "nLen">>, <<"nLen", "nRead">>,
      <<"list", "push">>, <<"push", "trim">>, <<"widget", "widgets">>,
      <<"pLen", "pRead">>, <<"lLen", "varRead">>,
      <<"cSave", "cOwn">>, <<"cOwn", "cSrem">>,
      <<"uLen", "uMember">>, <<"uMember", "uLen2">>, <<"uLen2", "uRead">>,
      <<"dLen", "dKey">>, <<"dLen", "dOwn">>, <<"dDel", "dSrem">>, <<"dSrem", "dHdel">>,
      <<"dHdel", "dOwn">>,
      <<"dOwn", "dWidget">>, <<"dWidget", "dWidgets">>, <<"dWidgets", "deref">> }

\* The steps of Flow keep what a handler holds fitting.
LEMMA FlowMoves ==
  ASSUME LocalsOK, NEW t \in Threads, NEW p, <<pc[t], p>> \in Flow, Goto(t, p)
  PROVE  Moves(t)
  <1>1. Fits(p, op[t], user[t], sensor[t], dev[t], info[t], held[t])
    BY DEF Fits, MakerLabels, CreateSteps, ReadLabels, ValueLabels, LinkLabels, SensorLabels,
           SaveLabels, Flow, LocalsOK, LocalOK
  <1>2. p \in Labels
    BY DEF Flow, Labels, CreateSteps
  <1>. QED
    BY <1>1, <1>2, GotoMoves DEF LocalsOK

\* These actions go on along Flow, end the handler, or crash.
LEMMA FlowSteps ==
  ASSUME NEW t \in Threads,
     \/ SaveDevice(t) \/ SaveApikey(t) \/ PublishApikey(t) \/ ListDevice(t) \/ LinkAddress(t)
     \/ ListFactory(t)
     \/ SaveWidget(t) \/ StatusExists(t) \/ ListValue(t) \/ PushValue(t)
     \/ UpdateDeviceInfo(t) \/ ClaimLink(t) \/ ClaimUnlist(t) \/ UpdateExists(t)
     \/ UpdateMember(t)
     \/ DeleteExists(t) \/ DeleteHash(t) \/ UnlistDevice(t) \/ ForgetApikey(t)
     \/ UnlinkDevice(t) \/ DeleteWidget(t)
     \/ UnlistWidget(t) \/ DeletedEvent(t) \/ DeleteValueList(t) \/ Abort(t)
   PROVE Crash \/ Finish(t) \/ \E p : <<pc[t], p>> \in Flow /\ Goto(t, p)
   BY DEF Flow, At, SaveDevice, SaveApikey, PublishApikey, ListDevice, LinkAddress,
          ListFactory, SaveWidget, StatusExists, ListValue, PushValue, UpdateDeviceInfo,
          ClaimLink, ClaimUnlist, UpdateExists, UpdateMember, DeleteExists, DeleteHash,
          UnlistDevice, ForgetApikey, UnlinkDevice, DeleteWidget, UnlistWidget, DeletedEvent,
          DeleteValueList, Abort

\* A request leaves the handler at its first command with values that fit.
LEMMA RequestMoves ==
  ASSUME StoreOK, LocalsOK, NEW t \in Threads, Request(t)
  PROVE  Moves(t)
  <1>. USE DEF Labels, CreateSteps, Operations, MakerLabels, ReadLabels, ValueLabels,
               LinkLabels, SensorLabels, SaveLabels
  <1>1. 0 \in Ids
    BY RegistryAssumption DEF Ids
  <1>2. ASSUME NEW o \in Operations, NEW p \in Labels, NEW u \in Users \cup {Nil},
               NEW s \in Sensors \cup {Nil}, NEW d \in Ids,
               Start(t, o, p, u, s, d), Fits(p, o, u, s, d, info[t], held[t])
        PROVE  Moves(t)
    <2>1. Leaves(t, p, o, u, s, d, info[t], held[t])
      BY <1>2, RegistryAssumption DEF Start, LocalsOK, HandlersOK, Leaves, Keeps
    <2>. QED
      BY <1>2, <2>1, LeavesMoves
  <1>3. CASE AddFactoryDevices(t)
    BY <1>1, <1>2, <1>3 DEF AddFactoryDevices, Fits
  <1>4. ASSUME NEW u \in Users, NEW s \in Sensors, AddDIYDevice(t, u, s) PROVE Moves(t)
    BY <1>1, <1>2, <1>4 DEF AddDIYDevice, Fits
  <1>5. ASSUME NEW u \in Users, NEW s \in Sensors, NEW o \in {"push", "control"},
               GetSensorDevice(t, u, s, o)
        PROVE  Moves(t)
    <2>. DEFINE d == IF addressKey[s] = Nil THEN 0 ELSE addressKey[s]
    <2>1. d \in Ids
      BY <1>1, RegistryAssumption DEF StoreOK, Ids, DeviceIds
    <2>2. Fits("pLen", o, u, s, d, info[t], held[t])
      BY DEF Fits
    <2>. QED
      BY <1>2, <1>5, <2>1, <2>2 DEF GetSensorDevice
  <1>6. ASSUME NEW u \in Users,
               NEW d \in Ids, Claim(t, u, d) \/ Update(t, u, d) \/ RemoveLog(t, u, d)
        PROVE  Moves(t)
    <2>1. /\ Fits("cRead", "claim", u, Nil, d, info[t], held[t])
          /\ Fits("uLen", "update", u, Nil, d, info[t], held[t])
          /\ Fits("lDel", "removeLog", u, Nil, d, info[t], held[t])
      BY DEF Fits
    <2>. QED
      BY <1>2, <1>6, <2>1 DEF Claim, Update, RemoveLog
  <1>7. ASSUME NEW u \in Users, NEW d \in Ids, Delete(t, u, d) PROVE Moves(t)
    <2>. DEFINE i == IF Exists(d) THEN d ELSE Nil
    <2>1. Fits("dLen", "delete", u, sensor[t], d, i, held[t])
      BY DEF Fits
    <2>2. Leaves(t, "dLen", "delete", u, sensor[t], d, i, held[t])
      BY <1>7, RegistryAssumption DEF Delete, LocalsOK, HandlersOK, Leaves, Keeps
    <2>. QED
      BY <2>1, <2>2, LeavesMoves
  <1>. QED
    BY <1>3, <1>4, <1>5, <1>6, <1>7 DEF Request, Push, Control

\* The steps that read into the handler's variables or choose between ways on.
LEMMA ReadMoves ==
  ASSUME StoreOK, LocalsOK, NEW t \in Threads, ~Crash, ~Finish(t),
     \/ NewDevice(t) \/ NewDeviceExists(t) \/ NewDeviceRead(t) \/ SaveVarInfo(t)
     \/ LinkDevice(t) \/ ListWidget(t)
     \/ PushExists(t) \/ PushRead(t) \/ StatusLookup(t) \/ ReadVarInfo(t) \/ TrimLog(t)
     \/ ClaimRead(t) \/ UpdateRead(t) \/ DeleteReadApikey(t)
  PROVE  Moves(t)
  <1>. DEFINE d == dev[t] i == info[t] h == held[t] o == op[t]
  <1>1. /\ pc[t] \in Labels /\ op[t] \in Operations /\ user[t] \in Users \cup {Nil}
        /\ sensor[t] \in Sensors \cup {Nil} /\ dev[t] \in Ids /\ info[t] \in Ids \cup {Nil}
        /\ held[t] \in Ids \cup Sensors \cup {NoAddress, Nil}
    BY DEF LocalsOK, HandlersOK
  <1>2. Fits(pc[t], op[t], user[t], sensor[t], dev[t], info[t], held[t]) /\ HandlersOK
    BY DEF LocalsOK, LocalOK
  <1>3. /\ 0 \in Ids /\ ReadId(dev[t]) \in Ids /\ DeviceIds \subseteq Ids
        /\ \A n \in Ids : n # 0 => n \in DeviceIds
    BY <1>1, RegistryAssumption DEF Ids, ReadId, DeviceIds
  <1>4. Nil \notin Ids /\ Nil \notin Sensors /\ Nil # NoAddress
    BY RegistryAssumption DEF Ids
  <1>. USE DEF Labels, CreateSteps, Operations, MakerLabels, ReadLabels, ValueLabels,
               LinkLabels, SensorLabels, SaveLabels
  <1>5. CASE NewDevice(t)
    <2>. DEFINE n == nextDev + 1
    <2>1. n \in DeviceIds
      BY <1>5, RegistryAssumption DEF NewDevice, StoreOK, DeviceIds
    <2>2. Fits("save", o, user[t], sensor[t], n, i, h)
      BY <1>2, <1>5, <2>1 DEF NewDevice, At, Fits
    <2>3. Leaves(t, "save", o, user[t], sensor[t], n, i, h)
      BY <1>2, <1>5, <1>3, <2>1 DEF NewDevice, Leaves, Keeps, HandlersOK
    <2>. QED
      BY <2>2, <2>3, LeavesMoves
  <1>6. CASE NewDeviceExists(t)
    <2>1. Goto(t, "nRead") \/ (o # "factory" /\ GotoInfo(t, "var", Nil))
      BY <1>6 DEF NewDeviceExists
    <2>2. Fits("nRead", o, user[t], sensor[t], d, i, h)
      BY <1>2, <1>6 DEF NewDeviceExists, At, Fits
    <2>3. o # "factory" => Fits("var", o, user[t], sensor[t], d, Nil, h)
      BY <1>2, <1>6 DEF NewDeviceExists, At, Fits
    <2>4. \/ Leaves(t, "nRead", o, user[t], sensor[t], d, i, h)
          \/ o # "factory" /\ Leaves(t, "var", o, user[t], sensor[t], d, Nil, h)
      BY <1>2, <2>1 DEF Goto, GotoInfo, locals, Leaves, Keeps, HandlersOK
    <2>. QED
      BY <2>2, <2>3, <2>4, LeavesMoves
  <1>7. CASE NewDeviceRead(t)
    <2>1. \/ (o = "factory" /\ Goto(t, "new"))
          \/ (o # "factory" /\ GotoInfo(t, "var", ReadId(dev[t])))
      BY <1>7 DEF NewDeviceRead
    <2>2. o = "factory" => Fits("new", o, user[t], sensor[t], d, i, h)
      BY <1>2, <1>7 DEF NewDeviceRead, At, Fits
    <2>3. o # "factory" => Fits("var", o, user[t], sensor[t], d, ReadId(dev[t]), h)
      BY <1>2, <1>7 DEF NewDeviceRead, At, Fits
    <2>4. \/ o = "factory" /\ Leaves(t, "new", o, user[t], sensor[t], d, i, h)
          \/ o # "factory" /\ Leaves(t, "var", o, user[t], sensor[t], d, ReadId(dev[t]), h)
      BY <1>2, <1>3, <2>1 DEF Goto, GotoInfo, locals, Leaves, Keeps, HandlersOK
    <2>. QED
      BY <2>2, <2>3, <2>4, LeavesMoves
  <1>8. CASE SaveVarInfo(t)
    <2>1. Goto(t, IF o = "sensor" THEN "own" ELSE "list")
      BY <1>8 DEF SaveVarInfo
    <2>2. Fits(IF o = "sensor" THEN "own" ELSE "list", o, user[t], sensor[t], d, i, h)
      BY <1>2, <1>8 DEF SaveVarInfo, At, Fits
    <2>. QED
      BY <1>2, <2>1, <2>2, GotoMoves
  <1>9. CASE LinkDevice(t)
    <2>1. Goto(t, "widget") /\ i \in Ids
      BY <1>1, <1>9 DEF LinkDevice
    <2>2. Fits("widget", o, user[t], sensor[t], d, i, h)
      BY <1>2, <1>9, <2>1 DEF LinkDevice, At, Fits
    <2>. QED
      BY <1>2, <2>1, <2>2, GotoMoves
  <1>10. CASE ListWidget(t)
    <2>1. /\ pc' = [pc EXCEPT ![t] = "look"] /\ op' = [op EXCEPT ![t] = "push"]
          /\ UNCHANGED <<user, sensor, dev, info, held, requests>>
      BY <1>10 DEF ListWidget
    <2>2. Fits("look", "push", user[t], sensor[t], d, i, h)
      BY <1>2, <1>10 DEF ListWidget, At, Fits
    <2>3. Leaves(t, "look", "push", user[t], sensor[t], d, i, h)
      BY <1>2, <2>1 DEF Leaves, Keeps, HandlersOK
    <2>. QED
      BY <2>2, <2>3, LeavesMoves
  <1>11. CASE PushExists(t)
    <2>1. \/ Goto(t, "pRead")
          \/ /\ pc' = [pc EXCEPT ![t] = "new"] /\ op' = [op EXCEPT ![t] = "sensor"]
             /\ UNCHANGED <<user, sensor, dev, info, held, requests>>
      BY <1>11 DEF PushExists
    <2>2. /\ Fits("new", "sensor", user[t], sensor[t], d, i, h)
          /\ Fits("pRead", o, user[t], sensor[t], d, i, h)
      BY <1>2, <1>11 DEF PushExists, At, Fits
    <2>3. \/ Leaves(t, "pRead", o, user[t], sensor[t], d, i, h)
          \/ Leaves(t, "new", "sensor", user[t], sensor[t], d, i, h)
      BY <1>2, <2>1 DEF Goto, locals, Leaves, Keeps, HandlersOK
    <2>. QED
      BY <2>2, <2>3, LeavesMoves
  <1>12. CASE PushRead(t)
    <2>1. Fits("look", o, user[t], sensor[t], d, ReadId(dev[t]), h)
      BY <1>2, <1>3, <1>12 DEF PushRead, At, Fits
    <2>2. Leaves(t, "look", o, user[t], sensor[t], d, ReadId(dev[t]), h)
      BY <1>2, <1>3, <1>12 DEF PushRead, GotoInfo, Leaves, Keeps, HandlersOK
    <2>. QED
      BY <2>1, <2>2, LeavesMoves
  <1>13. CASE StatusLookup(t)
    <2>. DEFINE n == IF info[t] = 0 \/ addressKey[sensor[t]] = Nil THEN 0
                     ELSE addressKey[sensor[t]]
    <2>1. Fits("lLen", o, user[t], sensor[t], n, i, h) /\ sensor[t] \in Sensors
      BY <1>2, <1>13 DEF StatusLookup, At, Fits
    <2>2. n \in Ids
      BY <1>3, <2>1 DEF StoreOK
    <2>3. dev' = [dev EXCEPT ![t] = n] /\ pc' = [pc EXCEPT ![t] = "lLen"]
          /\ UNCHANGED <<op, user, sensor, info, held, requests>>
      BY <1>13 DEF StatusLookup
    <2>4. Leaves(t, "lLen", o, user[t], sensor[t], n, i, h)
      BY <1>2, <2>2, <2>3 DEF Leaves, Keeps, HandlersOK
    <2>. QED
      BY <2>1, <2>4, LeavesMoves
  <1>14. CASE ReadVarInfo(t)
    <2>1. PICK n \in Ids : held' = [held EXCEPT ![t] = n]
      BY <1>14 DEF ReadVarInfo
    <2>2. /\ pc' = [pc EXCEPT ![t] = "var"]
          /\ UNCHANGED <<op, user, sensor, dev, info, requests>> /\ i # 0
      BY <1>14 DEF ReadVarInfo
    <2>3. Fits("var", o, user[t], sensor[t], d, i, n)
      BY <1>2, <1>3, <1>14, <2>2 DEF ReadVarInfo, At, Fits
    <2>4. Leaves(t, "var", o, user[t], sensor[t], d, i, n)
      BY <1>2, <2>1, <2>2 DEF Leaves, Keeps, HandlersOK
    <2>. QED
      BY <2>3, <2>4, LeavesMoves
  <1>15. CASE TrimLog(t)
    <2>1. o = "diy" /\ Goto(t, "own")
      BY <1>15 DEF TrimLog
    <2>2. Fits("own", o, user[t], sensor[t], d, i, h)
      BY <1>2, <1>15, <2>1 DEF TrimLog, At, Fits
    <2>. QED
      BY <1>2, <2>1, <2>2, GotoMoves
  <1>16. CASE ClaimRead(t) \/ UpdateRead(t)
    <2>. DEFINE a == IF address[dev[t]] = Nil THEN NoAddress ELSE address[dev[t]]
    <2>1. PICK p \in SaveLabels : ReadProfile(t, p)
      BY <1>16 DEF ClaimRead, UpdateRead
    <2>2. a \in Sensors \cup {NoAddress}
      BY <1>1 DEF StoreOK
    <2>3. Fits(p, o, user[t], sensor[t], d, ReadId(dev[t]), a)
      BY <1>2, <1>3, <1>16, <2>2 DEF ClaimRead, UpdateRead, At, Fits
    <2>4. Leaves(t, p, o, user[t], sensor[t], d, ReadId(dev[t]), a)
      BY <1>2, <1>3, <2>1, <2>2 DEF ReadProfile, Leaves, Keeps, HandlersOK
    <2>. QED
      BY <2>3, <2>4, LeavesMoves
  <1>17. CASE DeleteReadApikey(t)
    <2>. DEFINE k == IF dev[t] \in keyed THEN dev[t] ELSE Nil
    <2>1. Fits("dDel", o, user[t], sensor[t], d, i, k)
      BY <1>2, <1>17 DEF DeleteReadApikey, At, Fits
    <2>2. Leaves(t, "dDel", o, user[t], sensor[t], d, i, k)
      BY <1>2, <1>17 DEF DeleteReadApikey, Leaves, Keeps, HandlersOK
    <2>. QED
      BY <2>1, <2>2, LeavesMoves
  <1>. QED
    BY <1>5, <1>6, <1>7, <1>8, <1>9, <1>10, <1>11, <1>12, <1>13, <1>14, <1>15, <1>16, <1>17

\* Every step moves one handler, unless it crashes them all.
LEMMA HandlersStep ==
  ASSUME StoreOK, LocalsOK, NEW t \in Threads, Request(t) \/ Step(t) \/ Abort(t)
  PROVE  Crash \/ Moves(t)
  <1>1. Request(t) => Moves(t)
    BY RequestMoves
  <1>2. ~Request(t) /\ ~Crash /\ ~Finish(t) => Moves(t)
    BY FlowSteps, FlowMoves, ReadMoves
       DEF Step, CreateStep, LinkStep, PushStep, ProfileStep, DeleteStep
  <1>. QED
    BY <1>1, <1>2, FinishMoves
-----------------------------------------------------------------------------
(* Which steps write which key.                                            *)

Writes(t) ==
    /\ UNCHANGED <<nextDev, made>> \/ NewDevice(t)
    /\ address' = address \/ SaveDevice(t) \/ UpdateDeviceInfo(t) \/ DeleteHash(t)
    /\ keyed' = keyed \/ SaveApikey(t) \/ DeleteHash(t)
    /\ byApikey' = byApikey \/ PublishApikey(t) \/ ForgetApikey(t)
    /\ deviceSet' = deviceSet \/ ListDevice(t) \/ UnlistDevice(t)
    /\ addressKey' = addressKey \/ LinkAddress(t)
    /\ varDevice' = varDevice \/ SaveVarInfo(t)
    /\ log' = log \/ PushValue(t) \/ TrimLog(t) \/ DeleteValueList(t)
    /\ userDevices' = userDevices \/ LinkDevice(t) \/ ClaimLink(t) \/ UnlinkDevice(t)
    /\ userWidgets' = userWidgets \/ ListWidget(t) \/ UnlistWidget(t)
    /\ removed' = removed \/ DeleteHash(t)
    /\ early' = early \/ DeleteHash(t) \/ UnlinkDevice(t)
    /\ torn' = torn \/ Abort(t) \/ Crash
    /\ lost' = lost \/ TrimLog(t) \/ Abort(t) \/ Crash
    /\ crowded' = crowded \/ Request(t) \/ Abort(t) \/ Crash

\* Every step writes the keys of its command, and no other.
LEMMA WhoWrites ==
  ASSUME NEW t \in Threads, Request(t) \/ Step(t) \/ Abort(t)
  PROVE  Writes(t)
  <1>. USE DEF Writes, store, hashVars, indexVars, sensorVars, logVars, userVars, historyVars
  <1>1. CASE Crash
    BY <1>1 DEF Crash
  <1>2. CASE Abort(t)
    BY <1>2 DEF Abort
  <1>3. CASE Request(t)
    <2>1. UNCHANGED <<store, made, removed, early, torn, claimed, lost>>
      BY <1>3
         DEF Request, AddFactoryDevices, AddDIYDevice, Push, Control, GetSensorDevice, Claim,
             Update, Delete, RemoveLog
    <2>. QED
      BY <1>3, <2>1
  <1>4. CASE NewDevice(t) \/ SaveDevice(t) \/ SaveApikey(t) \/ PublishApikey(t)
    BY <1>4 DEF NewDevice, SaveDevice, SaveApikey, PublishApikey
  <1>5. CASE \/ ListDevice(t) \/ LinkAddress(t) \/ ListFactory(t)
             \/ ((NewDeviceExists(t) \/ NewDeviceRead(t)) /\ ~Crash)
    BY <1>5 DEF ListDevice, LinkAddress, ListFactory, NewDeviceExists, NewDeviceRead
  <1>6. CASE (LinkDevice(t) /\ ~Crash) \/ SaveWidget(t) \/ ListWidget(t)
    BY <1>6 DEF LinkDevice, SaveWidget, ListWidget
  <1>7. CASE \/ PushExists(t) \/ PushRead(t) \/ StatusLookup(t) \/ StatusExists(t)
             \/ (ReadVarInfo(t) /\ ~Crash)
    BY <1>7 DEF PushExists, PushRead, StatusLookup, StatusExists, ReadVarInfo
  <1>8. CASE SaveVarInfo(t) \/ ListValue(t) \/ PushValue(t) \/ TrimLog(t)
    BY <1>8 DEF SaveVarInfo, ListValue, PushValue, TrimLog
  <1>9. CASE ClaimRead(t) \/ UpdateDeviceInfo(t) \/ ClaimLink(t) \/ ClaimUnlist(t)
    BY <1>9 DEF ClaimRead, UpdateDeviceInfo, ClaimLink, ClaimUnlist
  <1>10. CASE \/ UpdateExists(t) \/ UpdateMember(t) \/ UpdateRead(t) \/ DeleteExists(t)
              \/ DeleteReadApikey(t)
    BY <1>10 DEF UpdateExists, UpdateMember, UpdateRead, DeleteExists, DeleteReadApikey
  <1>11. CASE DeleteHash(t) \/ UnlistDevice(t) \/ ForgetApikey(t) \/ UnlinkDevice(t)
    BY <1>11 DEF DeleteHash, UnlistDevice, ForgetApikey, UnlinkDevice
  <1>12. CASE \/ DeleteWidget(t) \/ UnlistWidget(t) \/ (DeletedEvent(t) /\ ~Crash)
              \/ DeleteValueList(t)
    BY <1>12 DEF DeleteWidget, UnlistWidget, DeletedEvent, DeleteValueList
  <1>. HIDE DEF Writes, store, hashVars, indexVars, sensorVars, logVars, userVars, historyVars
  <1>. QED
    BY <1>1, <1>2, <1>3, <1>4, <1>5, <1>6, <1>7, <1>8, <1>9, <1>10, <1>11, <1>12
       DEF Step, CreateStep, LinkStep, PushStep, ProfileStep, DeleteStep

-----------------------------------------------------------------------------
(* The keys.                                                               *)

LEMMA StoreStep ==
  ASSUME StoreOK, LocalsOK, NEW t \in Threads, Request(t) \/ Step(t) \/ Abort(t)
  PROVE  StoreOK'
  <1>. USE DEF StoreOK
  <1>1. CASE UNCHANGED <<store>>
    BY <1>1 DEF store, hashVars, indexVars, sensorVars, logVars, userVars
  <1>2. Request(t) => UNCHANGED store
    BY DEF Request, AddFactoryDevices, AddDIYDevice, Push, Control, GetSensorDevice, Claim,
           Update, Delete, RemoveLog
  <1>3. Fits(pc[t], op[t], user[t], sensor[t], dev[t], info[t], held[t])
    BY DEF LocalsOK, LocalOK
  <1>4. /\ dev[t] \in Ids /\ info[t] \in Ids \cup {Nil} /\ user[t] \in Users \cup {Nil}
        /\ sensor[t] \in Sensors \cup {Nil}
    BY DEF LocalsOK, HandlersOK
  <1>5. CASE NewDevice(t)
    BY <1>5, RegistryAssumption
       DEF NewDevice, hashVars, indexVars, sensorVars, logVars, userVars
  <1>6. CASE \/ SaveDevice(t) \/ SaveApikey(t) \/ PublishApikey(t) \/ ListDevice(t)
             \/ LinkAddress(t) \/ ListFactory(t)
    <2>1. dev[t] \in DeviceIds /\ (op[t] = "factory" \/ sensor[t] \in Sensors)
      BY <1>3, <1>6
         DEF SaveDevice, SaveApikey, PublishApikey, ListDevice, LinkAddress, ListFactory, At,
             Fits, MakerLabels, CreateSteps
    <2>. QED
      BY <1>4, <1>6, <2>1
         DEF SaveDevice, SaveApikey, PublishApikey, ListDevice, LinkAddress, ListFactory,
             hashVars, indexVars, sensorVars, logVars, userVars
  <1>7. CASE SaveVarInfo(t) \/ ListValue(t)
    <2>1. /\ sensor[t] \in Sensors
          /\ SaveVarInfo(t) => op[t] \in {"diy", "sensor"} \/ held[t] \in Ids
          /\ ListValue(t) => Target(t) \in DeviceIds
      BY <1>3, <1>7 DEF SaveVarInfo, ListValue, At, Target, Fits, ValueLabels, SensorLabels
    <2>. QED
      BY <1>4, <1>7, <2>1
         DEF SaveVarInfo, ListValue, hashVars, indexVars, sensorVars, logVars, userVars
  <1>8. CASE (LinkDevice(t) /\ ~Crash) \/ SaveWidget(t) \/ ListWidget(t)
    <2>1. user[t] \in Users /\ info[t] \in Ids
      BY <1>3, <1>4, <1>8 DEF LinkDevice, SaveWidget, ListWidget, At, Fits, LinkLabels
    <2>. QED
      BY <1>8, <2>1
         DEF LinkDevice, SaveWidget, ListWidget, hashVars, indexVars, sensorVars, logVars,
             userVars
  <1>9. CASE PushValue(t) \/ TrimLog(t)
    BY <1>9 DEF PushValue, TrimLog, hashVars, indexVars, sensorVars, logVars, userVars
  <1>10. CASE UpdateDeviceInfo(t) \/ ClaimLink(t) \/ ClaimUnlist(t)
    <2>1. info[t] \in Ids /\ (UpdateDeviceInfo(t) => held[t] \in Sensors \cup {NoAddress})
      BY <1>3, <1>4, <1>10 DEF UpdateDeviceInfo, ClaimLink, ClaimUnlist, At, Fits, SaveLabels
    <2>. QED
      BY <1>4, <1>10, <2>1
         DEF UpdateDeviceInfo, ClaimLink, ClaimUnlist, hashVars, indexVars, sensorVars,
             logVars, userVars
  <1>11. CASE \/ DeleteHash(t) \/ UnlistDevice(t) \/ ForgetApikey(t) \/ DeleteWidget(t)
              \/ DeleteValueList(t)
    BY <1>4, <1>11
       DEF DeleteHash, UnlistDevice, ForgetApikey, DeleteWidget, DeleteValueList, hashVars,
           indexVars, sensorVars, logVars, userVars
  <1>12. CASE UnlinkDevice(t) \/ UnlistWidget(t)
    <2>1. user[t] \in Users \/ user[t] = Nil
      BY <1>4
    <2>. QED
      BY <1>12, <2>1
         DEF UnlinkDevice, UnlistWidget, hashVars, indexVars, sensorVars, logVars, userVars
  <1>13. CASE \/ NewDeviceExists(t) \/ NewDeviceRead(t) \/ PushExists(t) \/ PushRead(t)
              \/ StatusLookup(t) \/ StatusExists(t)
              \/ ReadVarInfo(t) \/ ClaimRead(t) \/ UpdateExists(t) \/ UpdateMember(t)
              \/ UpdateRead(t)
              \/ DeleteExists(t) \/ DeleteReadApikey(t) \/ DeletedEvent(t) \/ Abort(t) \/ Crash
    <2>1. UNCHANGED store
      BY <1>13
         DEF NewDeviceExists, NewDeviceRead, PushExists, PushRead, StatusLookup, StatusExists,
             ReadVarInfo, ClaimRead, UpdateExists, UpdateMember, UpdateRead, DeleteExists,
             DeleteReadApikey, DeletedEvent, Abort, Crash
    <2>. QED
      BY <1>1, <2>1
  <1>. QED
    BY <1>1, <1>2, <1>5, <1>6, <1>7, <1>8, <1>9, <1>10, <1>11, <1>12, <1>13
       DEF Step, CreateStep, LinkStep, PushStep, ProfileStep, DeleteStep

-----------------------------------------------------------------------------
(* The logs.                                                               *)

\* LTRIM 0 n-1.
LEMMA Trimmed ==
  ASSUME NEW S, NEW q \in Seq(S), NEW n \in Nat
  PROVE  LET m == IF Len(q) < n THEN Len(q) ELSE n
         IN  /\ SubSeq(q, 1, m) \in Seq(S) /\ Len(SubSeq(q, 1, m)) = m
             /\ \A i \in 1..m : SubSeq(q, 1, m)[i] = q[i]
  BY SubSeqProperties, LenProperties

\* LPUSH.
LEMMA Pushed ==
  ASSUME NEW S, NEW q \in Seq(S), NEW e \in S
  PROVE  /\ <<e>> \o q \in Seq(S) /\ Len(<<e>> \o q) = Len(q) + 1
         /\ \A i \in 1..Len(q) + 1 : (<<e>> \o q)[i] = IF i = 1 THEN e ELSE q[i - 1]
  BY ConcatProperties, LenProperties

\* The removal of the value keys makes the entries old.
LEMMA Aged ==
  ASSUME NEW q \in Seq(Entries)
  PROVE  LET r == [i \in DOMAIN q |-> [q[i] EXCEPT !.old = TRUE]]
         IN  /\ r \in Seq(Entries) /\ Len(r) = Len(q)
             /\ \A i \in 1..Len(q) : r[i].from = q[i].from
  <1>. DEFINE r == [i \in DOMAIN q |-> [q[i] EXCEPT !.old = TRUE]]
  <1>1. Len(q) \in Nat /\ DOMAIN q = 1..Len(q) /\ \A i \in 1..Len(q) : q[i] \in Entries
    BY LenProperties, ElementOfSeq
  <1>2. \A e \in Entries : /\ [e EXCEPT !.old = TRUE] \in Entries
                            /\ [e EXCEPT !.old = TRUE].from = e.from
    BY DEF Entries
  <1>3. r \in [1..Len(q) -> Entries]
    BY <1>1, <1>2
  <1>4. r \in Seq(Entries) /\ Len(r) = Len(q)
    BY <1>1, <1>3, LenProperties
  <1>. QED
    BY <1>1, <1>2, <1>4

\* Three steps change a log, two of them the log of a device that exists.
LEMMA LogSteps ==
  ASSUME LocalsOK, NEW t \in Threads, Request(t) \/ Step(t) \/ Abort(t)
  PROVE  /\ log' = log \/ PushValue(t) \/ TrimLog(t) \/ DeleteValueList(t)
         /\ PushValue(t) \/ TrimLog(t) => Target(t) \in DeviceIds /\ sensor[t] \in Sensors
  <1>1. PushValue(t) \/ TrimLog(t) => Target(t) \in DeviceIds /\ sensor[t] \in Sensors
    BY DEF LocalsOK, LocalOK, Fits, PushValue, TrimLog, At, Target, ValueLabels, SensorLabels
  <1>. QED
    BY <1>1, WhoWrites DEF Writes

\* The logs hold entries whatever is pushed, cut and aged.
LEMMA LogStep ==
  ASSUME LogOK, LocalsOK, NEW t \in Threads, Request(t) \/ Step(t) \/ Abort(t)
  PROVE  LogOK'
  <1>1. PushValue(t) \/ TrimLog(t) => Target(t) \in DeviceIds /\ sensor[t] \in Sensors
    BY LogSteps
  <1>2. DeviceIds \subseteq Ids
    BY RegistryAssumption DEF DeviceIds, Ids
  <1>3. CASE log' = log
    BY <1>3 DEF LogOK
  <1>4. CASE PushValue(t)
    <2>. DEFINE e == [from |-> sensor[t], old |-> FALSE]
    <2>1. e \in Entries
      BY <1>4, <1>1 DEF Entries
    <2>2. log[Target(t)] \in Seq(Entries)
      BY <1>2, <1>4, <1>1 DEF LogOK
    <2>3. log' = [log EXCEPT ![Target(t)] = <<e>> \o log[Target(t)]]
      BY <1>2, <1>4, <1>1 DEF PushValue, LogOK
    <2>4. <<e>> \o log[Target(t)] \in Seq(Entries)
      BY <2>1, <2>2, Pushed
    <2>. QED
      BY <1>2, <1>4, <1>1, <2>3, <2>4 DEF LogOK
  <1>5. CASE TrimLog(t)
    <2>. DEFINE q == log[Target(t)]
                r == SubSeq(q, 1, IF Len(q) < LogLimit THEN Len(q) ELSE LogLimit)
    <2>1. q \in Seq(Entries)
      BY <1>2, <1>5, <1>1 DEF LogOK
    <2>2. log' = [log EXCEPT ![Target(t)] = r]
      BY <1>2, <1>5, <1>1 DEF TrimLog, LogOK
    <2>3. r \in Seq(Entries)
      BY <2>1, Trimmed, RegistryAssumption
    <2>. QED
      BY <2>2, <2>3 DEF LogOK
  <1>6. CASE DeleteValueList(t)
    <2>. DEFINE q == log[dev[t]]
                r == [i \in DOMAIN q |-> [q[i] EXCEPT !.old = TRUE]]
    <2>1. dev[t] \in Ids /\ q \in Seq(Entries)
      BY DEF LogOK, LocalsOK, HandlersOK
    <2>2. log' = [log EXCEPT ![dev[t]] = r]
      BY <1>6, <2>1 DEF DeleteValueList, LogOK
    <2>3. r \in Seq(Entries)
      BY <2>1, Aged
    <2>. QED
      BY <2>2, <2>3 DEF LogOK
  <1>. QED
    BY <1>3, <1>4, <1>5, <1>6, LogSteps

-----------------------------------------------------------------------------
(* The history variables.                                                  *)

LEMMA LostType ==
  ASSUME HistoryOK, NEW T
  PROVE  LostWith(T) \in [Ids -> Nat]
  <1>1. ASSUME NEW d \in Ids PROVE Cardinality(Trimming(d) \cap T) \in Nat
    <2>1. Trimming(d) \cap T \in SUBSET Threads
      BY DEF Trimming
    <2>. QED
      BY <2>1, FS_Subset, FS_CardinalityType, RegistryAssumption
  <1>. QED
    BY <1>1 DEF LostWith, HistoryOK

\* What is left when handlers die.
LEMMA DeathType ==
  ASSUME HistoryOK, HandlersOK, NEW T \in SUBSET Threads,
         torn' = torn \cup Interrupted(T), lost' = LostWith(T),
         crowded' = crowded \cup Disturbed(T),
         UNCHANGED <<made, removed, early, claimed>>
  PROVE  HistoryOK'
  <1>1. Interrupted(T) \subseteq Ids /\ Disturbed(T) \subseteq Sensors
    BY DEF Interrupted, Disturbed, HandlersOK
  <1>. QED
    BY <1>1, LostType DEF HistoryOK

\* The history variables keep their types.
LEMMA HistoryStep ==
  ASSUME StoreOK, HistoryOK, LocalsOK, NEW t \in Threads, Request(t) \/ Step(t) \/ Abort(t)
  PROVE  HistoryOK'
  <1>1. /\ dev[t] \in Ids /\ sensor[t] \in Sensors \cup {Nil} /\ info[t] \in Ids \cup {Nil}
        /\ 0 \in Nat
    BY DEF LocalsOK, HandlersOK
  <1>2. CASE UNCHANGED historyVars
    BY <1>2 DEF HistoryOK, historyVars
  <1>3. CASE Request(t)
    <2>1. crowded' \subseteq Sensors /\ UNCHANGED <<made, removed, early, torn, claimed, lost>>
      BY <1>3
         DEF HistoryOK, Request, AddFactoryDevices, AddDIYDevice, Push, Control,
             GetSensorDevice, Serve, Claim, Update, Delete, RemoveLog, historyVars
    <2>. QED
      BY <2>1 DEF HistoryOK
  <1>4. CASE NewDevice(t)
    <2>1. op[t] = "factory" \/ sensor[t] \in Sensors
      BY <1>4 DEF NewDevice, At, LocalsOK, LocalOK, Fits
    <2>. QED
      BY <1>4, <2>1 DEF NewDevice, HistoryOK
  <1>5. CASE DeleteHash(t) \/ UnlinkDevice(t)
    BY <1>1, <1>5 DEF DeleteHash, UnlinkDevice, HistoryOK
  <1>6. CASE ClaimUnlist(t)
    <2>1. info[t] \in Ids
      BY <1>6 DEF ClaimUnlist, At, LocalsOK, LocalOK, Fits
    <2>. QED
      BY <1>6, <2>1 DEF ClaimUnlist, HistoryOK
  <1>7. CASE TrimLog(t)
    BY <1>7, <1>1 DEF TrimLog, HistoryOK
  <1>8. CASE Abort(t)
    BY <1>8, DeathType DEF Abort, LocalsOK
  <1>9. CASE Crash
    BY <1>9, DeathType DEF Crash, LocalsOK
  <1>10. \/ SaveDevice(t) \/ SaveApikey(t) \/ PublishApikey(t) \/ ListDevice(t) \/ LinkAddress(t)
        \/ ListFactory(t) \/ NewDeviceExists(t) \/ NewDeviceRead(t) \/ SaveVarInfo(t)
        \/ LinkDevice(t)
        \/ SaveWidget(t) \/ ListWidget(t)
        => UNCHANGED historyVars \/ Crash
    BY DEF SaveDevice, SaveApikey, PublishApikey, ListDevice, LinkAddress, ListFactory,
           NewDeviceExists, NewDeviceRead, SaveVarInfo, LinkDevice, SaveWidget, ListWidget
  <1>11. \/ PushExists(t) \/ PushRead(t) \/ StatusLookup(t) \/ StatusExists(t) \/ ReadVarInfo(t)
         \/ ListValue(t) \/ PushValue(t) \/ ClaimRead(t) \/ UpdateDeviceInfo(t) \/ ClaimLink(t)
         \/ UpdateExists(t) \/ UpdateMember(t) \/ UpdateRead(t)
         => UNCHANGED historyVars \/ Crash
    BY DEF PushExists, PushRead, StatusLookup, StatusExists, ReadVarInfo, ListValue, PushValue,
           ClaimRead, UpdateDeviceInfo, ClaimLink, UpdateExists, UpdateMember, UpdateRead
  <1>12. \/ DeleteExists(t) \/ DeleteReadApikey(t) \/ UnlistDevice(t) \/ ForgetApikey(t)
         \/ DeleteWidget(t) \/ UnlistWidget(t) \/ DeletedEvent(t) \/ DeleteValueList(t)
         => UNCHANGED historyVars \/ Crash
    BY DEF DeleteExists, DeleteReadApikey, UnlistDevice, ForgetApikey, DeleteWidget,
           UnlistWidget, DeletedEvent, DeleteValueList
  <1>. QED
    BY <1>2, <1>3, <1>4, <1>5, <1>6, <1>7, <1>8, <1>9, <1>10, <1>11, <1>12
       DEF Step, CreateStep, LinkStep, PushStep, ProfileStep, DeleteStep

-----------------------------------------------------------------------------
(* The type invariant.                                                     *)

TypeInv == StoreOK /\ LogOK /\ HistoryOK /\ LocalsOK

\* TypeInv is inductive: it holds at the start,
LEMMA TypeInit == Init => TypeInv
  <1>. SUFFICES ASSUME Init PROVE TypeInv
    OBVIOUS
  <1>1. StoreOK /\ HistoryOK
    BY RegistryAssumption DEF Init, StoreOK, HistoryOK
  <1>2. LogOK
    BY EmptySeq DEF Init, LogOK
  <1>3. LocalsOK
    BY RegistryAssumption
       DEF Init, LocalsOK, HandlersOK, LocalOK, Fits, Labels, Operations, Ids, CreateSteps,
           MakerLabels, ReadLabels, ValueLabels, LinkLabels, SensorLabels, SaveLabels
  <1>. QED
    BY <1>1, <1>2, <1>3 DEF TypeInv

\* after a crash,
LEMMA CrashType ==
  ASSUME HandlersOK, Crash
  PROVE  LocalsOK'
  BY RegistryAssumption
     DEF Crash, LocalsOK, HandlersOK, LocalOK, Fits, Labels, Operations, Ids, CreateSteps,
         MakerLabels, ReadLabels, ValueLabels, LinkLabels, SensorLabels, SaveLabels

\* and after every step.
LEMMA TypeStep ==
  ASSUME TypeInv, [Next]_vars
  PROVE  TypeInv'
  <1>1. CASE UNCHANGED vars
    <2>1. UNCHANGED <<store, pc, locals, historyVars>>
      BY <1>1 DEF vars
    <2>2. StoreOK' /\ LogOK' /\ HistoryOK'
      BY <2>1
         DEF TypeInv, StoreOK, LogOK, HistoryOK, store, hashVars, indexVars, sensorVars,
             logVars,
                  userVars, historyVars
    <2>3. LocalsOK'
      BY <2>1 DEF TypeInv, LocalsOK, HandlersOK, LocalOK, locals
    <2>. QED
      BY <2>2, <2>3 DEF TypeInv
  <1>2. ASSUME NEW t \in Threads, Request(t) \/ Step(t) \/ Abort(t) PROVE TypeInv'
    <2>1. LocalsOK'
      BY <1>2, HandlersStep, MovesType, CrashType DEF TypeInv, LocalsOK
    <2>. QED
      BY <1>2, <2>1, StoreStep, LogStep, HistoryStep DEF TypeInv
  <1>. QED
    BY <1>1, <1>2 DEF Next

\* Every key and every handler holds what it can hold, with any number of handlers at
\* work and whenever the process dies.
THEOREM TypeCorrect == Spec => []TypeOK
  <1>1. TypeInv => TypeOK
    BY DEF TypeInv, StoreOK, LogOK, HistoryOK, LocalsOK, HandlersOK, TypeOK, Entries
  <1>. QED
    BY TypeInit, TypeStep, <1>1, PTL DEF Spec
=============================================================================
