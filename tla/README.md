# Verification of zcloud

zcloud is an IoT server in C++: users register, sign in and own devices; devices
push readings over HTTP and MQTT; readings are shown in widgets and sent to
WebSocket clients.  All persistent state is in Redis.  This directory holds TLA+
models of the program, the TLC instances that check them, and proofs about them
for every value of the constants.

1. [The system](#1-the-system)
2. [What is hard about it](#2-what-is-hard-about-it)
3. [Modules](#3-modules)
4. [From the code to the modules](#4-from-the-code-to-the-modules)
5. [Runs](#5-runs)
6. [Proofs](#6-proofs)
7. [Disagreements between code and documentation](#7-disagreements-between-code-and-documentation)
8. [Not modelled](#8-not-modelled)
9. [Plan](#9-plan)
10. [Running it](#10-running-it)

## 1. The system

| Component | State | Operations | Correct when |
|---|---|---|---|
| **User accounts** (`zuser`, `zworker/ZWorkerUsers`, the HTTP user handler, the user part of the admin handler) | `counter:id:users`, `users:<id>` (profile, password, apikey), `users:lookup:apikey`, `users:lookup:email`, `users:set`, `users.apikey:<uuid>` | register, login, change password, remove; deletion by the administrator | a sign-in reaches the account of its address; an account that exists is found by its keys; a removed account stays removed |
| **Sessions** (`zsession`) | `users:<id>:sessions`; the static sequence of `generateId` | create and check a token, delete all sessions of a user | sessions belong to the user who signed in, ids are unique, sessions end with the account and not before |
| **Redis access** (`zdb/ZDBProxy`, `ZIdGenerator`, `ZDBKey`) | none of its own | one Redis command per call | each command is atomic; ids are drawn once |
| **Redis connection pool** (`zdb/redis3m`) | the sets of free connections | take, put back, connect | a connection serves one command at a time and errors do not exhaust the pool |
| **Device registry** (`zdevice`, `zworker/ZWorker`, device handlers) | `devices:<id>`, its lookups and sets, a hash per address and type, variables, values and logs, `users:<id>:devices` | create, claim a factory device, push values, update, delete | a device is found by its keys, its values go to its own log, the log stays short, a deleted device stays deleted |
| **MQTT client** (`zapimqtt/mqttbusimpl` on paho's `MQTTClient`) | connection, `_subscribedTopics`, `_options.cleanSession`, `_reconnectDelay`, the timer's tasks, `_mutex` | connect, disconnect, publish, subscribe, unsubscribe, reconnect, resubscribe, `onConnectionLost` | a lost connection comes back, with its subscriptions, and reconnects do not pile up |
| **MQTT API** (`ZApiMQTT`, `MqttClientWorker`) | the worker's client, the table of pending requests | publish a device's new value, receive the values of all users | values arrive once, and in the order they were written |
| **Message bus wrapper** (`MessageBus`, `Message`) | the token sequence | wraps the client | tokens are unique |
| **WebSocket API** (`zapiws`) | the shared list of clients and its iterator | login, close, chat, broadcast | a client stays in the list until it closes; a broadcast reaches every client in it |
| **Widgets** (`zapihttp.web`) | a hash per widget, a set per user | add, update, remove, list | the set lists what exists |
| **Administrators** (`zadmin`) | the users' scheme with keys of their own | register, login | as for users |
| **HTTP server** (`zapihttp`, the request handlers' base and factory) | Poco's threads, at most sixteen | dispatch a request to a handler | handlers share nothing but Redis |
| **HTTP client, server applications, common code** | none, or the start and stop of the above | | |
| **Vendored code** (`lib/`, hiredis, msgpack, paho) | | | what the program relies on is part of the model that uses it |

How they interact: an HTTP thread runs one handler; the handler calls `ZWorker`,
which calls the managers (`ZUserManager`, `ZDeviceManager`, `ZSessionService`),
and these call `ZDBProxy`, which takes a connection from the pool and sends **one
Redis command**.  Between two commands of a handler every other handler may run:
no `MULTI`, no `WATCH` and no lock covers a handler.  The MQTT client is shared by
application threads, the thread of its timer, and the threads paho starts for its
callbacks; they share the object and `_mutex`.

A value a sensor sends goes a long way: its handler in the process `zcloud` writes
it to the device's log, raises an event, and `ZApiMQTT` publishes it in the same
thread with a `MqttClientWorker`; the broker sends it to the `MqttClientWorker` of
the process `zcloud-ws`, where paho's thread hands it to `ZApiWS`, which sends it to
every WebSocket in its list, while one handler thread for each client changes that
list.  No lock is on this way.

## 2. What is hard about it

The list with the line where each hazard bites is in `PROJECT.json`.  They are of
five kinds.

* **Handlers that interleave on Redis.**  Every operation is a check followed by
  writes, or a read followed by a write of what was read: registration,
  password change, removal, the claim of a device, the update of a value.
* **Handlers that die in between.**  `create()` writes seven keys with a command
  each.  A command that throws ends its handler, and one handler can bring the
  process down with all the others (a null profile that is dereferenced).
* **Connections that break at any moment**: in the middle of a Redis command, of a
  broadcast or of a `SUBSCRIBE`, while
  a reconnect waits for its delay, between `connect()` and the body of an
  operation, whose mutex is released in between.
* **Shared objects without a lock**: the sequence of `generateId`, the list of
  WebSockets and `ws_iter`, the step from the log to the broker.
* **Sequences and counters at their limits**: session ids, the reconnect delay, the
  log of a device, the pool of connections.

## 3. Modules

| Module | What it is |
|---|---|
| `AccountDirectory` | what clients are promised of accounts: one per address, its password, its sessions, each request at once |
| `ZUserAccounts` | the account handlers, one action per Redis command of a handler, for any number of threads |
| `MCUserAccounts` | its instance for TLC (symmetry) |
| `ZUserAccountsSerial` | the handlers when requests about one account do not overlap; the refinement of `AccountDirectory`; a property quoted from the source |
| `MCUserAccountsSerial` | its instance for TLC (symmetry) |
| `ZUserAccountsProofs` | the inductive invariant of the accounts, and proofs of the type invariant and of five safety properties |
| `ZUserAccountsRefinement` | proof that `ZUserAccountsSerial` implements `AccountDirectory` |
| `MQTTClientImpl` | the MQTT client, paho as it uses it, the network and the broker |
| `MCMQTTClient` | its instance for TLC (symmetry) |
| `MQTTClientProofs` | proofs of the type invariant and of three safety properties |
| `ZDeviceRegistry` | devices, sensors, logs, factory devices and the widgets of devices, one action per Redis command |
| `MCDeviceRegistry` | its instance for TLC (symmetry) |
| `ZDeviceRegistryProofs` | proof of the type invariant |
| `ZDeviceRegistrySafety` | the inductive invariants of the registry, and proofs of its eight safety properties |
| `RedisPool` | the pool of connections and the form of every command of `ZDBProxy`, with a network that fails |
| `RedisPoolProofs` | proofs of its type invariant and of three safety properties |
| `ZSessionService` | `create_jwt` over `RedisPool`: the draw of a session id and its `SADD` |
| `MCZSessionService` | its instance for TLC (symmetry) |
| `ZSessionServiceProofs` | proofs that it implements `RedisPool`, hence has its properties, of the type invariant and of its three safety properties |
| `ZApiMQTT` | the way of a value from a handler's write to `zcloud-ws` |
| `ZApiWS` | the WebSocket server fed by it |
| `MCZApiWS` | its instance for TLC (symmetry) |
| `ZApiWSProofs` | proofs of the type invariant, of the two properties of the feed and of the three of the WebSocket server |

`ZUserAccountsSerial` composes `ZUserAccounts` with `AccountDirectory` (as an
`INSTANCE` under a refinement mapping).  `ZSessionService` extends `RedisPool`, and
its actions are steps of a command joined with what the handler does at that moment:
`Run`, for one, with the effect of `SADD` at Redis.  `ZApiWS` extends `ZApiMQTT`, and
paho's thread is the joint: `ReceiveMessage` takes a message off the broker's queue
and begins a broadcast.  Accounts, registry and the MQTT client of
`mqttbusimpl` share nothing with the others but keys nobody else writes, so their
modules are separate.

## 4. From the code to the modules

### ZUserAccounts

A variable is a key of Redis (`name`, `pass` and `apikey` are the fields of the
hash `users:<id>`; `byEmail` is `users:lookup:email`, and so on) or what a handler
keeps in a local variable between two commands (`uid`, `mail`, `pw`, `key`,
`devs`).  `pc[t]` names the command thread `t` sends next.  `owner`, `deleted` and
`torn` are history variables that no action reads in a guard.

An action is one command together with the code up to the next command.  The
first command of a request is in the action that starts the handler; a request
that its first command refuses changes nothing and has no action.  Two things in
the code that are easy to miss and that the model has:

* A profile is read with `HLEN` and then `HMGET`.  When the account goes away
  between the two, the code does not fail: it continues with a default
  `ZUserInfo`, whose `userId` is 0.  `GotoReadId` and `GotoReadName` do that, and
  id 0 is part of `Ids` for that reason.
* `removeUser` ignores whether `ZUserManager::remove` found the account, and
  deletes sessions and devices in any case (`AfterRemove`).

| Handler | Actions |
|---|---|
| `handleUserRegister`, `createNewUser`, `ZUserManager::create` | `Register` `RegisterExists` `NewUserId` `SaveUser` `SaveApikey` `PublishApikey` `PublishEmail` `ListUser` `SaveApikeyOwner` `RegisterInfo` `RegisterRead` `OpenSession` |
| `handleUserLogin` | `Login` `LoginExists` `LoginRead` `OpenSession` |
| `handleUserPassword`, `changeUserPassword` | `ChangePassword` `PasswordExists` `PasswordRead` `PasswordWrite` |
| `handleUserRemove`, `ZWorker::removeUser` | `RemoveUser` `RemoveUserExists`, `RemoveExists` to `ForgetEmail` (`ZUserManager::remove`), `DeleteSessions` `ReadDevices` `DeleteDevice` `DeleteRelation` |
| `handleDeleteAdminUserApikey` | `AdminDelete` `AdminExists` `AdminRead`, then `ZUserManager::remove`; `AdminNullDeref` when the lookup entry is stale |
| `addDIYDevice`, `addSensorDevice` | `AddDIYDevice` `AddSensorDevice` `CreateDevice` `LinkDevice` |
| an exception or a kill | `Abort` |

Abstracted: passwords and names are model values, profile fields other than the
name and the password are left out (they are written with them), the uuid of user
*u* is named *u*, a token is the session id in it (`PROJECT.json` names the lines),
and a device is created, and is deleted, in one step.

### MQTTClientImpl

`connected` is what `MQTTClient_isConnected` says; `link` is whether the network
connection is really there, which the client learns later (`NoticeLoss`) or from a
command without an answer (`NoAnswer`).  In the latter case the broker may or may
not have carried the command out.  `brokerSubs` and `discards` are the broker's
session: one opened clean ends with its connection.  `tasks` counts the
`ReconnectTask`s in the timer and `lost` the calls of `onConnectionLost` that paho
has started a thread for.  `holder` is the owner of `_mutex`: `connectImpl` holds it
over `MQTTClient_connect` and `resubscribe` (labels `conn` and `resub`), while the
body of an operation is a single action that needs it free.

| Code | Actions |
|---|---|
| `connect`, `connectImpl` | `Connect` `ConnectSucceeds` `ConnectThrows` `Resubscribe` `ResubscribeFails` |
| `reconnect`, `ReconnectTask::run` | `Reconnect` `ConnectSucceeds` `ReconnectFails` `Resubscribe` `ResubscribeFails` |
| `publish`, `subscribe(Many)`, `unsubscribe(Many)` | `Call`, then as `connect`, then `Publish` `Subscribe` `Unsubscribe` `BodyFails` |
| `disconnect` | `Disconnect` |
| `onConnectionLost` | `OnConnectionLost` |
| paho's receive thread | `NoticeLoss` |
| network and broker | `Drop` `BrokerStops` `BrokerStarts` |

Abstracted: messages and QoS levels, and time (a delayed task may run at any later
time; its delay is a number the model computes as the code does).  A refused topic
makes `subscribe` throw, while `subscribeMany` keeps it in its list, as in the code.

### ZDeviceRegistry

Variables and actions are as in `ZUserAccounts`: a variable is a key, an action is one
command with the code up to the next, `pc[t]` the command that comes next, and the
last group of variables is history.  The hash `address:<a>:type:<t>:vars` is two
variables, `addressKey` and `varDevice`, as two operations write it independently.

| Code | Actions |
|---|---|
| `createDeviceInfo`, `createFactoryDeviceInfo` | `NewDevice` `SaveDevice` `SaveApikey` `PublishApikey` `ListDevice` `LinkAddress` `ListFactory` `NewDeviceExists` `NewDeviceRead` |
| `addDIYDevice`, `addSensorDevice` | `AddDIYDevice`, the above, `SaveVarInfo` `LinkDevice` `SaveWidget` `ListWidget` |
| the messages of sensors (`handleRegisterDevice`, `handleUpdateStatusDevice`, `handleDevicePushData`, `handleDeviceControl`) | `Push` `Control` `PushExists` `PushRead`, a creation if there is no device, and `updateStatusDevice`: `StatusLookup` `StatusExists` `ReadVarInfo` `SaveVarInfo` `ListValue` `PushValue` `TrimLog` |
| `addIndieDevice` | `Claim` `ClaimRead` `UpdateDeviceInfo` `ClaimLink` `ClaimUnlist` |
| `updateDevice` | `Update` `UpdateExists` `UpdateMember` `UpdateRead` `UpdateDeviceInfo` |
| `deleteDevice` | `Delete` `DeleteExists` `DeleteReadApikey` `DeleteHash` `UnlistDevice` `ForgetApikey` `UnlinkDevice` `DeleteWidget` `UnlistWidget` `DeletedEvent` |
| `removeLog` | `RemoveLog` `DeleteValueList` |
| the administrator's factory devices | `AddFactoryDevices`, then `createFactoryDeviceInfo` |
| an exception; an empty pointer dereferenced | `Abort`; `Crash`, in the action that dereferences it |

As with users, a profile read from a hash that has just gone is the default one,
with id 0 and type 0.  Several handlers dereference what `getDeviceInfo` or
`getVarInfo` returns unchecked; `Crash` ends every handler of the process where they
do.  A variable read before its creation wrote it has members that were never
initialised (`ReadVarInfo`): any device id.

Abstracted: a sensor is an (address, type) pair with type at least 1; values, names
and times are not told apart; `vars:<d>:<ts>`, the last timestamp and the battery
are left out; a device's apikey is named by its id; users, their sessions and their
apikeys stay.

### RedisPool and ZSessionService

`pool` is `simple_pool::connections`, `hand[t]` the `ptr_t` of a command and `call[t]`
its next step: `get` (`Take`, or `FindNone` and `Create`), `run` (`Run`, the command is
written and carried out), `reply` (`Reply`) and `put` (`Put`).  A fault cuts some
connections, or all when Redis goes down; a connection that was cut is found out by
the command that uses it (`Fail`), whether Redis has carried the command out or not.

`generateId` is three steps (`ReadClock` `ReadNumber` `StoreNumber`), since nothing
makes them one; as the build may read the variable once or twice for `x % 1024` and
`x++`, `StoreNumber` stores a successor of either value.  `Id` is C++'s arithmetic:
the remainder of a negative number is negative, and as an `int` it sets every higher
bit of the 64.  `Add` is `SADD` at Redis, `Answer` and `Throw` are the two ends of
`create_jwt`.

### ZApiMQTT and ZApiWS

`Store` is the handler's write to the log, `Publish` the event, through
`handlePublishMessage` to `MQTTClient_publishMessage`.  `queue` is everything between
the two workers.  Either may lose its connection; neither ever connects again, as
`mqttConnectionLost` only prints and `autoReconnect` and `beginConnect` are empty.

`listWs` is `list_ws`, a sequence of nodes, so that a client that logs in twice is two
of them; `wsIter` is `d_ptr->ws_iter`.  `handler[c]` is where the handler of a client
is, and `walk[b]` where a broadcast is, of paho's thread or of a client that sent a
chat message: `Point` assigns `ws_iter`, `SendFrame` or `SendFails` sends, `LogoutIter` is
the exception handler, `FinishWalk` the end.  `push_back` and `erase` are a step that
begins (`ReadLogin`, `ReadClose`, `SendFails`) and one that ends (`PushBack`, `Logout`,
`LogoutIter`), so that two may overlap.  What a race leads to is a choice: a change
that another overlapped may be lost, a walk over a freed node goes on anywhere, and
either may end the process (`Crash`).  `contended` records that one of these has had
an effect.

## 5. Runs

A run with `expect` `violation` finds what section 7 reports.

| Run | Instance | Distinct states | What it shows |
|---|---|---|---|
| `accounts` | 2 threads, 2 addresses, 1 password, 2 users, 1 session | 2 451 002 | `TypeOK`; a sign-in opens its session on an account of its address (`SignInOpensOwnAccount`); an account with an apikey is indexed (`FullAccountIndexed`); a removed account never comes back whole (`DeletedNeverWhole`) |
| `devices` | 2 threads, 1 address, 1 user, 2 sessions, 2 devices | 604 820 | sessions and devices are taken only from an account whose profile was deleted (`LogoutOnlyAfterDelete`, `DevicesDeletedAfterAccount`) |
| `directory` | 2 threads, 2 addresses, 2 passwords, 2 users, 3 sessions, handlers die, requests on one account do not overlap | 551 570 | the handlers implement `AccountDirectory` (`ImplementsDirectory`) |
| `email_unique` | 2 threads, 1 address | violation | two registrations at once |
| `admin_delete` | 1 thread | violation | what the administrator's deletion leaves |
| `mqtt` | 2 callers, 2 topics of which one is refused, 3 faults, delays 1 to 4 | 1 741 296 | `TypeOK` with the bound on the delay; `ReconnectScheduled`; `OneChainPerFault`; `SubscriptionsAtBroker`; no deadlock |
| `mqtt_reconnect` | 1 caller, 2 faults | 9 076 | a lost connection comes back once the broker stays up (`Reconnects`) |
| `mqtt_messages` | 1 caller, no fault | violation | subscriptions of a session the client has forgotten |
| `registry` | 2 threads, 2 sensors, 1 user, 2 devices, 3 requests, log of 1 | 1 663 112 | see below |
| `registry_log` | 1 thread | violation | the log after its removal |
| `sessions` | 2 threads, 2 connections, 1 user, 1 fault, 5 draws, ids of 3 numbers, a sequence from -3 to 2, a clock of 2 values | 2 806 267 | see below |
| `broadcast` | 2 handlers, 2 clients, 2 values, 2 logins, 1 chat message | 3 136 138 | see below |

`registry` shows, beside `TypeOK`:
`DeviceIndexed` and `DeletedNeverWhole`, as for accounts;
`OneDevicePerSensor`: only two handlers on one sensor at once, or one that died, make
a second device; `VarOfCurrentDevice`: the variable `updateStatusDevice` writes back
late is that of the sensor's current device, under the same condition;
`ValueInOwnLog`: the device id a value is logged under may be out of date, and is
still of a device made for that sensor; `LogBounded`: what `LPUSH` and `LTRIM` in
two commands can add to a log; `ClaimedLeavesFactory`; `WidgetOfOwnDevice`.

`sessions` shows, beside `TypeOK`, of the pool: no connection is in two places
(`ExclusiveConnections`); it never holds more connections than there were commands at
once (`OpenAtMostPeak`); one that was cut fails one command
(`FaultCostsOneCommand`).  Of the sessions: the id of a draw nobody
overlapped is not that of any of the 1023 draws after it, overlapped or not, although
a late `StoreNumber` may set the sequence back, and whatever the wrapped sequence makes
of the time (`AloneDrawsDiffer`); overlapped ones may be alike, and `SADD`'s answer then
refuses one of them: every token has a session of its own (`TokenBacked`); sessions
without a token come only from replies that were lost (`OrphansFromFailures`).

`broadcast` shows, beside `TypeOK`: values arrive once, in the order of those
that did not overlap (`ReceivedInOrder`); when all is quiet and connected, the last
value clients saw is the last in the log, unless its handler overlapped another's
(`StaleOnlyIfOverlapped`).  And, until a race on the list has had an effect: a client
that is there stays listed (`LiveClientsListed`), a broadcast that comes to its end
has reached everybody (`CompletedReachesAll`), and clients that vanish without
a close frame cost the others one message for each of their logins
(`BrokenByDeadEntries`).

**Bounds.**  Two handlers are enough for every race of two commands with a third
in between, and `Abort` stands for a third that died.  Two users with one address
let a registration reuse an address while the earlier account is being removed;
two addresses let a lookup lead to the wrong account, if it could.  `MaxUsers`,
`MaxSessions` and `MaxDevices` bound counters that only grow; `MaxDrops` bounds the
faults, three of them being a loss, a loss during the reconnect that follows, and
one more during the resubscription.  A maximal delay of four initial delays gives
two doublings, so the bound is reached and kept.  In `registry` two devices let a
sensor lose its device and get another, or two sensors have one each; a log of one
entry (20 in the code) is overrun by two threads and by one that died (`MaxOver`); the
instance also passes with three threads on one sensor, and with two users.
`sessions` has 3 for 1024 and a sequence of 6 for 65536, so that five draws wrap it and
meet their own remainders again; the constants keep what matters, that the first
divides half of the second.  `broadcast` has one client to be sent to and one to vanish,
or one with two entries.  The proofs have none of these
bounds beyond their being natural numbers.

**Symmetry** is used where only invariants are checked and threads, addresses,
passwords, callers, users, sensors, connections or clients are interchangeable; the topics `a` and `r` are not.

**Deadlock.**  The MQTT client's runs check it.  The others allow it: when the bounded
counters are used up and every handler has finished, the server has nothing to do.

**Fairness.**  None for accounts, registry, sessions and broadcast, where every property
is a safety property: clients are free to send no request, handlers may die, and
nothing connects a lost worker again.  `FairSpec` of the MQTT
client has weak fairness for the timer's thread, the threads that run
`onConnectionLost`, and a caller inside an operation: these are operating-system
threads, and the operations wait for nothing but the mutex and answers that time
out.  Nothing is assumed of which operations callers choose, of the network, or of
the broker; `Reconnects` says what happens if the broker stays up from some
moment, and the faults are finitely many by `MaxDrops`.

## 6. Proofs

All theorems are about a module's specification with arbitrary constants, under the
assumptions the modules name, which are what the code gives:

| Assumption | What it says |
|---|---|
| `BoundsAssumption`, `NilAssumption` | the bounds are natural numbers; an empty reply is not a value |
| `RegistryAssumption` | both for the registry; the worker threads are finitely many |
| `ThreadsAssumption`, `TopicsAssumption`, `DelayAssumption` | the timer's thread is no caller and `NoThread` no thread; refused topics are topics; the delays are positive and ordered |
| `PoolAssumption` | threads are finitely many, `NoConnection` is no connection |
| `SessionAssumption` | the moduli are positive, the first divides half of the sequence (1024 divides 32768); there are users |
| `FeedAssumption` | `NoMessage` is no message; the bounds are natural numbers |
| `ClientAssumption` | clients are finitely many; paho's thread, `NoClient` and the end of the list are none of them; the bounds are natural numbers |

| Theorem | Property | Module |
|---|---|---|
| `TypeCorrect` | `[]TypeOK` of the accounts | `ZUserAccountsProofs` |
| `SignInSafe` | `[]SignInOpensOwnAccount` | `ZUserAccountsProofs` |
| `FullAccountSafe` | `[]FullAccountIndexed` | `ZUserAccountsProofs` |
| `DeletedStaysKeyless` | `[]DeletedNeverWhole` of the accounts | `ZUserAccountsProofs` |
| `LogoutSafe` | `LogoutOnlyAfterDelete` | `ZUserAccountsProofs` |
| `DevicesSafe` | `DevicesDeletedAfterAccount` | `ZUserAccountsProofs` |
| `SerialImplements` | `SerialSpec => ImplementsDirectory` | `ZUserAccountsRefinement` |
| `TypeCorrect` | `[]TypeOK` of the registry | `ZDeviceRegistryProofs` |
| `DeletedStaysKeyless` | `[]DeletedNeverWhole` of the devices | `ZDeviceRegistrySafety` |
| `ClaimedStaysClaimed` | `[]ClaimedLeavesFactory` | `ZDeviceRegistrySafety` |
| `ValuesLogged` | `[]ValueInOwnLog` | `ZDeviceRegistrySafety` |
| `LogsBounded` | `[]LogBounded` | `ZDeviceRegistrySafety` |
| `DevicesIndexed` | `[]DeviceIndexed` | `ZDeviceRegistrySafety` |
| `WidgetsOfOwnDevices` | `[]WidgetOfOwnDevice` | `ZDeviceRegistrySafety` |
| `SensorsHaveOneDevice` | `[]OneDevicePerSensor` | `ZDeviceRegistrySafety` |
| `VariablesCurrent` | `[]VarOfCurrentDevice` | `ZDeviceRegistrySafety` |
| `TypeCorrect` | `[]TypeOK` of the MQTT client | `MQTTClientProofs` |
| `ReconnectSafe` | `[]ReconnectScheduled` | `MQTTClientProofs` |
| `ChainsSafe` | `[]OneChainPerFault` | `MQTTClientProofs` |
| `SubscriptionsSafe` | `[]SubscriptionsAtBroker` | `MQTTClientProofs` |
| `TypeCorrect` | `[]PoolTypeOK` of the pool | `RedisPoolProofs` |
| `ExclusiveSafe`, `PeakSafe`, `FaultCost` | `[]ExclusiveConnections`, `[]OpenAtMostPeak`, `[]FaultCostsOneCommand` of `PoolSpec` | `RedisPoolProofs` |
| `ImplementsPool` | `Spec => PoolSpec` of the sessions | `ZSessionServiceProofs` |
| `SessionsExclusive`, `SessionsPeak`, `SessionsFaultCost` | the same three of the sessions | `ZSessionServiceProofs` |
| `TokensBacked` | `[]TokenBacked` | `ZSessionServiceProofs` |
| `TypesCorrect` | `[]TypeOK` of the sessions | `ZSessionServiceProofs` |
| `AloneDiffer` | `[]AloneDrawsDiffer` | `ZSessionServiceProofs` |
| `OrphansBounded` | `[]OrphansFromFailures` | `ZSessionServiceProofs` |
| `FeedInOrder`, `FeedFresh` | `[]ReceivedInOrder`, `[]StaleOnlyIfOverlapped` | `ZApiWSProofs` |
| `TypeCorrect` | `[]TypeOK` of the WebSocket server | `ZApiWSProofs` |
| `LiveStayListed` | `[]LiveClientsListed` | `ZApiWSProofs` |
| `CompletedReach` | `[]CompletedReachesAll` | `ZApiWSProofs` |
| `BrokenByDead` | `[]BrokenByDeadEntries` | `ZApiWSProofs` |

**Accounts.**  None of the properties is inductive.  `SignInOpensOwnAccount` speaks
of the last step of a sign-in, so `IInv` says of every earlier step that the handler
works for the address its id was registered under (`WorksForOwner`), and of the
lookup it started from that it leads to such an id (`LookupsLead`).  The heart is
`PrivateUntilKeyed`: until `create()` publishes the apikey, no lookup, session or
other handler knows the new id, so nobody can be removing the account that is being
built; this is the order of the commands in `create()`, and with another order
`DeletedNeverWhole` and `FullAccountIndexed` fail (the mutants of those runs).
`RemovalProgress` records that from `SREM` on, the id a removal works on was
deleted.  `OnlyDrawnIds` says that ids the counter has not handed out are unknown.

`DevicesSafe` adds that devices are linked to one account at most, that a device
not yet linked is in nobody else's hands, and that the list a removal works on,
however old, names no device of another account (`DevicesInv`).

**The directory.**  `SerialImplements` says that handlers of which no two are about one
account at once are an `AccountDirectory` for their clients, however many run about other
accounts, and wherever handlers die.  `SerialInv` is `IInv`, what is true of every profile
(`Whole`: its name is the address of its id, it has a password, an apikey is never without
it, and it does not come back once deleted) and, for each handler, what it is sure of at
each of its commands (`Fits`): up to `HSET users:lookup:email`, say, that the lookup leads
to no profile and the new id has no sessions.  The proof has two halves.  A step of a
handler about *e* leaves what belongs to any other address as it is (`Untouched`;
`WritersFootprint`, `LooksLeaves`), so what other handlers are sure of still holds
(`UntouchedFits`) and the directory sees nothing there (`UntouchedPromise`).  For *e*, every
command leads from `Fits` to `Fits` or to the end of the handler (`FitsStep`), and is seen as a
stutter or one action of the directory (`CreatesSeen`, `ChangesSeen`): `create()` takes
effect at `HSET users:lookup:email`, a sign-in at `SADD`, `changeUserPassword` at `HMSET`,
`remove` at `DEL`.  `DEL users:<id>:sessions`, which comes later, is not seen, since the
profile is gone by then.

A registration that dies between `HSET users:lookup:apikey` and `HSET users:lookup:email`
leaves an account that nobody signs in to, and the directory has none.  When an administrator deletes it by its apikey
after the address was registered again, `HDEL users:lookup:email` takes the lookup away from
the newer account: the directory sees a removal, though the profile stays, and so do its
tokens, which the directory no longer counts.

**Devices.**  The type invariant is inductive only with what a handler must know at each
of its commands (`Fits`, in `TypeInv`): a handler at `LPUSH` has an id that was drawn, one
at the widget has one that was read.  The others each say something of every handler,
and each is a small invariant of its own, so that a step is looked at once for each:

* `IdInv`: every id in use, in a hash or in the hands of a creation, a deletion or a write
  of a profile, was drawn from the counter (`Drawn`), and an id being created is in one
  creation only and not removed yet (`OneCreator`).  So `HSET apikey`, which only a creation
  does, never meets a removed id, and `HMSET`, by which an update may bring a deleted hash
  back, writes no apikey: `DeletedNeverWhole`.  `ClaimedLeavesFactory` comes with it.
* `MadeInv`: what a device is made for never changes, and every id a handler holds for a
  sensor, however old, is of a device made for that sensor (`MadeOK`), hence
  `ValueInOwnLog`.
* `LogBounded` is inductive by itself: `LPUSH` adds an entry and a handler that has to
  trim, `LTRIM` takes the handler off and cuts the log, a handler that dies in between
  moves to `lost`; all of them at once when the process dies.
* `IndexInv` and `WidgetInv` say what a creation has published, and a deletion deleted, when
  it is at a given command (`IndexOK`, `WidgetOK`).
* `SensorInv`: for a sensor that never had two handlers at once, the devices with an apikey
  made for it, the device its address leads to and that of its variable, as functions of
  where its one handler is (`ServeFits`).  With no handler the three agree; that is
  `OneDevicePerSensor` and `VarOfCurrentDevice`.

**MQTT client.**  `IInv` adds to the properties that `_mutex` is held by exactly the
thread inside `connectImpl`, which connects only a client that is not connected
(`MutexOK`), and that a client counted as having lost its connection is not
connected (`DroppedOK`).  `OneChainPerFault` becomes inductive when a broken
connection nobody has noticed counts as a chain to come (`ChainsOK`): the step that
notices it then trades one for the other, and a fault pays for each new one.

**Pool.**  `IInv` says that a command has a connection exactly from `get` to `put`
(`HandOK`), and that idle connections and the commands that have one or make one are
together no more than `peak` (`PeakOK`): a command that finds the set empty counts as
having its connection already, which is what makes `OpenAtMostPeak` inductive while
`get` makes connections outside its lock.  `FaultCostsOneCommand` needs that a connection
that failed is in one hand only, hence `ExclusiveConnections`.

**Sessions.**  `ImplementsPool` maps every step to a step of a command or a stutter, and
the pool's theorems carry over.  `TokensBacked` adds `Pending`: a thread whose `SADD`
answered 1 holds an id that no token of the user has and no other such thread
holds.  Nothing is used of `Id`, so it holds for any way of drawing ids.

`AloneDiffer` is about `Id`.  As the modulus of an id divides half of the sequence,
neither the wrap of the `int16_t` nor C++'s negative remainder disturbs the remainder by
1024 (`IdRemainder`, `NextIs`), so it is enough that the numbers differ by something
between 1 and 1023.  `DistanceOK` says that of everything the sequence could be stored
from: after a draw *a* that nobody overlapped, the sequence, and what any draw under way
has read of it, is 1 to *k* further than *a*'s number, *k* the draws stored since (`Within`,
`Since`).  A draw that stores late sets the sequence back, but to a number that is within
the same distance.  `CountsOK` ties the numbering of draws to the number of draws, with
one number for each.  `OrphansBounded` is a balance of four counts: `SADD` adds a session and a
thread that has to answer; an answer turns the thread into a token; a failure takes the
thread and counts itself.

**Feed.**  What is received and what is queued are one line (`Line`), to which only
`Publish` adds, and only a value that is in no other handler's hand (`ValuesOK`); so the
line has no value twice and none after one that was written when it had been published
(`LineOK`).  While neither worker has lost its connection, all that was published is on it,
and with an empty queue that is what was received.

**WebSockets.**  `TypeInv` has the list in the order of logins (`ListOK`): `push_back` adds the
newest, `erase` takes one out.  `ListedInv` adds that a broadcast logs out only a client that is
gone.  `ReachInv` says of a broadcast at a node that the clients due are listed, and those listed
before that node have been sent to (`WalkFits`): the order of logins makes "before" survive
what others insert and erase.  `BrokenInv` counts the nodes of vanished clients that
are off the list, and pays one for each broadcast that was given up.  All three hold
until a race has had an effect (`contended`); after that the code promises nothing.

**Only model-checked**: `Reconnects`, since liveness under fairness is out of the
prover's reach.  The properties of the runs that expect a violation are false.

## 7. Disagreements between code and documentation

* `email_unique`: the documentation of the registration says of an address in use
  "user is existed"; `handleUserRegister` looks the address up and creates the
  account with separate commands, and two requests at once both succeed.
* `admin_delete`: the comment of the administrator's request says "delete user and
  related devices"; the handler calls `ZUserManager::remove` only.
* `mqtt_messages`: `messageArrived` is for "the subscribed topics"; after
  `disconnect()` and a second `connect()`, the broker's session has subscriptions the
  client has dropped from its list, since only the first connection is clean.
* `registry_log`: the comment of `removeVarValue` says that it deletes the log of a
  device; it deletes the set of keys and the hashes, and leaves the list
  `vars:<d>:array`, which `getLog` shows again as soon as there is another value.

The administrator's deletion leaves the account's sessions too, so that its tokens
still pass, while a comment of `ZWorker` (`ZWorker.cpp:104`) says that the user of a valid
token always exists.

Of devices, two first messages of one sensor at once create it twice, two users may
claim one factory device, and several requests end the process by
dereferencing an empty pointer when a device goes away under them; of the broadcast,
two threads on the list are undefined behaviour.  Nothing in the repository speaks of
these.

Overlapping requests about one account do things that nothing in the repository
excludes: a removal's `HDEL` can take away the lookup entry of an address that was
registered anew, two password changes can both succeed, and a password change can
write back the profile (without its apikey) of an account being removed.
`DeletedNeverWhole` and the restriction of `directory` to requests that do not
overlap say how far this goes.

## 8. Not modelled

* Formatting, parsing, JWT, AES, base64, logging: pure functions of their input.
* The page's own requests about widgets (add, update, remove): the same two functions
  `ZDeviceRegistry` has, for one user at a time.
* Administrators' registration and login: the same commands as the users' on keys of
  their own.
* `handleChangeState` and its table of pending requests: `updateDataDevice` raises its
  event only for a device in a set that nothing fills.
* `MessageBus`: no server application creates one.  The server applications
  themselves start and stop the components one after the other in one thread.
* A reply of Redis that never comes on a connection that stays up, and a WebSocket
  whose peer does not read: both block a thread for ever, and nothing times them out.
* `handleUserResetPassword` and the read-only requests: they change nothing.
* The destructor of the MQTT client, which must not run while tasks are pending.
* redis3m's other pool, the one with sentinels and slaves, which zcloud does not use.
* HTTP client and e-mail service: stateless senders.
* The vendored libraries, except what `MQTTClientImpl` says of paho.

## 9. Plan

Done: accounts and sessions, the MQTT client, the device registry, the pool of
connections with the session ids, the feed to the WebSocket clients, and the proofs of
all their safety properties and of the refinement of `AccountDirectory`.  Left, in
the order of importance:

1. **Accounts and registry together**: the removal of an account over the registry's
   commands, in place of the one-step devices of `ZUserAccounts`.
2. **Administrators**, for the session keys they share with users.
3. **The MQTT client's destructor** under pending tasks.

## 10. Running it

    tlc -config MCUserAccounts.cfg MCUserAccounts
    tlapm ZUserAccountsProofs.tla

`PROJECT.json` lists for each run its module and configuration, for each definition
the lines of code it stands for, and for each property a change of the model, as a
mistake in the code would make it, under which TLC finds the property violated.
