# A verification project for the wrongthink server

wrongthink is a chat server: a gRPC service in C++ over PostgreSQL. Clients
create users, communities and channels, send messages (as a stream or one at a
time), listen to a channel, and read its history. This directory holds TLA+
models of the server, TLC configurations that check them on small instances,
and TLAPS proofs about them. Paths below are relative to the repository;
`WSI` is `WrongthinkServiceImpl.cpp`.

## 1. Inventory

| Part | State it keeps | Operations | Hard behaviour |
|---|---|---|---|
| Channel monitor (`SynchronizedChannel.*`) | `msgVector_`, `lastMessage_`, a mutex, a condition variable | `appendMessage`, `waitMessage` (others unused or read-only) | notify after unlock, wait without predicate, the newest message kept twice |
| Message RPCs (`WSI` 205-292, 358-372) | `channelMap` (id to monitor), per process, never invalidated | `SendWrongthinkMessage`, `SendWrongthinkMessageWeb`, `ListenWrongthinkMessages`, `checkForChannel` | the map is used by all handler threads with no lock (`channelMapMutex` is declared and never taken); check, database read, insert; broadcast before insert; a stream failing half way; a listener that never returns |
| History and directory reads (`WSI` 97-163, 303-335; `DBPostgres.cpp` 210-256) | none | the four `Get...` RPCs | ids are drawn before rows commit; `limit`, `afterid`, `afterdate` are read and ignored |
| Users, communities, channels (`WSI` 64-94, 165-203, 337-356; `DBPostgres.cpp` 171-208) | tables `users`, `communities`, `channels` | `GenerateUser`, `CreateUser`, `CreateWrongthinkCommunity`, `CreateWrongthinkChannel` | count, insert, select are three statements: who is the first user, hence admin |
| Bans (`WSI` 33-62; `DBPostgres.cpp` 101-169; `Interceptor.cpp`) | `banned_users`, `banned_ips` | `BanUser`, the two checks of the interceptor | 32-bit arithmetic, select-then-insert, checks in separate sessions, cancel-and-proceed |
| Credentials (`WrongthinkTokenAuthenticator.cpp`) | none | `hasCredentials`, `getCredentials` | none of its own |
| Process (`wrongthink.cpp`) | the tables, in `clear` and `validate` | `main`, `RunServer`, `sigHandler` | a crash between two statements, two processes at once, a late statement of a dead one |
| Sessions (`DBInterface.cpp`) | the server's connections | `getSociSession` | a bounded resource that listeners never give back; calls that hold one session want a second and a third |

How they interact. gRPC runs every call on a thread of its pool; the
interceptor sees the call first. A handler opens a database session, calls
`checkForChannel`, takes the monitor of the channel out of `channelMap` and
appends to it or waits on it; a sender then inserts the message into table
`message`. The monitor's mutex is the only lock in the server. All durable
state is in the database and shared by every process that is ever started;
`channelMap` and the monitors are lost when the process ends.

What makes each part correct:

* monitor: no wake-up is lost, listeners write the newest message in the order
  of appending, nothing is invented;
* message RPCs: an acknowledged message is stored, what is stored of a call is
  a prefix of it, a message that was broadcast but not stored is the last one
  of a call that is in flight or failed, all users of a channel meet at one
  object, a listener sees its own channel only;
* users, communities, channels: a plain user has an administrator before it, ids
  belong to the rows they are returned for, listings are complete;
* bans: a banned user's calls are refused until the ban expires, only an
  administrator bans;
* history: a message comes after all that was stored when it was broadcast,
  what was acknowledged is there, and a later reading has what an earlier one
  had in the same order;
* process: after any crash a restart reaches a complete schema, and a clear
  leaves nothing old;
* sessions: none is lost, wherever a call ends, and no call waits for one.

The hazards behind these, each at its line, are listed in `PROJECT.json` with
the properties that guard against them, or the reason why there are none.

## 2. Modules

| Module | What it is |
|---|---|
| `ChannelBroadcast` | abstract specification of one monitor: `Publish`, `Take`, `Show` on an append-only log |
| `SynchronizedChannel` | the monitor, one action per lock operation or assignment; implements `ChannelBroadcast` |
| `MessageService` | the message RPCs, `channelMap`, the database seen from them, crashes and restarts |
| `MessageLedger` | abstract specification of the message RPCs: what is submitted, shown to listeners, stored and answered; `MessageService` implements it |
| `History` | `GetWrongthinkMessages` against the inserts that go on meanwhile |
| `MessageArchive` | abstract specification of the history: a growing line of messages and readings of it; `History` implements it |
| `DirectoryService` | the RPCs that create users, communities and channels and list the last two, statement by statement |
| `BanControl` | `BanUser` and the interceptor's checks, statement by statement, with a clock and bounded integers |
| `Startup` | processes that run `main`: `clear` and `validate` statement by statement, then serving |
| `Sessions` | which database connections each call opens and closes, over a bounded number of them |
| `MC...` | symmetry sets and a bound for TLC |
| `SynchronizedChannelProofs`, `MessageServiceProofs`, `MessageLedgerProofs`, `DirectoryServiceProofs`, `BanControlProofs`, `HistoryProofs`, `StartupProofs`, `SessionsProofs` | inductive invariants, theorems and proofs |

Operators introduced by a comment "Slip" are variants of an action as a
plausible mistake would make it. No specification uses them; each shows that a
property would notice the mistake.

### SynchronizedChannel

Threads are `Appender` (the send handlers) and `Listener` (the loop
`while (true) writer->Write(channel.waitMessage())`). `mutex` is
`channelMutex_`; the wait set of `channelCondition_` is the set of listeners
with `lpc = "blocked"`.

| Action | Code |
|---|---|
| `AppendLock`, `PushBack`, `StoreLast`, `NotifyAll` | `SynchronizedChannel.cpp` 40, 41, 42-43 (the unlock is the end of the scope), 44 |
| `WaitLock`, `WaitBlock`, `Relock`, `ReadLast` | 58, 59 (release and sleep are one step), 59 (the lock is taken again), 60 |
| `SpuriousWake` | what the C++ standard allows `wait` to do |
| `Write` | `WSI` 289, with no lock held and the result ignored |

`cursor` and `blockedAt` are history variables: the length of `msgVector_` when
a listener copied `lastMessage_` and when it went to sleep.

What the model shows about a listener: it always writes the message that was
newest when it took the lock, so its client sees messages in order. It may miss
messages: those overtaken before it is scheduled, and those appended while it
is writing, for which it is not woken. It may write the same message twice
(two notifications for one message and a later one, or a spurious wake-up).
With spurious wake-ups it may also write an empty message before the first one.
`Jittery` is the set of listeners that may wake unnotified: the C++ standard
allows it of all, and `NoEmptyDelivery` is about the others.
`ChannelBroadcast` allows all of this on purpose: it states what the code
promises, and the repository promises no more.

### MessageService

A call is one activation of a handler; its `pc` names where the handler is, and
`received` what it read from its client.

| Action | Code |
|---|---|
| `StartStream`, `StartWeb`, `StartListen`, `SessionFails` | the entry of the handlers, with `getSociSession` |
| `ReadMessage`, `EndOfStream`, `ReadFails` | `reader->Read`, `WSI` 252; inside it the interceptor asks the database, and what that throws the handler catches at 263 |
| `Count`, `Query`, `Emplace`, `Link` | `checkForChannel`: 359, 361-369, 364 (search), 364 (the node enters the tree) |
| `Lookup`, `Link` | `channelMap[...]`: 216, 260, 287; `operator[]` inserts on a miss |
| `Publish` | `appendMessage`, 216 and 260 |
| `StoreRow`, `RejectRow`, `Answered` | the insert, 217-220 and 261, and its answer |
| `Deliver` | one round of the listener's loop, 289 |
| `LoseConnection`, `OrphanCommit` | a `soci` exception under a statement, and an insert that commits although its session broke |
| `Crash`, `Restart` | `sigHandler` or a fault; `main` without `clear` |
| `CreateChannel` | the row `CreateWrongthinkChannel` adds |

The monitor is used through `ChannelBroadcast`: a log per object, `Publish`
appends, `Deliver` is `Take` and `Show` in one step (the properties here do not
tell them apart). That this is a sound view of the C++ object is what
`SynchronizedChannelProofs!ImplementsBroadcast` proves.

Data race. `std::map` may not be used by two threads while one inserts. The
insertion is a window (`"linking"`, `"growing"`); any access inside another
thread's window sets `raced`. While `raced` holds, a search may miss an entry
that is there, and an insertion may hide an older entry or be lost; a fault is
`Crash`. A tree so broken that a search never ends is not modelled, so
`RequestSettled` says nothing of such a call. The safety properties other than `OneObject`
hold in spite of the race; `OneObject` says what holds without it.

What the model shows about the race: it needs two first uses at once. After
every channel in use was used once since the process started, the map is only
read and the missing lock does no harm. When it does bite, a listener can be
left on an object no sender finds, and waits for ever.

External behaviour, from how the code uses it. The database commits or rejects
one insert at a time, and its foreign keys are those of `validate`
(`DBPostgres.cpp` 80-89). `checkForChannel` takes a null indicator of column 0
for "no such row". Nothing in the repository says what that indicator is when
there is no row, so `Query` leaves both open: a missing channel is refused, or
passes and gets an object in the map. The properties hold for both. That no
message is broadcast for a missing channel is therefore not among them; what is
left of the check is the reference in table `message`, by which such a message
is not stored, is the last of its call, and is not acknowledged. An exception
that leaves
`ListenWrongthinkMessagesImpl`, which has no `try`, becomes status `UNKNOWN` in
gRPC's handler. A call that is broken by a crash is seen as `UNAVAILABLE`.

The ledger. `MessageLedger` has four variables, of which `MessageService` is an
implementation with `sent` the messages a sender's handler read, `shown` the
messages in any object's log, those of dead processes included, `stored` the
table and `outcome` the status. It says in which order the four may change: a
message is shown before it is stored and while its call runs, the next one is
read only when the last is stored, OK comes after all of it, and nothing is
taken back, by a restart for example. Which object a message went through, and
hence the whole of `checkForChannel` and its race, is not visible in it.

### History

Senders are as in `MessageService`, reduced to the broadcast (which the insert
follows) and to the three moments of an insert.

| Action | Code |
|---|---|
| `Start`, `TurnAway`, `Send`, `Answered`, `EndOfStream` | `WSI` 238-268 and, as the stream of one message, 205-227 |
| `Draw` | the default of `msg_id`, drawn when the insert begins |
| `Commit`, `Reject` | the references of table `message` hold, or not |
| `Ask`, `Query`, `WriteRow`, `EndRead` | `GetWrongthinkMessagesImpl`: the request, the select (PostgreSQL's client has the whole answer before the first row is fetched), one round of the loop, the end |
| `LoseConnection`, `Abandoned`, `Crash`, `Restart` | as in `MessageService`; an abandoned insert may still draw its id, and commit, at any later time |

How a channel is found missing is `MessageService`'s matter; here a sender may be
turned away before any message, or fail before it broadcasts. The join with `users` loses no row
because `message.user_id` references `users` and no statement deletes a user.
`before` and `asked` are history variables.

What it shows. Rows become visible in another order than that of their ids, so
what is new in the next reading may be in the middle of it: a client must not
take what follows the last id it has seen for all that is new. (The field
`afterid` of the request invites to that; the handler reads it and does not use
it.) What does hold is `RealTimeOrder`, since an id is drawn after the
broadcast, and `RepeatableOrder`. `RealTimeOrder` is about stored messages only:
a message that was read in the history, or acknowledged, precedes every message
broadcast after that. A client that answers what it saw live may be faster than
the insert of what it answers, and then its answer comes first.

The archive. `MessageArchive` knows no ids and no inserts. Its history is a set
of messages with an order, `precedes`, which both only grow: a message enters
anywhere behind what was in the history when it was broadcast (`floor`), at any
time until its call ends and, if the call failed, at any time after. A reader is
given the messages of its channel at one moment of its call and shows them in
the order of that line. In the mapping, the history is the messages of `rows`
and `precedes` compares the ids of their rows; drawing an id, asking, answers of
the database and most failures change nothing in it. It leaves open where behind
its floor a message goes, because the code does: two messages on their way at
once may be stored in one order and have their ids in the other.

### Startup

| Action | Code |
|---|---|
| `Start` | `main` up to its choice, `wrongthink.cpp` 106-128 |
| `Execute`, `Refuse` | one statement of `DBPostgres.cpp` 35-41 or 48-97; one the database refuses, caught at 130 |
| `RunServer` | `wrongthink.cpp` 72-104; without a server the process ends in `Wait` |
| `BreakOff`, `OrphanTakesEffect` | SIGINT, a fault, an exception; a statement that takes effect although its process has ended |

A table is dropped only if no table refers to it, and created only if those it
refers to are there. `old` and `disturbed` are history variables: tables that a
clearing process met, and what others did since a process started. gRPC lets
two processes listen on one port on Linux, so both may serve.

What it shows. From whatever a broken start left behind, the next start reaches
the whole schema, alone or beside others that create; a late drop of a dead
process can take a table from a server that has validated, and so can a second
process started with `clear`, which is why `SchemaComplete` excludes drops of
others.

### Sessions

`plan` is what a call has still to do: the order in which sessions are opened,
used and closed, by the interceptor (`isIPBanned`, `isUserBanned` with
`isIPBanned` inside), then by the handler. A call does not have to get to the
end of its plan. Wherever it is refused a session, a statement fails, or the
code returns early, the scopes it is in are left and their sessions destroyed,
in one step (`Leave`), as nothing else happens between two destructors. A
listener keeps its session in its endless loop. While a stream reads, the
interceptor opens its sessions beside the stream's, in the handler's thread,
where the handler catches; before the handler runs nothing catches, and the
process ends (`CheckFails`). When it ends, the database keeps its connections
for a while (`Reap`).

`OpenSessions` is the set of pairs of a call and a number up to that of its
sessions, and `Total` its size.

| Action | Code |
|---|---|
| `Arrive`, `NextMessage`, `EndOfStream` | a call and, for streams, each message (`Interceptor.cpp` 29-65, `WSI` 252-262) |
| `Open`, `Query`, `Close` | `getSociSession`, the statements in its scope, the end of the scope |
| `OpenFails`, `QueryFails` | the handler, or the interceptor while a stream reads, is refused a session or has a statement fail: `INTERNAL` (`WSI` 56, 221, 263), for a listener, which does not catch, `UNKNOWN` |
| `TurnAway` | no such channel (`WSI` 214, 258, 285); `BanUser` before its first, second or third session (47-53) |
| `CheckFails` | a refused session or a failing statement before the handler |
| `Stop`, `Restart`, `Reap` | the process and the database |

What it shows. Connections are never lost, and as the database refuses instead
of making callers wait, calls that hold one and want two more do not block each
other: with a pool they could (`OpenWaits`). But every listener takes one for
the life of the process, also when its client has gone; when all are taken, the
next call's check ends the process. A connection that breaks on the network
counts as open until its session is destroyed.

### DirectoryService

A call runs once. A row is an id and the call that inserted it; the rest of the
row is that call's request. Each statement is a transaction of its own.

| Action | Code |
|---|---|
| `StartCreateUser`, `StartGenerateUser`, `StartCreateCommunity`, `StartCreateChannel`, `StartList` | the entry of the handlers and the fields they read |
| `CountAdmins` | `DBPostgres.cpp` 174-175; `admin` is a reference, the handler returns it |
| `DrawId`, `CommitRow`, `RejectRow` | an insert: the serial advances first and outside the transaction, then unique names and references decide |
| `SelectId` | the second statement, by name, and the answer |
| `QueryRows`, `WriteEntry`, `EndList` | the join, the loop of writes, the end |
| `LoseConnection`, `OrphanCommit`, `Crash`, `Restart` | as in `MessageService` |

What it shows. Several administrators may come of a race between first users,
but never a plain user before an administrator, although a counted zero may
belong to an account that is never inserted. A refused insert uses up an id, so
ids have gaps. `acked` is a history variable: what clients knew of when a
listing was asked for. The run `directory_anonymous` shows a bug of the code:
the channel listing reads column 2 as `anonymous`, which is `community`, so
every channel is listed as anonymous (`WSI` 152).

### BanControl

| Action | Code |
|---|---|
| `Arrive`, `CheckPeer`, `FreePeer` | the interceptor's first hook, `isIPBanned` and its delete |
| `CheckUser`, `CheckPeerAgain`, `BarPeer`, `BarPeerTwice` | the second hook, `isUserBanned`: its select, the nested `isIPBanned`, its insert, the insert that meets a row |
| `Authenticate`, `Authorize` | `hasCredentials`, `getCredentials`, `isUserValid`; `isUserAdmin` |
| `FindUser`, `LookForBan`, `ExtendBan`, `AddBan`, `BanFails` | `banUser` |
| `Serve` | any other handler |
| `Abort` | nothing catches what the interceptor throws: the process ends |
| `LoseConnection`, `Tick` | a database error; time |

`Wrap` and `Fits` are the two places where an `int` ends: the product of
`banUser`, which overflows (undefined; the model takes the wrap-around a build
without traps gives), and PostgreSQL's sum, which is refused. The instances
scale the integers down: `Half = 16` for 2^31 and a day of one second, with four
"milliseconds" to the second where the factor is the question (`ban_enforced`,
`ban_days`). In `ban_rows` a day fits, 10 days are refused by PostgreSQL and 16
days wrap into the past.

Whether SOCI can move an `int` column to and from a `std::tm` is not for this
code to say: if it cannot, it throws, which is the step `LoseConnection` in the
interceptor. If it can, ban rows are compared as the code intends.

What it shows. Two findings: the interceptor looks up the default value of the
field `uname` instead of the request's name, so no ban is enforced
(`Interceptor.cpp` 61), unless a user has the empty name, which nothing forbids;
and a ban lasts a thousand times its days (`DBPostgres.cpp` 154). With a user of
empty name the whole path is alive, and the run `ban_rows` takes it. An expired
ban of that user makes the interceptor throw on every call with a name, as the
delete statement names a column that the table does not have
(`DBPostgres.cpp` 129). A cancelled call still reaches its handler.

`before` is a history variable: the bans that were there when a call came.
`by` and `at` in a row of `bans` say who wrote it and when.

## 3. Runs

| Run | Instance | Checks |
|---|---|---|
| `channel_threads` | 2 appenders, 2 listeners, one with spurious wake-ups, 2 messages, at most 3 appended, fairness | `TypeOK`, `LastIsNewest`, `NotifyOwed`, `NoEmptyDelivery`, refinement `BroadcastSpec`, liveness `WaiterServed` |
| `service_storage` | a stream of up to 2 messages, a one-message call, 1 channel, a known and an unknown user, 1 crash | `TypeOK`, `AckedStored`, `StreamPrefix`, `PhantomBounded`, `StoredWasBroadcast`, `KnownChannelAccepted`, refinement `LedgerSpec` |
| `service_listen` | a stream of up to 2 messages, a listener, 2 channels, 1 crash, fairness | `OneObject`, `NoCrossTalk`, liveness `RequestSettled` |
| `directory_accounts` | 1 `CreateUser`, 1 `GenerateUser`, 1 community, 1 community listing, 2 names, 1 crash | `TypeOK`, `FirstUserIsAdmin`, `AnsweredOwnRow`, `ListsAcknowledged` |
| `directory_channels` | 1 user, 1 community, 2 channels, 1 channel listing | `ListsAcknowledged` |
| `directory_anonymous` | 1 user, 1 community, 1 channel, 1 listing | `AnonymousListed`, violated |
| `history_read` | a stream of up to 2 messages, a one-message call, 2 readers, 2 channels, a known and an unknown user, 1 crash, one reading at a time | `TypeOK`, `RealTimeOrder`, `HistoryHasAcked`, `RepeatableOrder`, refinement `ArchiveSpec` |
| `ban_rows` | 2 `BanUser`, 1 other call, 1 peer, 2 users, one with the empty name, spans that fit, are refused and wrap, bans that expire | `TypeOK`, `BansByAdmins`, `LatestBanHolds`, `CancelNeedsBan` |
| `ban_enforced` | 1 `BanUser`, 1 other call | `BannedRefused`, violated |
| `ban_days` | 1 `BanUser` for 1 day | `BanLastsDays`, violated |
| `startup_starts` | 3 processes, each with or without `clear`, on a new database or an old one | `TypeOK`, `SchemaComplete`, `RefusedByOthers`, `ClearForgets` |
| `sessions_shared` | 2 listeners, 1 stream, 1 `BanUser`, 3 connections, fairness | `TypeOK`, `Accounted`, `ListenersKeepAll`, liveness `NoneWaits` |

Why the bounds are enough. Two appenders and two listeners are the least with
which a notification can fall between another thread's lock and wait, and one
listener can be overtaken by another. Three messages let a listener fall two
behind. In the service every data item is compared for equality only; two
senders race in the map, one stream of two messages can fail at its second, two
channels let a stream change its channel under a listener, and one crash
separates a process that knows a channel from one that does not. The proofs
below remove the bounds for the properties they cover. In `DirectoryService`,
`MaxId` bounds the ids that clients name (0, which no row has, and 1), `Flag`
the Boolean fields they send; two accounts are the least that race for the
first row, or for a name. In `BanControl` two calls
race to leave a user two rows, or one replaces the ban of the other, while a
third call runs the interceptor; that a later ban replaces both rows is beyond
the instance and follows from the theorem `LatestHolds`. In `History` a stream
of two and a call of one message are the least with which ids and commits come
in different orders around an answered message, and two readers are what
`RepeatableOrder` compares; the constraint `OneReading` lets the second ask when
the first has ended, well or not, as readings write nothing that other calls
use and `RepeatableOrder` compares only those that follow each other. In `Startup` three processes let one break off, one
clear and one serve. In `Sessions` a stream with three sessions, or two
listeners and one other call, fill three connections; a one-message call and the
calls with one session (`Web`, `Other`) nest no deeper than these, leave from the
same kinds of places, and are in the theorems.

Deadlock. `channel_threads` checks it: a listener that may wake unnotified can
always move. The other runs switch it off, since calls run once, clients need
not send, a listener may wait for ever, and the clock is bounded.

Fairness. Threads are scheduled: every step of a handler that needs no client
is weakly fair. A lock is free again after a bounded number of steps of its
owner, and a bounded number of messages is appended, so weak fairness of the
lock steps suffices in `channel_threads`; spurious wake-ups are assumed to come
to an end, as a listener that kept waking could take the lock for ever. In
`service_listen` the database answers or its connection breaks. `RequestSettled` counts a sender as busy from the
message it read to the answer to its insert, the append included, and a listener
until it is in its loop. In `Sessions` a
connection is granted or refused, statements end or fail, and a session is
closed; clients need not call or send. A dead process need not be started again.

## 4. Proofs

Every safety and action property of a passing run, and the three refinements, are
proved for every value of the constants that satisfies the assumptions of the
modules: `ChannelAssumption`, `ServiceAssumption`, `DirectoryAssumption`,
`BanAssumption`, `HistoryAssumption` and `SessionsAssumption`. They say that the
kinds of threads and calls are disjoint, bounds are naturals, flags are Boolean,
administrators and known users are users. `SessionsAssumption` also says that the
calls are finitely many, since they are counted. `Startup` assumes nothing: its
processes may be infinitely many.

`SynchronizedChannelProofs`. The inductive invariant adds four parts to the
properties: `LockInv` (the owner of the mutex is the one thread inside a
critical section), `ArgInv` (the argument of a running append is a message, and
between `push_back` and the assignment it is the end of the log), `CopyInv`
(what a listener will write is what the log held at its cursor) and `WakeInv`
(a wake-up follows a message). `LastIsNewest` needs `LockInv`: only because no
one else can append in between is the assigned message still the newest.
`NotifyOwed` is inductive once the history variables are bounded: the step that
makes the log grow is the step that puts its thread in debt, and the debt is
paid by waking every blocked listener. Proved: `TypeCorrect`, `NewestCached`,
`NoLostWakeup`, `NeverEmpty` and the refinement `ImplementsBroadcast`.

`MessageServiceProofs`. `CallInv` ties a call's place to its data, `RowInv` says
that a row is the message its call read under that number, and `StoreInv` says,
place by place, which messages of a call are in the history: all but the last
always, the last one after its insert and never before. The second half of
`StoreInv` is what makes `StreamPrefix` inductive, as it excludes storing a
message twice. Races need no extra invariant: whatever the map answers, a call
reaches its insert through the same places. Proved: `TypeCorrect`,
`AckImpliesStored`, `StoredIsPrefix`.

A second invariant, `MapInv`, is about the map and its objects; its steps are
first reduced to what they do to these (`MapSteps`). `KnownInv` says that
channels are never removed: hence `KnownChannelAccepted`.
`WriterInv` says that as long as no thread met another's window, one thread at
most is inside an insertion, for a channel the map does not have; so the entry
it links hides none, and `OneObject` is inductive. `ServeInv` says that an object
is used for one channel only, by the map, by the handlers that hold it and by
the messages in it, whether the map has been raced or not: a race can lose an
object, but never hand it to another channel. With `CursorInv` this gives
`NoCrossTalk`. Proved: `KnownIsAccepted`, `ObjectsAreShared`,
`ChannelsKeptApart`.

`MessageLedgerProofs`. Every step of the RPCs is first put into one of five
kinds by what it changes of a sender (`StepKinds`): nothing that the ledger
sees, a message read, a message broadcast, a row inserted, calls ended. `ShowInv`
is then inductive by kind: until its append the message in hand has not been
broadcast, at its insert it has, and whatever was broadcast is what some call
read under that number (`SourceInv`). With `StoreInv` this gives every guard of
the ledger's actions. The last step of a call that lost its process is the
delicate one: an insert may still land after the client was told of the failure,
which the ledger allows for a message that was shown. Proved:
`ImplementsLedger`, `StoredWasShown`, `PhantomsAreBounded`.

`DirectoryServiceProofs`. `RowInv` (a row's call is past its insert, names are
unique in a table) and `SelectInv` (a call that looks for its row has one) give
`AnsweredOwnRow`: the select by name can find nothing else. `CountInv` is the
heart of `FirstUserIsAdmin`: a call that decided not to make an administrator
has seen one, and once it has drawn an id, one with a smaller id. `RefInv` (the
references to users hold) is why the join of a listing loses nothing, and
`ListInv` says what a listing under way still owes. Proved: `TypeCorrect`,
`FirstIsAdmin`, `AnswersOwnRow`, `ListsAreComplete`.

`BanControlProofs`. Every step is first put into one of four kinds
(`StepCases`); a step of a call is described by what it may change (`OneCall`).
`RowInv` (rows were written by calls that are done) makes a row that is being
written different from all that any call found. `BeforeInv` says that users
found banned are still banned, and that a call that is about to add a row found
none: without it an added row could leave an older one beside it and
`LatestBanHolds` would fail. `BarInv` (a call that bars its peer found a ban)
gives `CancelNeedsBan`. Nothing is assumed about the width of an `int` but that
it is positive. Proved: `TypeCorrect`, `OnlyAdminsBan`, `LatestHolds`,
`NoCancelWithoutBan`.

`HistoryProofs`. Every step is first put into one of seven kinds (`Kinds`):
only places and outcomes change (a crash among them), a sender's broadcast, the
drawing of an id, a commit, and the three steps of a reader. `IdInv` is the
heart of `RealTimeOrder`: an id that is drawn and not yet committed, also by an
insert whose call or process is gone, belongs to nobody else and is above those
of all rows that were there at the broadcast. `StoreInv` says which messages of
a call are stored, place by place, so an acknowledged one is there when a reader
queries. `SortedInv` says that what a reader has written is in the order of ids
and below what it has left, and `AskedInv` that the answer of a reader has the
acknowledged messages and the rows of all readings that had ended well before
it asked. `RepeatableOrder` then follows because ids determine the order
whichever rows came in between.

The refinement takes the same kinds of steps. A calm step is the archive's `End`,
which may also end no call; `Draw` and `Ask` are stutters; the others are an
action each. A commit is the step that needs the invariant most: the messages of
smaller ids are what the new one enters behind, `IdInv` puts all of its floor
among them and keeps the id off every row, and since messages and ids determine
each other (`TypeOK`) the new pairs of `precedes` are those that the archive
adds and no others. That `precedes` is a strict linear order of the history is a
theorem of its own, so that "behind" leaves exactly the places of a line.
Proved: `TypeCorrect`, `HistoryInTime`, `HistoryIsComplete`, `HistoryRepeats`,
`ImplementsArchive`, `HistoryIsALine`.

`StartupProofs`. The script of a start with `clear` has 14 statements; every
process is at some place `k` of it, a start without `clear` at 7 or later
(`Progress`). `Relies` says what a process may count on at its place: of the
tables it met only those it has still to drop are left; while it drops, there
are no others unless someone created them; and all but those it has still to
create are there unless someone dropped them. A refusal at `k` means that a
table refers to the one to be dropped, or that one referred to is missing, and
the orders of the two lists exclude both for what the process relies on: hence
`RefusedByOthers`. Place 14 gives `SchemaComplete` and `ClearForgets`. Proved:
`TypeCorrect`, `ServesComplete`, `RefusedOnlyByOthers`, `ClearHasForgotten`.

`SessionsProofs`. `TypeOK` and `Accounted` are not inductive, as they do not say
what a call will do. The invariant says that what each call has still to do
leads from the sessions it holds to none and never above its limit (`Leads`: a
depth after every operation, as for a sequence of brackets). A call that leaves
its plan gives back what it holds at that place, so that the count of the
connections must be exact at every place and not just at the end. That the plans
built from the interceptor's checks and the handlers do so is proved part by
part and put together by `LeadsConcat`. Connections are counted as pairs of a
call and a session number, so opening adds one pair, closing removes one and the
end of a call or of the process removes all of its own. `ListenersKeepAll`
counts again: when listeners and dead processes have every connection, each
open session is the one session of a listener, so no other call holds one and
none can come to its end with OK. Proved: `TypeCorrect`, `NoneLost`,
`ListenersKeep`.

Left to TLC: the liveness properties `WaiterServed`, `RequestSettled` and
`NoneWaits`, since the prover has neither `ENABLED` nor fairness, and the three
properties that the code violates (`AnonymousListed`, `BannedRefused`,
`BanLastsDays`), for which TLC shows the counterexample. What the message RPCs
use of the monitor (`ChannelBroadcast` in place of `SynchronizedChannel`) rests
on `ImplementsBroadcast`; that replacing one by the other keeps the properties
of the whole is an argument of this document, not a theorem.

## 5. Plan

Done: all the modules of section 2, their runs, and the theorems of section 4,
with which every property of the passing runs but liveness is proved. Nothing of
the plan is left. What could be added next, in this order:

1. one specification of the message RPCs and the readers together, in which
   `MessageLedger` and `MessageArchive` are two views of the same calls;
2. a model of the SQLite backend, if the server is to use it.

## 6. Not modelled

Logging; the text of messages and names; the vendored Boost headers; the
deprecated test client; the uWebSockets example, which is not part of the
server; the SQLite backend, which only the tests use; `DeleteMessage`, a stub;
`sendMessage`, empty; `getMessages`, `lastMessage` and the comparison operators
of the monitor, which no handler calls; `isUserModerator`, which nothing calls.

External behaviour that is not modelled either: gRPC may hand the interceptor no
message at the end of a stream, which `Interceptor.cpp` 44 would dereference;
two `create table if not exists` at once are atomic in `Startup`, which they are
not quite in PostgreSQL; a broken `std::map` in which a search does not end.
