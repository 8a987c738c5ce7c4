# A TLA+ model of qt-chat-app

qt-chat-app is a chat system of one server and many desktop clients (C++, Qt).
They talk over TCP in packets; the server keeps users and chats in PostgreSQL.
This directory models the parts that hold state and interact, checks them with
TLC on small instances, and proves with TLAPS what matters most about the server,
the database, the account window, the sending of messages, the chat list and the
framing of packets, for every instance. Paths in this file are relative to the root of the repository; `Server.cpp`
and the like stand for `src/server/src/Server.cpp`, `src/client/src/...`.

## 1. The system

### Components

| Component | State | Operations | Talks to |
|---|---|---|---|
| `Server` | `m_clients` (session id to `ClientConnection`), `m_socketBuffers`, the listening socket | `start`, `stop`, `onNewConnection`, `onServerRead` with one handler per packet type, `onClientDisconnected` | clients by packets, `Database` by calls |
| `ClientConnection` | socket, `m_isAuthorized`, `m_userId` | `authorize`, `logout`, `matchesSocket` | a value in `m_clients` |
| `Database` | a connection; the tables users, chats, chat_members, contents, messages, user_stats | one statement per method, but for `updateUserProfile`, a transaction of several | PostgreSQL |
| migrations, start of the server | `schema_migrations`, the tables | `Database::init` runs the files not yet recorded, each in a transaction; `main` then listens | PostgreSQL |
| `Client` | `m_socket`, `m_connected`, session id (one per process), server id | `connect`, `disconnect`, socket slots, `sendBytes` (posted to the GUI thread) | server, all managers by `connectionStatusChanged` |
| `RequestManager` | `m_incomingBuffer` | `processBytes`, `processPacket`, one sender per request | signals to the managers below |
| `AccountManager` | mode, logged in, busy, pending action, profile | `login`, `registerAccount`, `logout`, the slots for results and profiles | `RequestManager` |
| `UserResolver` | two caches, two sets of pending look-ups | `resolveUser`, `invalidateUser`, `clearCache`, three slots | `RequestManager`; signals to `ChatCreator` |
| `ChatManager` | chats by id, list, selected chat | `selectChat`, `addChat`, `removeChat`, list and login slots | `AccountManager`, `RequestManager`, `Chat` |
| `ChatCreator` | members, pending name, "creating" | `addUser`, `createChat`, `reset`, three slots | `UserResolver`, `ChatManager` |
| `Chat`, `ChatMessage`, `MessageSender` | messages, their status and the sender's name; one thread per chat | `submitMessage`, `processMessage`, `onMessageSent`, `onNewMessage`, `resolveSender`, `label`, destruction | `Client` across threads, `UserResolver` |
| framing (`util.cpp`) | the two incoming buffers | `encapsulate`, `parseStream` | between sockets and packets |
| packets and DTOs, server models, `Hasher`, `main.cpp`, `ConsoleReader`, QML | none of their own | conversions, wiring, layout | - |

### How they interact, and what is hard

* **One event loop per process**, so a slot or a handler is atomic. The exception
  is the client's sender threads: they read `Client` and `AccountManager` without
  a lock, spin until there is a connection, and are joined by `~Chat` on the GUI thread.
* **Requests carry no id.** Any `OPERATION_RESULT` completes whatever is pending:
  in `AccountManager`, in `UserResolver` and in `ChatCreator` at once.
* **A session outlives its connections.** The client keeps its session id; the
  server keys `m_clients` by it, and learns of a lost connection on its own time.
* **No transactions over handlers.** A handler makes several queries, any of which may
  fail; a failing SELECT looks like an empty result; the process may end in between.
* **The database acts on its own.** Deletes cascade over five foreign keys, triggers
  count chats and messages and keep former names, also under a cascade; what is
  there when the triggers are created was never counted.
* **A start may end anywhere**, and a second process may start on the same database
  while the first still runs its migrations.
* **Bytes, not packets.** A read returns any part of what was sent.

What makes each component correct:

* server: one session per user; `m_clients` never refers to a socket that is gone;
  authorization and user agree; names are unique; a message reaches exactly the
  logged-in members of its chat; an announced chat is stored whole;
* account window: what it shows as logged in is what the server has authorized;
  its fields agree; every action ends;
* sending: no message is read after it was deleted, sent under another name, sent
  twice or out of order; deletion and sending end as long as there are connections;
* look-ups and chat list: no look-up is pending with nothing under way; the list
  becomes the server's list; the selection is a chat of the list; a message finds
  its chat, and shows its sender's name once that is known;
* start: every migration file runs once and is recorded; a server serves only the
  full schema, and one at a time;
* database: rows refer to rows that exist; look-ups by different keys agree;
  statistics follow the rows they count; a rename and its history go together;
* framing: packets arrive whole, once, in order, wherever reads are cut.

## 2. Modules

| Module | Models | Uses |
|---|---|---|
| `Server` | the server and what it stores | - |
| `ExclusiveLogin` | abstract: a user is held by one session | implemented by `Server` |
| `ServerProofs` | theorems about `Server` | `Server` |
| `AccountSession` | `Client`, `AccountManager` and their sockets | `Server`, composed with it |
| `MessageSending` | `Chat`, `MessageSender`, deletion, the event queue of the GUI thread | - |
| `UserResolver` | the resolver and the server's directory of users | - |
| `ChatCreation` | `ChatManager`, `ChatCreator`, the creation window | `UserResolver`, composed with it |
| `Framing` | `util.cpp` and the incoming buffers | - |
| `PacketChannel` | abstract: a FIFO channel of packets | implemented by `Framing` |
| `Migrations` | `main`, `Database::init` and the end of server processes | - |
| `Database` | the tables with their keys and triggers, every method of `Database` | `Migrations`, composed with it |
| `MigrationsProofs`, `DatabaseProofs` | theorems about the two | - |
| `AccountProofs`, `AgreementProofs` | theorems about `AccountSession` | `ServerProofs` |
| `SendingProofs` | theorems about `MessageSending` | - |
| `ChatProofs` | theorems about `ChatCreation` | - |
| `FramingProofs` | theorems about `Framing` | - |
| `MCServer`, `MCAccountSession`, `MCFraming`, `MCDatabase` | instances for TLC | - |

Operators called `X_Something` right before `X` are faulty variants of `X`, each a
mistake one could make in that code. Nothing uses them; `PROJECT.json` ("mutants")
names for each property a variant that breaks it.

### Server

`clients` is `m_clients`; a session that is not in it has the value `NoConnection`.
`peer` is the key set of `m_socketBuffers` together with the client process at the
far end, which the code does not know and no handler reads but to say which
session's packets can come in on a socket. `account` is the table users (the names
only: who has which password or mail address is decided by the input of a login),
`chats` the tables chats and chat_members. `sent` is what the last handler wrote to
each registered session. Each handler is one action, with its early returns in the
order of the code and the answer of each. Queries are relations on the tables;
with `ReadsMayFail` any of them may return nothing, as a failing SELECT does.
`crash` ends the process, `crashInCreateChat` ends it among the inserts of a chat:
the tables stay, all else is gone. Three simplifications: a packet's `sender()` is the
session of its socket, as a client process writes its one id into all packets; the look-up of
a name and the UNIQUE key behind it are one condition (`NameTaken`), as no packet is handled between
them; and packets without a payload, which the client does not send, are left out where
the code drops them without an answer. `handleServerPacket`, which logs, is left out.

TCP is abstract: a connection is established and accepted in one step, a packet of a
session may arrive on any socket of that session at any time. `AccountSession`
refines this with queues.

### AccountSession

Each client has a socket (`conn`), each socket a queue per direction (`up`, `down`).
A step of the server is one action of `Server` together with the queues; what `sent`
holds after it is appended to `down`, each packet reduced to what `AccountManager`
looks at (`Seen`). The posted write of `sendBytes` and the kernel buffers are part of the
queue. The ends of a connection are separate steps: `onDisconnected` at the client,
`serverDisconnects` at the server, in either order, with loss of what is unread.
`AccountManager`'s slots are functions of its state record (mode, loggedIn, busy,
pending, profile). `Lookups` adds the resolver's requests, `ChatInput` the chat
box's messages; both share the answers. A message is answered as its sender sees
it (`answerMessage`); to whom it goes is in `Server`.

### MessageSending

`inbox` is the event queue of each chat's thread, `events` that of the GUI thread,
`thread` the program counter of `processMessage`, `messages` the own messages of each
chat's list, as they were submitted. The test of `connected`, the read of the
user and the two posts are separate steps, since the GUI thread runs between them.
(`m_connected` and the profile are plain fields read without synchronisation: the model
lets a read see the value at that moment. The loop calls a function of another
translation unit, so it reads the flag again each time.) `waiting` is the chat whose
`~Chat` blocks the GUI thread: meanwhile no socket, user or posted event is handled.

Socket and user events come between two posted events. A login is an exception: it
took round trips, so everything posted before it has been handled (`events = <<>>`).

### UserResolver and ChatCreation

One client, whose user is `Self`, and as its server the directory of the other users
and the chats of `Self`. Requests and replies are two FIFO queues. `UserResolver` has
the methods and slots; `ChatCreation` adds the chat list, the creation window, logins
and logouts, and the delivery of packets to all of them. A result carries a success or
an error and no request. `pending` and `loggedIn` are what is left of `AccountManager`:
a login asks for the profile on any success, the profile sets `loggedIn` and asks for the
list, a logout ends on any success, and any error ends either. `authorized` is the
server's view of the login, changed by its own handlers: it may come before the client's
`loggedIn` (lists that arrive in between still contain `Self`, `OtherMembers`), and a
logout may leave one of the two without the other (finding 1). `otherRequestEnds` stands
for the results of the requests that are not in the module. A member keeps the name it was added with, as `m_members`
keeps the `PublicUserInfo`. `unnamed` is all that is kept of received messages: whose
name each chat's messages still show as "Loading...". A new `Chat`, a changed one,
a received message and a drawn label look up who they show (`LookUp`, `label`); the
look-up of `Self`, in a list that came before the login, is left out. It is assumed
that the server has registered the connection (section 5 has when it has not),
that its SELECTs in `handleGetChats`, `handleCreateChat` and `handleChatMessage` do
not fail (`Server` has those failures), that the client logs in when it is logged out
(the window offers nothing else), and always as `Self`. A pending registration is left
out: it would only take a result that nobody waits for.

### Framing

One direction of one connection at a time. A packet is the bytes it serializes to.
`ScanByte` is the body of `parseStream`'s loop, `Scanned` the loop over the kept bytes
and a new chunk (a recursive function, so that it can be proved about). `BufferPerSocket` tells the server (`m_socketBuffers`) from the client
(`m_incomingBuffer`).

### Migrations

`phase` is where each process is in `main` and `init`, `current` the version it has
reached, `versions` the rows of `schema_migrations`, `schema` the files whose effects
are committed. A file that creates things fails where they are there already; one
that only replaces functions (`Rerunnable`) runs again, and then it is the key of
`schema_migrations` that stops it. Commits may be done and not be answered. A process
that listens and loses its database (`cut off`) keeps the port and never connects again.
All processes have one port: `main` takes it from the environment (`PORT`), so that
`OneServer` is about the processes that were given the same one.

### Database

Each table is a function from ids to rows or a set of rows. A row has what other rows,
queries and triggers look at: a user its name (the e-mail address is unique in the
same way; password and display name are read by nobody here), a message its sender,
receiver, chat and content. Each method is an action with all its foreign keys,
`ON DELETE` actions and triggers; queries are operators. `updateUserProfile` is a
transaction of steps on a copy (`tx`) that a commit writes back; as a server has one
connection and one thread, no other method runs in between, but the connection or the
process may end after any step, or in the commit. A method whose statement fails
changes nothing and is not an action, with one exception: `createMessage` always fails
(section 5) and has used up its id. `ex_usernames` is a set, where the table has
an array that may repeat a name. `Old` is what an earlier release has left: rows that obey
the constraints of the time, and no statistics. Migration 012 sets `username` to lower
case: a `Name` is a name in any spelling, and `Old` has no two users whose names differ
by case only (012 would fail). With rows in user_stats the trigger of 010 would also keep the old
spelling; `Old` has none. `createUserStats` takes any counters and has no caller: it is
called with those of a new user here, and `StatsNotAhead` rests on that. `Server` has its own view of users and
chats, with failing statements; the two are not composed.

## 3. What is checked

| Run | Instance | Shows |
|---|---|---|
| `server` | 3 sessions, 3 sockets, 2 users, 2 names, 1 chat; SELECTs may fail | types, one session per user, no dangling socket, authorization, unique names, sockets never replaced; `Server` implements `ExclusiveLogin` |
| `server_chats` | 3 registered users, 3 sessions, 1 chat | audience of messages and announcements with direct and group chats |
| `account` | 2 clients, 2 sockets, 2 users, 2 names, 3 packets per connection | its fields agree; logged in at the client implies authorized at the server; no user shown by two clients |
| `account_ends` | 1 client, 2 sockets, 2 users, 1 name, look-ups, chat messages, fair | every action of the account window ends |
| `account_logout` | 1 client, 2 users, look-ups | violated: see findings |
| `sending` | 2 chats, 2 messages, 2 users, fair | no use after delete, authorship, order of what is written, marked after writing; chats end and messages are sent as long as connections return |
| `sending_stuck` | 1 chat, 1 message | violated: see findings |
| `chats` | 1 other user, 2 names, 2 chats, 2 packets under way, logins and logouts, fair | selection, list, dropped chats, received messages and their senders, pending look-ups and their end |
| `chats_resolving` | 1 user, 1 name, 1 chat | violated: see findings |
| `framing` | 30 packets of 1 or 2 of 5 kinds of bytes, 2 per connection | nothing is held back; implements `PacketChannel` |
| `framing_reconnect` | the same, one buffer for all connections | violated: see findings |
| `database` | 2 processes, 3 files, 2 users, 2 names, 1 chat, content and message; new and old database | schema recorded and served, references, look-ups, statistics, renames |

### Bounds, and why they are enough

* `server`: three sessions let one hold a user, one ask for the same user and one
  be the first's old connection; three sockets let a session reconnect while both
  others are connected. Users exclude each other by equality only, so two do.
  `ReadsMayFail` covers an error at each SELECT. One chat: no handler relates two.
  Permutations of sessions, sockets, users and names are a symmetry.
* `server_chats`: a group needs three members. The run starts from a database in which
  all are registered (`InitRegistered`, a restart of the server), which leaves
  the registrations, checked in `server`, out of the product.
* `account`: two sockets let a client reconnect while the old connection lingers,
  or two clients be connected. `MaxInFlight` bounds what a user starts, not what
  is answered: with three packets an action, a late answer and a handshake overlap.
  The VIEW leaves out `sent`, whose content is in the queues after the same step;
  no property of the run reads it. Symmetry is used, as there is no liveness.
  `account` is what the account window does alone (`Lookups` and `ChatInput` FALSE): with
  other requests their results are taken for its own, and `LoggedInIsAuthorized` and
  `LogoutClearsSession` fail (finding 1, and the first note after the findings).
  Without them `AgreementProofs` proves both, for any number of clients.
* `account_ends`: liveness, so no symmetry. One client, because waiting is for the
  server only; two users, because one may be held and refused.
* `sending`: two messages and two chats meet in the GUI thread's queue; two users
  are the author and somebody else. Chats and messages are created once each.
* `chats`: two names for one user make renames, stale names and refused look-ups;
  two chats make a chat of `Self` and one of somebody else at the same time. A second
  user would add group chats, which the client treats as any other set of members.
  `MaxInFlight` bounds what is started, not what is answered: look-ups and lists
  that packets set off, and the two packets for a new chat, come on top.
* `framing`: all classes of bytes the code tells apart (delimiter, escape, the two
  escaped codes, any other), all packets of up to two of them, all cuts. The header's
  33 bytes are bytes like any other for the framing. Nothing depends on length.
* `database`: two processes are enough for one to start while another starts, serves,
  or is cut off. Three files: one that is rerunnable and one before and after it; an
  old release left the first two. Two users and two names make renames, names
  taken, and both sides of a direct chat; one chat, content and message, since ids are
  handed out once and methods relate rows only through users and chats. The old
  database has a chat of both users with a message, so that cascades and triggers meet
  rows that were never counted. Permutations of processes are a symmetry.

Deadlock is checked but in `sending` and `sending_stuck`, where the client really
stops for good (`sending_stuck`), or has used up its chats.

### Fairness

* `account_ends`: weak fairness of reading at both ends (both processes sit in an
  event loop and sockets report what arrives) and of the client noticing a
  connection that the server has closed (TCP reports it). Not of users, and not of the
  server noticing a client that is gone; the run assumes instead that it does so
  before the client is back (`LateDisconnects = FALSE`); section 5 has what happens
  without that assumption.
* `sending`: weak fairness of the GUI thread's event loop and of each sender
  thread, both scheduled by the system. The network is not fair: `ChatsEnd` and
  `SubmittedIsSent` hold if the connection is up again and again
  (`ConnectionReturns`), which is what the spinning thread waits for.
* `chats`: weak fairness of the client's and the server's reading.

## 4. What is proved

All theorems are for any sets and bounds that satisfy the named assumptions of the
modules: the null values are no members of the sets, the sets of users, chats and
messages are finite (ids are UUIDs), flags are Booleans, and the old database obeys
the constraints that it was created with (`OldAssumption`). A condition of a theorem's
own is part of its statement, and shown in the tables.

### Server (`ServerProofs`)

| Theorem | States |
|---|---|
| `TypeCorrect` | `Spec => []TypeOK`: the state and every packet written is typed |
| `OneSession` | `Spec => []OneSessionPerUser` |
| `SocketsLive` | `Spec => []NoDanglingSocket` |
| `AuthorizationConsistent` | `Spec => []AuthorizedIffUser` |
| `NamesUnique` | `Spec => []UniqueUsernames` |
| `SocketsKept` | `Spec => SocketNeverReplaced` (an action property) |
| `LoginsExclusive` | `Spec => LoginExclusive`: the refinement of `ExclusiveLogin` |
| `MessagesRouted` | `Spec => []MessageAudience` |
| `ChatsAnnounced` | `~ReadsMayFail => (Spec => []AnnouncementConsistent)` |

*Types* have one lemma per handler; a handler's branches (drop, refuse, answer) share
`DropType`, `RefuseType` and `AnswerType`.

*Sessions.* `OneSessionPerUser` is not inductive by itself: a login compares user
ids of authorized connections only, so a connection that is authorized without a
user id, or the other way round, could break it, and erasing a connection
on disconnect finds the right one only if sockets belong to their
sessions. The inductive invariant is
`SessionInv == TypeOK /\ NoDanglingSocket /\ AuthorizedIffUser /\ OneSessionPerUser`.
`StepKinds` first reduces the handlers to the few ways in which they change sockets,
sessions and users (accept, drop, connect, log in, log out, register, rename,
process lost, or none of these); `SessionStep` then proves `SessionInv'` for each of
them. `UniqueUsernames` is inductive with `TypeOK`, as both writers look a name up first; a
lookup that fails is covered by the table's UNIQUE constraint.

*Refinement.* `holder[u]` is the set of sessions authorized as `u`. A login is `Take`,
a logout or a disconnect is `LetGo` of one session, the end of the process of all;
every other step leaves `holder` alone.

*Output.* `OutputKinds` says what a step may write: nothing of a message or of
an announcement, or what `handleChatMessage` routes, or what `handleCreateChat`
announces. Each of the two properties then needs one of the cases only. The announcement
needs SELECTs that succeed: the member list of the packet is read back from the database.

### Database (`MigrationsProofs`, `DatabaseProofs`)

| Theorem | States |
|---|---|
| `SchemaStaysRecorded`, `DatabaseMigrates` | the schema is what is recorded, a process serves the full schema only, and one at a time; for the start alone and with the tables in use |
| `TypesStay` | every row is typed, in the tables and in an open transaction |
| `ReferencesStay` | rows refer to rows, under every cascade |
| `LookupsStayEqual` | look-ups of a user by id and by name agree, look-ups of chats too |
| `RenamesStayRecorded` | a rename and its history come together |
| `MessagesAreNotStored` | `createMessage` stores nothing (section 5) |
| `StatsAlwaysFollow` | a step changes a user's counters by as much as what they count |
| `StatsNeverAhead` | no counter exceeds what it counts |

*Migrations.* `MigrationInv` adds that of two processes at the same file at most one has
run it and not committed yet (`PendingApart`: the other's statement waits for that commit) and how a process's version relates to the schema
(`CurrentKnown`).

*Rows.* `RowsInv == TablesInv /\ TxTyped /\ TxOK`. `TxOK` is why a commit keeps the keys: the
copy of an open transaction differs from the tables in one user's name, which is nobody
else's. `IdsTaken` (every row's id was handed out) makes creating a row fresh.

*Statistics.* The counters are compared with cardinalities of joins. Counting lemmas
say what a row that comes or goes does to them; a cascade removes many rows at once, and
is handled by the invariance of both sides. An open transaction leaves the counters as they
are (`TxCounts`).

### Account window (`AccountProofs`, `AgreementProofs`)

| Theorem | States |
|---|---|
| `AccountTyped` | `ASpec => []ATypeOK`, queues included |
| `AccountFieldsAgree` | `ASpec => []AccountStateConsistent` |
| `ClientsKeepOneSession` | `ASpec => [](OneSessionPerUser /\ NoDanglingSocket)` |
| `ExclusiveLoginShows` | where windows show only whom the server has authorized, no two show the same user |
| `LoginsAgree` | `~Lookups /\ ~ChatInput => (ASpec => []LoggedInIsAuthorized)` |
| `SharedByNobody` | the same condition: `ASpec => []NoSharedAccount` |
| `LogoutsAgree` | the same condition: `ASpec => []LogoutClearsSession` |
| `BusyInProgress` | `~LateDisconnects => (ASpec => []BusyMeansInProgress)` |

*Composition.* `ServerSteps`: a step of the composition is a step of `Server`, leaves it
alone, or answers a chat message. So `SessionInv` holds of the composition,
and `Consistent` (of one client's record) is kept by every slot whatever packet comes.

*Agreement.* Results carry no id, so a client that waits for its login takes
the answer of the handshake for it. That this does no harm has to be argued from
what can be under way at all: `AgreementInv` says, for each pending action, that there
are at most two packets between a client and the server, replies first, and of which kinds
(`Shape`); that a profile under way is the profile of whoever is
authorized (`Agrees`); that before the handshake is read nothing has been answered
(`LineOK`); and that a socket belongs to one client (`SocketsOwned`). One lemma per event
shows that taking a reply, sending, answering, dropping and losing keep it, whatever
the reply is taken for. With other sources of requests (`Lookups`, `ChatInput`) more can be under way,
and the theorems are false (section 5), hence the condition. Nothing is assumed of
when the server notices a lost connection.

*A busy client.* `BusyMeansInProgress` speaks of queues that are not empty; that it stays true
needs to know what is in them. `WaitInv` says that while an action is pending, the request
whose answer ends it is in `up` or that answer is in `down` (`Awaited`): a packet taken for
the answer of something else ends the action, and an accepted login asks for the profile
in the same step. The server drops the requests of a session that it does not know on
that socket, so `WaitOK` adds that as long as it does not know it, the handshake
is the first request of the queue. For that a session must have one live
connection at a time (`OneConnection`), which is the condition: a client that is back too
early is never answered (section 5). Look-ups and chat messages may come in between.

### Sending (`SendingProofs`)

| Theorem | States |
|---|---|
| `SendingTyped` | `Spec => []SendingTypeOK` |
| `NothingFreedIsUsed` | no thread works on a message of a deleted chat |
| `OrderKept` | no message is written after one that its chat submitted later |
| `AuthorsKept` | a message is written under its author's name or under none |
| `WrittenOnce` | a message is written at most once, and marked as sent after that was tried |

`Resting`: without a chat, its thread and inbox are empty; `~Chat` has waited.
`OrderKept` follows a message to the socket: `Ahead(n, m)` says that `n` is in front of `m`
in the same queue or one stage further (thread, GUI thread's queue, socket); `NoneAhead`, that no
message is ahead of one its chat submitted before it.
`AuthorsKept` needs that a message in work is the current user's, or that its chat is about to go
and its deletion is under way (`AuthorInv`). `WrittenOnce` needs that a message is at one place
at a time: in the work of one chat, among the posted events, or done, once in each
(`OnceInv`), and that the two posts of a thread stay in their order (`SentFollows`).

### Chat list (`ChatProofs`)

| Theorem | States |
|---|---|
| `ChatsTyped` | `ChatSpec => []ChatTypeOK` |
| `SelectionListed` | the selected chat is in the list |
| `SendersNamed` | a message shows its sender's name once that is known |
| `PendingUnderWay` | a pending look-up has a request or an answer under way |
| `ListStaysCurrent` | `ChatSpec => []ListIsCurrent`: with nothing under way a client that is logged in, here and at the server, has the server's list |
| `CreatedNotDropped` | `ChatSpec => []NoChatDropped` |
| `MessagesFindChats` | `ChatSpec => []MessageFindsChat` |

*Look-ups.* `PendingInv == ChatTypeOK /\ OfflineQuiet /\ PendingIsUnderWay`: without a connection nobody
waits. A reply that is taken from the queue ends every look-up it may have
been the answer of, as an answer clears id and name, and a refusal all.

*The list.* None of the last three is inductive: they depend on the order of what is on the
connection. `ListInv` adds, for every position of the queue of replies (`WireOrder`): a list
is the server's list or has a newer one behind it; a created chat has a list behind it, is
not shown, and is in nothing in front of it; whatever speaks of a chat, and whatever is shown, is a
chat of the server. And a client that is logged in at both ends has a list asked for, or the
last list under way is the server's with no new chat behind it (`Brings`), or nothing under
way changes its list, and it is the server's (`Still`). Chats only come at the server, so a
newer list never lacks a chat. Results are taken for those of other requests, so a client may
be logged out while the server still handles its session, and log in again with packets of
the last login ahead: what it then shows was the server's list once, which `WireOrder` allows.
It may also be logged in before its login is answered, or before the server handles it; then the list is asked for
behind that login (`LoginsAhead`), so that the server does not authorize a session that would
not be listed. `authorized` is part of `ListIsCurrent` because of finding 1: after an
error has ended its logout, a client shows a login whose session is sent no more lists.
Reading the first reply is the same for all kinds
of it: the rest of the queue is in order with respect to the list as that reply leaves it.

### Framing (`FramingProofs`)

| Theorem | States |
|---|---|
| `ReceivedInOrder` | `BufferPerSocket => (FramingSpec => []ReceivedIsSent)` |
| `AllIsHandedOn` | `BufferPerSocket => (FramingSpec => []NothingHeldBack)` |
| `StreamImplementsChannel` | `BufferPerSocket => (FramingSpec => ImplementsChannel)`: the refinement of `PacketChannel` |

For packets of any bytes and length, any number of them, and all cuts. The condition is the
server's side; with the client's one buffer the theorems are false (section 5).

`FramingInv` says what the bytes mean: those in the buffer followed by those on the wire are
exactly the escaped packets that were sent and not received (`OnTheWay(Pending)`), and the buffer has no
delimiter. TLC finds it true in the instance of `framing`. Reading a chunk
preserves it because of an invariant of `parseStream`'s loop (`Scans`): what the loop has found, with the packets
ahead, is what was pending, and the bytes ahead are the rest of a frame (`Inside`), of a
frame from the second byte of an escaped pair on (`Halfway`), or nothing (`Outside`). So an escaped
byte is never taken for a delimiter, also where a chunk ends between the two.

`FlattenSeq`, with which the bytes are laid out, and `Scanned` are recursive functions: that they
have values, and that the loop's invariant holds after any number of bytes, is shown by
induction, in the form of a fact about sets of numbers (`AllNumbers`, from the
well-foundedness of `<`).

### Only model-checked

Liveness (`ActionsEnd`, `ChatsEnd`, `SubmittedIsSent`, `LookupsEnd`), which is beyond the
prover: fairness is stated with `ENABLED`. Every other property that a passing run checks
is a theorem.

## 5. Findings

Each is the trace of a violated run.

1. **A look-up's error undoes a logout** (`account_logout`, `AccountManager.cpp:176`). It
   is taken for the result of the logout; the server logs the session out, the
   client goes on showing the user (`AccountManager.h:136`), with a list of chats that
   the server no longer updates.
2. **`~Chat` can block for ever** (`sending_stuck`, `Chat.cpp:36`). A message is submitted,
   the connection is lost, the chats are deleted: the GUI thread waits for a
   thread that waits for the GUI thread to connect (`ChatManager.h:74`).
3. **The creation window waits for a look-up nobody makes** (`chats_resolving`,
   `ChatCreator.cpp:169`). The connection is lost during a look-up; the resolver forgets
   it, `resolving` stays true and the input disabled (`ChatCreator.h:64`).
4. **Packets nobody sent** (`framing_reconnect`, `RequestManager.cpp:26`). The client keeps the
   partial packet of a lost connection and puts it in front of the first packet
   of the next connection (`RequestManager.h:60`).

Met while modelling, without a run of their own:

* `canSendMessages()` stays true while a logout is pending, against `AccountManager.h:142`.
  The refusals of messages sent then are taken for the answers of the next logins,
  which are then one behind: a client may show one user while the server has another
  authorized. `account` with `ChatInput = TRUE` (one client is enough) violates
  `LoggedInIsAuthorized` in 37 steps; every action still ends (`account_ends`).
* A client that is back before the server has noticed its old connection is not
  registered again (`Server.cpp:363`): the handshake is dropped, and so is every
  request after it, without an answer. The client stays busy although nothing is in
  progress (`AccountManager.h:203`). `account_ends` with `LateDisconnects = TRUE` shows it.
* `createMessage` always fails: the trigger of `010_user_stats_triggers.sql:4` writes a
  column `last_activity` that migration 009 does not create. `MessagesAreNotStored` proves
  that it stores nothing. The server does not call it.
* A profile update that changes the display name only still sets `username`, so that the
  trigger adds the current name to `ex_usernames`, documented as the "List of previously used usernames"
  (`010_user_stats_triggers.sql:49`, `UserStats.h:25`).
* `searchChats` compares an enum with `ILIKE`; the statement fails and no chat is found
  (`Database.cpp:391`).
* `user_stats` has no foreign key: rows of deleted users stay. Its counters start at the
  first row, so that after an upgrade they are too low and may become negative
  (`StatsNotAhead` is what remains true).
* `connect` is tried once: a server that loses its database serves on without it
  (`Database.cpp:18`).
* A message that arrives between the login at the server and the first chat list is
  dropped without a trace (`MessageFindsChat` says it is only then).
* After a refused or lost look-up a message shows "Loading..." until another message or a
  label asks for the same user; two messages of a renamed sender show different names
  (`ChatMessage.cpp:138`).
* `stop()` does not disconnect the clients (`Server.h:78`, `Server.cpp:94`).
* `invalidateUser(id)` leaves older names of a renamed user in the cache of names
  (`UserResolver.h:73`); `clearCache` clears pending requests its comment keeps
  (`UserResolver.h:90`). Nothing calls either.
* A chat list that arrives before the profile is shown before the login, with the
  own user as a member, and is not cleared if the connection is lost then.
* `addChat` is documented to replace a chat of the same id (`ChatManager.h:64`) and ignores it.
* A message counts as sent before it is written, and also if it never is
  (`MessageSender.h:49`).
* Any result ends a pending registration (`AccountManager.h:128`).
* Direct chats of the same two users may be created twice, one by each.

## 6. Plan

Done, in this order: `Server` and `ExclusiveLogin`, `ServerProofs`, `AccountSession`,
`MessageSending`, `UserResolver` and `ChatCreation`, `Framing` and `PacketChannel`,
`Migrations` and `Database` with their proofs, received messages in `ChatCreation` and
chat messages in `AccountSession`.
The client's modules were proved after that: `SendingProofs`, `AccountProofs`,
`AgreementProofs`, `ChatProofs`; the output of the server in `ServerProofs`; what is under
way to a busy client and to the chat list; and `FramingProofs`.

Left, in order of use: one module in which the chat list (`ChatCreation`) has the real
`Server` behind its queues, in place of its directory; the same for `Server` and
`Database`, where a failing statement is then a cause of `ReadsMayFail`. Both would take
their theorems from the modules they compose.

## 7. Not modelled

JSON encoding of packets and DTOs and `Packet`'s header (stateless conversions, covered by
the repository's tests), QML layout, console input that nothing reads, logging, hashing.
`invalidateUser`, `clearCache` and the slots for delivered, read and deleted messages, which
nothing calls. `updated_at` of messages (005) and the stored search functions (007, 011),
which the server does not call.
