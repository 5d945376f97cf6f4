# A TLA+ model of MoT

MoT is a terminal messenger: an ncurses client, a single-threaded TLS server and
an SQLite database. This directory holds a model of it, the TLC runs that check
small instances, and TLAPS proofs for instances of any size. Paths below are
relative to the repository.

## 1. Inventory

| component | state | operations | talks to |
|---|---|---|---|
| wire protocol (`include/system/protocol.h`, `src/common/protocol.c`) | none | `send_packet`, `recv_packet`: an 8-byte header, then a payload | everything that uses an SSL handle |
| storage (`src/server/storage.c`) | six tables in SQLite, one statement per transaction | register, credentials, profile, requests, friendships, conversations, participants, messages, history | called by the handlers |
| message encryption (`src/common/crypto.c`) | the key, from the environment | encrypt, decrypt | called by storage |
| client manager (`src/server/client_manager.c`) | list of connections, newest first, each with the user logged in on it | add, remove, find by descriptor, find by uid | called by the loop and the handlers |
| handlers (`src/server/handlers/*.c`) | none of their own | one per message type: auth, chat, contacts, groups | storage, client manager, `send_packet` |
| server loop (`src/server/main.c`) | epoll set, listening socket | accept and handshake, receive and dispatch, drop | all of the above |
| client (`src/client/main.c`, `client_context.c`, `services/*.c`) | screen, cached lists, chat history, under `state_lock` | a UI loop and a network thread | the server, over one SSL handle used by both threads |
| session file (`src/client/session.c`) | remembered credentials | save, load, clear | client start-up |
| backup (`storage_backup` of `storage.c`; not modelled) | one file a day in `data/backups` | copy at the start of the server | the database file |
| logger (`src/common/logger.c`) | the open log file, its name and day | write, change the name, close | every process of the directory |
| config (`config_loader.c`), UI (`src/client/ui.c`); not modelled | parsed keys, the screen | | |

What is hard about it:

* **Crashes.** Handlers run several SQL statements without a transaction, and
  the container restarts the process (`docker-compose.yml`, `restart: always`).
  Every prefix of a handler's statements can become the database of the next
  process. A friendship, its private chat and the request it answers are four
  statements and more; a group is one insert per participant; deleting it is
  three deletes.
* **Orders of packets.** No handler asks whether what the client acts on still
  exists. Requests are answered twice, or on two connections; texts go to groups
  that were deleted; members are kicked, added again, or added twice.
* **Pushes.** The server sends whole lists, unasked, to other users. They are
  read between the writes of a handler, and must show what the handler leaves.
* **Several connections of a user.** Pushes go to the newest one.
* **Limits.** Fixed arrays (10 participants, 50 rows), `LIMIT 50`, and a history
  buffer whose length is kept by hand.
* **Two client threads** on one SSL handle and one state. The network thread
  replaces lists under `state_lock`; the UI thread reads most of them without it.
  Answers carry no id of the request, and an empty list has no payload.
* **One server thread with blocking calls**: the handshake and writes have no
  timeout, reads have two seconds; descriptors come back while events of the same
  batch are still to be handled.
* **Pieces.** A packet is two writes and two reads, each of which may move less
  than it was asked to, fail, or (reading) time out.
* **Files.** The log file is copied and removed when its name changes, the client
  being killed or another process writing at any point; the remembered login is
  rewritten in place.

What makes each part correct, in short: accounts are unique; friendship is
mutual; a pair has one private chat and nobody else gets in; a group with
members has exactly one admin; no rows outlive their conversation; a request
disappears only when it was dealt with; lists are current and reach the people
concerned; texts reach the participants and nobody else; a new conversation
begins empty. `PROJECT.json` lists the hazards line by line.

## 2. Modules

| module | models | main definitions |
|---|---|---|
| `Protocol` | `protocol.h` | message payloads as records, the constants, `send_packet` |
| `Storage` | `storage.c`, `crypto.c` | a database is a record of tables; each query and statement is an operator on it; the integrity predicates |
| `ClientManager` | `client_manager.c` | variables `clients`, `sent`, `db`, `db_key`; `get_client_by_uid`; `push` |
| `AuthHandler`, `ChatHandler`, `ContactHandler`, `GroupHandler` | the files of the same names | one action per `handle_...` function |
| `Server` | `main.c` of the server | `Connect`, `Disconnect`, `BeforeLogin`, `AfterLogin`, `CrashInHandler`, `Restart`; the properties |
| `Conversations` | abstract: what `storage.h` and the group handlers promise | a room is unborn, private, a group, or gone; `OpenGroup`, `OpenPrivate`, `Join`, `Leave`, `Close` |
| `ServerRefinement` | | `room_of` maps the tables to rooms; `ImplementsConversations` |
| `MCServer` | | initial states for TLC |
| `StorageProofs`, `ServerProofs`, `ServerStepProofs` | | lemmas on the tables, invariants, properties of steps |
| `PacketChannel` | abstract: `send_packet` and `recv_packet` of `protocol.h` | `Send`, `Receive`, `Break` on a sequence of packets |
| `Transport` | `protocol.c` | `SendPacket`, `Write`, `Read`, `ReadTimesOut`, `LinkBreaks`; `ImplementsChannel` |
| `EventLoop` (`MCEventLoop`) | `main.c` of the server, call by call | `EpollWait`, `Accept`, `HandshakeDone`, `ReceiveHeader`, `ReceivePayload`, `Write`; what peers do |
| `ClientContext` | `client_context.h/.c`, the services | `app`, `state_lock`, the locals of both threads; the packets of each `service_...` |
| `NetworkThread` | `network_thread` | `Receive`, `LockForUpdate`, `Update` |
| `UILoop` | the loop of the client's `main` | `Render`, one `...Key` action for each screen, the steps a key takes |
| `Client` (`MCClient`) | both threads, their connection, the server as this user sees it | `Sessions`, `Handle`, `OthersWrite`, `OthersChange`, `ServerGone` |
| `LoginSession` | `session.c`, `auth_service.c`, start and login in `main` | `load_session`, `AutoLogin`, `service_login`, `save_session`, `Logout` |
| `Logger` | `logger.c` | `log_message`, `log_update_name` and `renamed`, several processes and crashes |
| `ClientProofs`, `EventLoopProofs`, `TransportProofs`, `LoginSessionProofs`, `LoggerProofs` | | the theorems about the modules they are named for |

How they compose. `Server` extends the four handlers, which share the variables
of `ClientManager` and `Storage`; a packet is one step there. `EventLoop` takes the
same loop apart call by call and reduces a handler to the connections it
writes to. `Client` extends `NetworkThread` and `UILoop` over the variables of
`ClientContext`, with a server that keeps what the lists of one user need.
`Transport` is one direction of any connection; that packets are whole and in order, which
`Client` and `Server` assume, is what it shows for one writer. `LoginSession` is the
client before `Client` begins. `Logger` stands alone.

**State of the server.** `db` is the content of the database file, `db_key` the encryption key
of the running process, `clients` the linked list (position 1 is `head`), and
`sent` what the last step wrote, a sequence of packets for each descriptor.
Packets are not kept once a step is over: the server never reads them back, and
every property about them concerns the step that sends them.

**Steps of the server.** The loop is single-threaded and a handler runs to its end before the
next packet is read, so a handler is one step. A crash inside it is an action
of its own: `CrashInHandler` picks any proper prefix of the handler's
statements (`decide_request_prefixes`, `create_conv_prefixes`,
`delete_group_prefixes`, `update_user_prefixes`; `storage_create_conversation`
and `storage_delete_conversation` take the number of statements that ran) and
starts a new process on it. The other handlers have a single statement, so a
crash leaves what was there before or after, which `Restart` covers. Pushes lost
in such a crash are not sent again; the lists a client asks for after it
reconnects show the stored state. A private chat cut short after one participant
stays behind with that participant alone; the retry finds no chat of the pair and
creates a whole one, which is why `OnePrivatePerPair` speaks of shared chats.

**Data.** Names, emails, codes, passwords and texts are members of small sets.
A uid is the position of the row in `users`; AUTOINCREMENT ids of conversations
and messages come from counters that are never reset. Hashing is a record of
password and salt. A text stored under one key and read under another is the
marker `crypto_decrypt` returns. Title of a private chat: "Private with" the
other participant. Queries with an array bound return as many rows as fit,
lowest ids first (`FirstRows`): no `ORDER BY` is given, and SQLite walks the primary
key upwards. A history is a set of
numbered lines, and `as_string` is what a reader of the C string sees of it.

**Inputs.** Packets the shipped client sends, in the states in which it sends
them: registration and login before the login succeeded, the rest after it.
Conversation ids may be stale, so any id ever given out can come back. Requests
can be decided on whether they exist or not, since the list on the client may be
old. `MSG_UPDATE_GROUP` and `MSG_ADD_MEMBER` are included although the client
has no screen for them yet: the server handles them.

**Steps of the client.** An action is what a thread does between two points where
the other may interfere: taking `state_lock`, sending, reading a shared list. A
read of a list without the lock, while the network thread may be replacing it,
returns any of the values the pointer and the memory behind it can have (`reads`,
`at`); an index outside the list reads as anything, and may end the process
(`StrayAccess`). A write to the connection after the server is gone ends the
process at the second try, since SIGPIPE is not ignored.

**Steps of the loop.** Every system call is a step. A peer's stream is a sequence
of headers, payloads and packets without payload; a handshake, a read and a write
are steps that wait for the peer. The two-second timeout is a step that may
happen whenever the thread waits in a read.

**Steps on a wire.** `Write` moves any non-empty prefix of what is left, `Read`
any of what is there. A header is two units long, so that it can be cut.

**Files.** A file of the log is a sequence of lines that a name may or may not
refer to any more. `log_update_name` is two steps, with the removal in the second;
the mutex of the process covers both, other processes and a crash come between.
Either file of the change may fail to open. The copy is one step: a kill in the
middle of it leaves the first part in the new file, perhaps with a line cut in two, and
the whole in the old one, which is not told apart from a kill before the copy. A message
that is written is written whole.

## 3. Runs

`tlc -workers 2 -config X.cfg M`, with the module and the file `PROJECT.json` names.

### The server (`MCServer`)

| run | instance | checks |
|---|---|---|
| `accounts` | empty database, 1 connection, 2 names, emails and codes, 2 passwords, codes typed right and wrong, 2 conversations | `UsersUnique`, `ContactsSymmetric`, `OnePrivatePerPair`, `AcceptIsAllOrRetry`, `ImplementsConversations` |
| `groups` | 3 users, one a friend of both others, who may become friends too; up to 4 conversations, private chats and groups | `OnePrivatePerPair`, `PrivateChatsClosed`, `GroupHasOneAdmin`, `NoOrphanParticipants`, `AdminLeavesLast`, `AcceptIsAllOrRetry`, `ImplementsConversations` |
| `push` | the same with 1 group and 2 connections | `ListsShowFinalState`, `MembershipChangesPushed` |
| `texts` | 2 connections, 2 friends, 2 groups, 1 text, groups as large as `MAX_PARTICIPANTS` | `TypeOK`, `TextsReachParticipants`, `TextsStayInConversation`, `ConversationsBeginEmpty` |

Why these bounds: accounts and the properties about pairs involve two users; a
private chat and a kick need a third, who must stay out or is left. Two
conversations beside the private chats are a deleted one and a later one. As
handlers are atomic, one connection that reconnects as any user already produces
every order of handlers on the database; a second one is needed only where
packets to other users matter, and for one user with two logins. `accounts`
begins with an empty database; the others with accounts in place, since
registering them in another order only renames uids, and `groups` and `push`
with two friendships, as accepting them leaves the tables.

`ImplementsConversations` is a refinement. A row of `conversations` with its
participants maps to a room; an id above `conv_seq` to one not born yet; an id
without participants, whether deleted, cut short by a crash, or never filled, to
one that is gone. Every handler, crash and restart then is one step of one room,
or none. `Conversations` begins with any rooms that respect its rules, because the
runs, like a server, begin with the database they find.

### The event loop (`MCEventLoop`) and the wire (`MCTransport`)

| run | instance | checks |
|---|---|---|
| `loop` | 3 peers with up to 2, 1 and 0 units to send on a connection, 2 descriptors | `TypeOK`, `ClientsAreConnections`, `EventsBelongToConnections`, `NeverOutOfStep`, `EveryoneServed`, `HangUpsNoticed` |
| `transport` | 1 writer, 4 packets of up to 3 units, 5 units on the wire | `TypeOK`, `AtomicPackets`, `ImplementsChannel` |

Three peers and two descriptors: one connection is closed, another takes its
descriptor, and the third is in the same batch of events or finds none left. Two
units are enough for a header whose payload never comes. `EveryoneServed` says
that a peer in the backlog is accepted and one with something to read is heard,
unless all descriptors are taken; `HangUpsNoticed` that a descriptor whose peer
is gone is given back. `ImplementsChannel` is a refinement with fairness: the
packets under way are those of `PacketChannel`, and what is sent arrives while
the connection is there.

### The client (`MCClient`, `MCLoginSession`)

| run | instance | checks |
|---|---|---|
| `client` | six sessions, below | `TypeOK`, `ConversationsCurrent`, `HistoryBelongsToChat`, `NoTextTwice`, `MembersOfGroup` |
| `session` | 2 accounts, 2 passwords, any number of starts | `OnlyRememberedLogins`, `StartGetsThrough` |

A session fixes what the server has for the user, which keys the user presses
and how often others write or change something: moving between two chats while
both write; friends and chats that come and go; the group form while lists
change; the members of two groups; two groups deleted, one of them by somebody
else; friends, requests, settings and the end of the program. They are initial
states of one run, and between them press every key of every screen. A product of
all keys with all the server can send has more states than TLC can visit; each session has
the keys and the changes that meet. Two packets are under way to the client and
three from it, so that an answer can be overtaken by a push and by the UI's next
request. The server may be lost at any moment. The run looks into the
unlocked reads of all four lists (`TornReads`).

### Files (`MCLogger`)

| run | instance | checks |
|---|---|---|
| `logger` | 3 clients, one after the other, 2 users, 2 days, 2 lines each | `LinesKept`, `LinesInFileOfDay`, `LinesInOrder` |

Three sessions are one whose lines another one moves and one after it. Any file
may fail to open. `LinesKept` holds for one program at a time because the copy
comes before the removal, and for the lines that could be copied; section 4 tells
of the others.

### Fairness

Safety needs none. Where something must happen, the code justifies this much:

* `loop`: the server's thread runs, so the two seconds of a read pass; peers in
  `Prompt` finish a handshake and peers in `Readers` read. The latter two are
  assumptions about others, which the code needs and does not enforce (section 4).
* `transport`: a `send_all` that has begun goes on, the reader reads.
* `session`: an answer comes or the end of the connection is noticed.
* `settings` (a violation): both threads are scheduled (`getch` returns after 100
  ms), the server answers what has arrived while it is there. No key need be pressed.

No assumption of strong fairness is made.

Deadlock is checked except where the program ends: the client, a connection that
breaks, a log with a bounded number of sessions.

Every property of a passing run is broken by a mutant of the code it is about:
an operator such as `UncheckedRename` or `ConversationDeletedFirst`, defined
next to the original, that shows a plausible slip.

## 4. Where the code and its documentation disagree

Three runs are expected to end in a violation of what a line of the repository
says.

* `history`: `storage_get_history` counts the NUL of each line into the offset of
  the next (`storage.c:556-569`), and `handle_req_history` sends `strlen(hist)`
  bytes. The client sees the first line of a history, whatever its length.
  `storage.h:117-118` promises the last 50 messages in one string. Apart from that,
  the query keeps the *first* 50 messages (`ORDER BY m.timestamp ASC LIMIT 50`), so
  the property would fail with one message more than the limit even with the
  length put right.
* `rename`: `handle_update_user` answers `MSG_UPDATE_SUCCESS` to a rename that the
  UNIQUE constraint refused and keeps the refused name for the connection;
  `MSG_UPDATE_FAIL` is defined and never sent.
* `settings`: the profile form locks `state_lock` for good (`main.c:656`), so leaving
  never ends, although `auth_service.c:56` has the main loop close the socket.

The following came up while modelling. The properties of the passing runs are
stated so that they do not deny them, or the instance keeps away from them; they
have no run of their own.

The server:

* `handle_send_text` routes to at most `MAX_PARTICIPANTS` rows; `MSG_ADD_MEMBER` puts
  no bound on a group (`chat_handler.h:14`: "routes it to online participants").
* `SSL_accept` comes before `SO_RCVTIMEO` is set (`main.c:116`, `127`): a peer that
  stays silent stops the server for all. Set `Prompt` to `{}` to see it.
* `send_all` blocks on a peer that does not read (`protocol.c:56`). Set `Readers`
  to `{}` to see it.
* `storage_backup` runs before `storage_init` (`main.c:70`). After a crash inside a
  statement the copy is of a file SQLite has yet to repair, and it replaces the
  good copy of the same day. Backups are made at start only (`README.md:22`, "automatic
  daily backups").

The client:

* Header and payload are separate writes without a lock, and the network thread
  sends too when a conversation was created (`main.c:67`); `protocol.h:261` says
  "atomically". Add a second writer to the run `transport` to see it.
* A history names no conversation and an empty one is ignored (`main.c:47`, `108`):
  the late answer for the previous chat stays in a chat without messages.
* An empty list is ignored too, so the last conversation of a user who was kicked
  stays on the screen (`group_handler.c:119`).
* `app_remove_request` runs after the answer may have been stored, and then removes
  the next request (`main.c:678`).
* `needs_redraw` is cleared after drawing (`main.c:479`): what was stored in between
  is not drawn.
* Lists are drawn and indexed without the lock that "protects access to all fields"
  (`client_context.h:54`).
* The members of the last group stay cached until the answer for the next one has come, and
  so a kick typed at once takes its uid from them (`main.c:702`, `732`).
* `app_cleanup` frees the lists and destroys the mutex with the network thread still running
  (`main.c:743`).
* Leaving a chat by way of the group settings keeps what was typed for the next chat
  (`main.c:692`).
* Ticks of the group form are positions in a list that changes (`main.c:597`).
* With the server down, opening a chat again frees what was cached, and the second
  packet sent kills the client by SIGPIPE, which only the server ignores
  (`README.md:32`, "Offline Mode").
* The remembered login is cleared when the server goes away before it has answered
  (`main.c:357`), as if it had been refused.

The logger (`logger.c:73`, "Move Content"):

* All clients of a directory start in one file; the first to log in removes it from
  under the others. Add a second process to the run `logger` to see it.
* The old file is removed even if nothing could be copied because one of the two could
  not be opened (`logger.c:77`, `89`). The result of `fwrite` is not looked at either (`logger.c:81`): on
  a full disk what did not fit is removed with the old file. The first is in the model, and the
  lines concerned are taken out of `written`, of which `LinesKept` speaks; the second is not.

## 5. Proofs

The modules named `...Proofs` are checked with `tlapm`. What they prove holds for every
value of the constants that satisfies the assumptions of the module they extend; where
a theorem needs more, it says so in its ASSUME, and the table does too. The
assumptions are what declarations and limits of the code give: the bounds of
`Protocol` are natural numbers (`BoundsAreNaturals`), a pair fits into a participant array
(`PairFits`; it holds 10 in the code), names and passwords typed into the settings
are names and passwords (`InputsAreValues`), a process has finitely many descriptors and
`epoll_wait` returns at least one event (`LoopConstants`), bounds are natural numbers,
nobody's name is that of the first log file (`LoggerConstants`), a client knows finitely
many conversations and users and the three requests of a login fit into the socket
(`ClientConstants`), and the sessions are made of those (`ServerConstants`).

| theorem | states | for |
|---|---|---|
| `TypeCorrect` | `Spec => []TypeOK` of `Server` | any server |
| `UsersStayUnique` | `Spec => []UsersUnique` | |
| `ContactsStaySymmetric` | `Spec => []ContactsSymmetric` | |
| `PrivateChatsStayUnique` | `Spec => []OnePrivatePerPair` | |
| `PrivateChatsStayClosed` | `Spec => []PrivateChatsClosed` | |
| `GroupsKeepOneAdmin` | `Spec => []GroupHasOneAdmin` | |
| `NoParticipantIsOrphan` | `Spec => []NoOrphanParticipants` | |
| `ConversationsImplemented` | `Spec => ImplementsConversations` | |
| `AdminsLeaveLast` | `Spec => AdminLeavesLast` | |
| `AcceptsAreAllOrRetry` | `Spec => AcceptIsAllOrRetry` | |
| `NewConversationsAreEmpty` | `Spec => ConversationsBeginEmpty` | |
| `TextsAreForParticipants` | `Spec => TextsStayInConversation` | |
| `ListsAreFinal` | `Spec => ListsShowFinalState` | |
| `TextsReachEverybody` | `Spec /\ []RoomsFit(db) => TextsReachParticipants` | conversations that fit |
| `MembersAreTold` | `Spec /\ []RoomsFit(db) => MembershipChangesPushed` | conversations that fit |
| `LoopTypeOK` | `Spec => []TypeOK` of `EventLoop` | any number of peers and descriptors |
| `ClientsMatchConnections` | `Spec => []ClientsAreConnections` | |
| `EventsAreCurrent` | `Spec => []EventsBelongToConnections` | |
| `HeadersAreHeaders` | `Spec => []NeverOutOfStep` | |
| `TypesKept` | `Spec => []TypeOK` of `Client` | any users, conversations, texts and packets under way |
| `ListsAreCurrent` | `Spec => []ConversationsCurrent` | |
| `ChatShowsItsOwn` | `Spec => []HistoryBelongsToChat` | |
| `MembersShownAreOfGroup` | `Spec => []MembersOfGroup` | |
| `EachTextOnce` | `Spec => []NoTextTwice` | |
| `TransportTypeOK` | `Spec => []TypeOK` of `Transport` | any number of writers |
| `PacketsAreAtomic` | `Spec => []AtomicPackets` | one writer |
| `ChannelImplemented` | `Spec => Channel!Spec`, the safety half of `ImplementsChannel` | one writer |
| `FileIsRemembered` | `Spec => []OnlyRememberedLogins` | any accounts and starts |
| `FilesAreDaily` | `Spec => []LinesInFileOfDay` | any number of programs |
| `LinesAreKept` | `Spec => []LinesKept` | one program |
| `LinesAreInOrder` | `Spec => []LinesInOrder` | one program |

One writer and one program are the hypotheses under which the run checks the same
property: with two, section 4 tells what happens. A
conversation fits if it has at most `MAX_PARTICIPANTS` participants (`RoomsFit`): in the runs
all do; of a larger one the handlers read only the first rows, and the rest is not
told. Creation clamps to that number and the shipped client has no screen for adding members,
so only a client that sends `MSG_ADD_MEMBER` gets beyond it.

**The server.** Its invariants rest on one inductive invariant, `IInv`: the database is
well typed (`DatabaseOK`) and consistent (`Integrity`), sessions belong to accounts
(`SessionsOK`), packets are well formed. None of the properties is inductive
alone:

* a private chat stays closed because its only non-INSERT writers demand an admin,
  which it does not have; that no private chat has an admin is part of
  `ClosedPrivateChats`, and rows of participants must belong to a conversation
  (`RowsHaveConversation`) to conclude anything from a role;
* a new conversation must start without participants: `UnusedIdsFree` says that
  ids above `conv_seq` carry neither a conversation nor rows;
* a friendship is irreflexive because decisions are about other users, and the
  uid of a session has to be that of an account;
* a history line names its sender, so messages must come from accounts.

The argument has three layers. `StorageProofs` shows that each operator of
`Storage` maps a well-typed database to one and returns well-typed results, and then
that each *statement prefix* preserves `Integrity`: this is where crashes are dealt with,
once, since a handler that completes is its longest prefix. `ServerProofs` lifts this to
the actions, one lemma per handler.

`ServerStepProofs` is about steps. Every handler, complete or cut short, is a `Lawful`
write: it opens, changes or closes one room of `Conversations` at most (`RoomStep`), takes a
request away only with an answer (`RequestStep`), and puts messages only under ids that
were given out (`IdStep`). The refinement and the three action properties on the tables
follow from that and `IInv`, except that `ConversationsBeginEmpty` needs one fact
`IInv` does not have: no message has an id of a conversation that AUTOINCREMENT has
still to give out (`MessagesKnown`). Orphaned messages are there otherwise: a crash in the
middle of `storage_delete_conversation` leaves some. What is sent is dealt with the
same way: each packet a step pushes `Suits` the one it goes to, in the database after the
step. To conclude anything about a receiver from a descriptor, no two clients may have
the same one (`OwnDescriptors`), which is invariant because `Connect` takes a free one.
That somebody does receive something needs the converse: the rows a handler reads are all
there are (`AllParticipants`, from `RoomsFit`), and what is pushed to a user arrives
(`PushReaches`, `BothTell`). `MSG_SEND_TEXT` is the only request that adds a message
(`MessagesAdded`), and a user whose own rows and conversations a step leaves alone has
nothing to learn (`SameMembership`); the others are those the handler tells (`StepTold`).

**The loop.** The invariant (`Inv` of `EventLoopProofs`) relates five things the code
keeps apart: the client list, the epoll set, which peer a descriptor belongs to, the
batch of events being worked off, and the descriptor at hand (`AtHand`). The events of a batch
are distinct (`EventsOnce`), so that only the event at hand can concern the
descriptor that is being closed, and the descriptor that `accept` hands out is in no
event left. `Alternate` is the invariant behind `NeverOutOfStep`: on each connection,
headers and payloads take turns from where the loop stands. A consequence: the branch for an
event without a client (`main.c:152`) is never taken.

**The wire.** The invariant names, as witnesses, everything ever sent as one sequence of units
and the offset of each packet in it (`Layout`). What the reader has got, what is
on the wire and what the writer has left are consecutive pieces of it (`Reading`, `Writing`).
Every read and write then moves a boundary, and a packet is complete when
the boundary is at an offset. After a cut nothing is claimed of what has not been sent.

**The client.** Three actors and two queues, where nearly every action touches one of each.
`ClientProofs` first shows `Shapes`: besides the types it says what either thread holds
at each point of its loop (`AtHand`). From then on no proof looks at an action again:
each is summarised, once, as one of six kinds of step (`Steps`) that say what is sent
and what may change: a turn of the UI thread (`UIStep`), the three stages of the network
thread (`Receives`, `Stores`, `Waits`), the server's (`ServerStep`) and the end of the
connection (`Gone`). All four invariants then speak of what is *coming*, that is, held by the
network thread or in its queue, since the last of it is what the screen will show
(`Arrives`):

* `ListsAreCurrent`: the last list that is coming, or the one shown if none is, is the
  server's, or the id that makes the client ask for it is on its way, or that question
  is (`ConversationsComing`, `ContactsComing`);
* `ChatShowsItsOwn` and `MembersShownAreOfGroup`: the last request under way is for the
  chat, or the group, that is open (`LastIs`), and if there is none, what is
  coming last is its own (`ChatComing`, `MembersComing`). A group only loses members in the
  model, so the answer to an earlier question is still from among the ones it had;
* `EachTextOnce`: no text that is pushed is on the screen already, or put there by what
  comes before it (`Fresh`, `OnScreenOnce`). For an own text the UI thread first sends it
  and then takes the lock to show it; between the two no history answer may bring
  it, and none does, because the requests ahead of it are answered before the server
  logs it and nothing is asked for after it (`Appending`). That no id is used again is
  `TextsKnown`.

**The session file.** It is empty whenever the menu is on the screen (`EmptyInMenu`), so
a login that is refused, or not to be remembered, cannot leave an earlier one.

**The logger.** For `LinesInFileOfDay` each file has a day, a ghost (`DayOK`); names and
handles may only lead to files of theirs. For one program (`OneProgram`): no two names
share a file and the handle is that of the name in use (`Linked`); what is numbered higher
is still to come (`Past`); a line being moved is also in a file that will not be removed
(`Kept`); and everything still to be moved is in order with what it will be put behind
(`Ordered`), which is inductive only because the first file of a day is empty once the
program has its name.

**Only model-checked.** Liveness and `ENABLED` are out of the prover's reach, and with
them the fairness half of `ImplementsChannel`. Every other property of a
passing run is a theorem.

## 6. Not modelled, and the plan

Left out for good: SQL statements that fail for reasons other than a constraint
(disk full, I/O), a log written or copied in part (section 4, the logger), OpenSSL and allocation failures, a wrong key whose padding
happens to be valid (about one in 256; the text is then garbage), drawing and the
bytes on the terminal (two threads call ncurses), line input, parsing of the
configuration, packaging, the daily copy of the database file (a file copied as a
whole at start, whose hazard is SQLite's journal, below the grain of statements
used here), and `free_clients`, `storage_close` and
`storage_get_user_by_uid`, which are never reached. The `name` column of a private
chat is kept but never shown. In the client, friend codes, names and descriptions
are not told apart, usernames are left out of the sessions (a registration refused for a
name that is taken leaves what none leaves), more ticks than `MAX_PARTICIPANTS` do not occur, and the
history is the first line that the server really sends (the run `history`).

What a reader may still miss is the whole in one model: `Client` has a reduced
server, and the loop and the wire stand beside `Server` rather than under it. The
product is beyond TLC; the assumptions each makes about the other are named in
section 2.

Next, `RoomsFit` itself, as an invariant of a server nobody sends `MSG_ADD_MEMBER` to, which
would turn the hypothesis of the last two theorems about the server into one about its inputs.
