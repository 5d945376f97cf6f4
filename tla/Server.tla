------------------------------- MODULE Server -------------------------------
(***************************************************************************)
(* src/server/main.c: the server, one packet at a time.                    *)
(*                                                                         *)
(* The event loop runs on one thread, so a handler is one step.  What      *)
(* interleaves is the order of packets from different connections, the     *)
(* arrival and loss of connections, and crashes: the container restarts    *)
(* the process (docker-compose.yml, restart: always), which forgets clients*)
(* and keeps the database as the statements run so far left it.            *)
(*                                                                         *)
(* Inputs are packets the shipped client sends: REGISTER and LOGIN until   *)
(* the login succeeds, the rest after it; and the two the protocol defines *)
(* for group settings, UPDATE_GROUP and ADD_MEMBER, which the server       *)
(* handles although the client has no screen for them yet.  Conversation   *)
(* ids come from lists the client cached earlier and may be stale, so any  *)
(* id ever given out can come back.                                        *)
(***************************************************************************)
EXTENDS AuthHandler, ChatHandler, ContactHandler, GroupHandler

vars == <<db, db_key, clients, sent>>

Init ==
  /\ db = EmptyDatabase
  /\ db_key \in Keys
  /\ clients = init_clients
  /\ sent = NoPackets

-----------------------------------------------------------------------------
(* What a client can put in a packet.                                      *)

SeenConversations == {c \in ConvIds : c <= db.conv_seq}

OtherUsers(uid) == Registered(db) \ {uid}

(* service_create_group: the sender, then the friends ticked in the contact*)
(* list, in list order, as many as the payload has room for.               *)
GroupInvitation(me, uids) ==
  /\ Len(uids) \in 2..MAX_PARTICIPANTS
  /\ uids[1] = me
  /\ \A i \in 2..Len(uids) : <<me, uids[i]>> \in db.contacts
  /\ \A i, j \in 2..Len(uids) : i < j => uids[i] < uids[j]

GroupInvitations(me) ==
  {uids \in UNION {[1..n -> Uids] : n \in 2..MaxUsers} : GroupInvitation(me, uids)}

(* service_create_private                                                  *)
PrivateInvitations(me) ==
  {<<me, u>> : u \in {v \in Registered(db) : <<me, v>> \in db.contacts}}

(* The Settings form sends nothing when both fields are empty.             *)
SettingsForms ==
  ((NewUsernames \cup {Empty}) \X (NewPasswords \cup {Empty})) \ {<<Empty, Empty>>}

-----------------------------------------------------------------------------
(* Connections                                                             *)

(* accept and a handshake that succeeds.                                   *)
Connect(fd) ==
  /\ fd \notin connected_fds
  /\ clients' = add_client(fd)
  /\ sent' = NoPackets
  /\ UNCHANGED <<db, db_key>>

(* recv_packet reports the end of the stream, an error or a timeout.       *)
Disconnect(cli) ==
  /\ clients' = remove_client(cli)
  /\ sent' = NoPackets
  /\ UNCHANGED <<db, db_key>>

(* The process starts again on the database d.                             *)
StartOn(d) ==
  /\ db' = d
  /\ db_key' \in Keys
  /\ clients' = init_clients
  /\ sent' = NoPackets

-----------------------------------------------------------------------------
(* The dispatcher                                                          *)

BeforeLogin(cli) ==
  /\ ~clients[cli].is_online
  /\ \/ \E e \in Emails, u \in Usernames, p \in Passwords, c \in Codes, s \in Salts :
          handle_register(cli, e, u, p, c, s)
     \/ \E e \in Emails, p \in Passwords : handle_login(cli, e, p)

AfterLogin(cli) ==
  /\ clients[cli].is_online
  /\ \/ \E form \in SettingsForms, s \in Salts :
          handle_update_user(cli, form[1], form[2], s)
     \/ \E c \in SeenConversations, t \in Texts, now \in Times :
          handle_send_text(cli, c, t, now)
     \/ \E c \in SeenConversations : handle_req_history(cli, c)
     \/ \E name \in Names, uids \in GroupInvitations(clients[cli].uid) :
          handle_create_conv(cli, CONV_TYPE_GROUP, name, uids)
     \/ \E uids \in PrivateInvitations(clients[cli].uid) :
          handle_create_conv(cli, CONV_TYPE_PRIVATE, PRIVATE_NAME, uids)
     \/ handle_req_conversations(cli)
     \/ \E c \in SeenConversations, name \in Names : handle_update_group(cli, c, name)
     \/ \E c \in SeenConversations, code \in TypedCodes : handle_add_member(cli, c, code)
     \/ \E c \in SeenConversations : handle_req_members(cli, c)
     \/ \E c \in SeenConversations, u \in Registered(db) : handle_kick_member(cli, c, u)
     \/ \E c \in SeenConversations : handle_delete_group(cli, c)
     \/ handle_req_contacts(cli)
     \/ \E code \in TypedCodes : handle_add_by_code(cli, code)
     \/ handle_get_requests(cli)
     \/ \E u \in OtherUsers(clients[cli].uid), accepted \in BOOLEAN :
          handle_decide_request(cli, u, accepted)

(* The process dies between two statements of a handler.  After the last   *)
(* one, the database is what the whole handler and a Restart leave.        *)
CrashInHandler(cli) ==
  LET me == clients[cli].uid
  IN  /\ clients[cli].is_online
      /\ \/ \E form \in SettingsForms :
              \E d \in update_user_prefixes(cli, form[1]) : StartOn(d)
         \/ /\ db.conv_seq < MaxConvs
            /\ \/ \E u \in OtherUsers(me) :
                    \E d \in decide_request_prefixes(cli, u) : StartOn(d)
               \/ \E name \in Names, uids \in GroupInvitations(me) :
                    \E d \in create_conv_prefixes(CONV_TYPE_GROUP, name, uids) : StartOn(d)
               \/ \E uids \in PrivateInvitations(me) :
                    \E d \in create_conv_prefixes(CONV_TYPE_PRIVATE, PRIVATE_NAME, uids) :
                      StartOn(d)
         \/ \E c \in SeenConversations :
              \E d \in delete_group_prefixes(cli, c) : StartOn(d)

(* Between two handlers.                                                   *)
Restart == StartOn(db)

Next ==
  \/ \E fd \in Fds : Connect(fd)
  \/ \E cli \in DOMAIN clients :
       Disconnect(cli) \/ BeforeLogin(cli) \/ AfterLogin(cli) \/ CrashInHandler(cli)
  \/ Restart

Spec == Init /\ [][Next]_vars

-----------------------------------------------------------------------------
(* Properties                                                              *)

(* Every table, list node and packet has the shape the C declarations give *)
(* it.                                                                     *)
TypeOK == StorageTypeOK /\ ClientsTypeOK /\ SentTypeOK

(* No two accounts share a username, an email or a friend code, whatever   *)
(* registrations, renames and lost updates come in whatever order: a friend*)
(* code or a login always designates one account.                          *)
UsersUnique == UniqueUsers(db)

(* Friendship is mutual and never with oneself, even when both users accept*)
(* each other's request, an accept is repeated, or the server dies inside  *)
(* handle_decide_request.                                                  *)
ContactsSymmetric == MutualContacts(db)

(* Two users share at most one private chat.  Accepting crossed requests,  *)
(* opening a chat from the friend list and retrying after a crash all go   *)
(* through storage_find_private_conversation.                              *)
OnePrivatePerPair == UniquePrivateChats(db)

(* A private chat never has a third participant nor an admin, so no group  *)
(* operation can touch it.                                                 *)
PrivateChatsClosed == ClosedPrivateChats(db)

(* A group that has participants has exactly one admin: crashes between the*)
(* INSERTs of a creation or the DELETEs of a removal, kicks and re-added   *)
(* members never leave a group nobody can manage.                          *)
GroupHasOneAdmin == OneAdmin(db)

(* Participant rows exist only for conversations that exist: the order of  *)
(* the INSERTs and DELETEs leaves none behind when a crash cuts them short.*)
NoOrphanParticipants == RowsHaveConversation(db)

(* The admin of a group loses that role only together with the whole group.*)
AdminLeavesLast ==
  [][\A c \in ConvIds, u \in Uids :
       storage_is_admin(db, c, u) /\ ~storage_is_admin(db', c, u) =>
         \A v \in Uids : ~IsParticipant(db', c, v)]_vars

(* A friend request disappears either with the friendship and the private  *)
(* chat both in place, or with neither table touched (a refusal): a crash  *)
(* inside handle_decide_request leaves the request there to be answered    *)
(* again.                                                                  *)
AcceptIsAllOrRetry ==
  [][\A a, b \in Uids :
       <<a, b>> \in db.requests /\ <<a, b>> \notin db'.requests =>
         \/ /\ <<a, b>> \in db'.contacts
            /\ PrivateConversations(db', a, b) # {}
         \/ /\ db'.contacts = db.contacts
            /\ db'.conv_seq = db.conv_seq]_vars

(* A conversation id is never given out twice, so a conversation begins    *)
(* without messages although clients keep sending to ids they cached.      *)
ConversationsBeginEmpty ==
  [][\A c \in ConvIds : ~Exists(db, c) /\ Exists(db', c) =>
       messages_of(db', c) = {}]_vars

-----------------------------------------------------------------------------
(* The packets of a step, against the database it leaves.                  *)

FinalList(packet, uid) ==
  CASE packet.type = "MSG_RESP_CONTACTS" -> storage_get_contacts_data(db', uid)
    [] packet.type = "MSG_RESP_REQUESTS" -> storage_get_requests_data(db', uid)
    [] packet.type = "MSG_RESP_CONVERSATIONS" ->
         storage_get_user_conversations(db', uid)

ListTypes == {"MSG_RESP_CONTACTS", "MSG_RESP_REQUESTS", "MSG_RESP_CONVERSATIONS"}

(* Every list a handler sends is the receiver's own, and shows the database*)
(* as the handler leaves it, though it is read half way through the writes.*)
ListsShowFinalState ==
  [][\A i \in DOMAIN clients' :
       \A k \in DOMAIN sent'[clients'[i].fd] :
         LET packet == sent'[clients'[i].fd][k]
         IN  packet.type \in ListTypes =>
               packet.list = FinalList(packet, clients'[i].uid)]_vars

(* What a user sees of its conversations, titles of private chats aside.   *)
Membership(d, uid) ==
  {<<c, d.participants[c][uid], d.conversations[c]>> : c \in conversations_of(d, uid)}

(* When a request of anybody changes the conversations of a user who is    *)
(* online, a connection of that user receives its new list, or the id that *)
(* makes it ask for the list.                                              *)
MembershipChangesPushed ==
  [][\A u \in Uids :
       \/ Membership(db, u) = Membership(db', u)
       \/ get_client_by_uid(u) = {}
       \/ clients' = <<>>
       \/ \E i \in DOMAIN clients : logged_in_as(i, u) /\
            \E k \in DOMAIN sent'[clients[i].fd] :
              sent'[clients[i].fd][k].type
                \in {"MSG_RESP_CONVERSATIONS", "MSG_CONV_CREATED"}]_vars

Receives(fd, m) ==
  \E k \in DOMAIN sent'[fd] :
    /\ sent'[fd][k].type = "MSG_RTE_TEXT"
    /\ sent'[fd][k].conv_id = m.conv_id
    /\ sent'[fd][k].sender_uid = m.sender_id
    /\ crypto_decrypt(db_key, m.text) = sent'[fd][k].text

(* A text that was stored goes to every participant of its conversation who*)
(* is online, the sender excepted (chat_handler.h: "Logs message to DB and *)
(* routes it to online participants").                                     *)
TextsReachParticipants ==
  [][\A m \in db'.messages \ db.messages : \A u \in Uids \ {m.sender_id} :
       IsParticipant(db', m.conv_id, u) =>
         \A fd \in get_client_by_uid(u) : Receives(fd, m)]_vars

(* A text is only pushed to users who are participants at that moment: not *)
(* to a member kicked earlier, not to anybody once the group is gone.      *)
TextsStayInConversation ==
  [][\A i \in DOMAIN clients' : \A k \in DOMAIN sent'[clients'[i].fd] :
       LET packet == sent'[clients'[i].fd][k]
       IN  packet.type = "MSG_RTE_TEXT" =>
             IsParticipant(db', packet.conv_id, clients'[i].uid)]_vars

(* storage.h:117, "Retrieves the last 50 messages for a conversation", as  *)
(* "A dynamically allocated string containing the formatted history": the  *)
(* latest message of a conversation is in the string handed to a client.   *)
HistoryHasLatest ==
  \A m \in db.messages :
    (\A x \in messages_of(db, m.conv_id) : ~Before(m, x)) =>
      \E line \in as_string(storage_get_history(db, db_key, m.conv_id)) : line.id = m.id

(* MSG_UPDATE_SUCCESS answers a rename that took place: the name the server*)
(* keeps for the connection is the one in the table.                       *)
UpdateSuccessMeansStored ==
  [][\A i \in DOMAIN clients' :
       [type |-> "MSG_UPDATE_SUCCESS"]
           \in {sent'[clients'[i].fd][k] : k \in DOMAIN sent'[clients'[i].fd]} =>
         clients'[i].username = db'.users[clients'[i].uid].username]_vars
=============================================================================
