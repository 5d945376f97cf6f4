---------------------------- MODULE ServerProofs ----------------------------
(***************************************************************************)
(* The server keeps its database, its list of clients and its packets in   *)
(* order, for every value of the constants: any number of users,           *)
(* connections, conversations and messages.                                *)
(*                                                                         *)
(* The inductive invariant adds to the properties that a logged-in client  *)
(* is an account of the database, that message senders are accounts, and   *)
(* that conversation ids above the counter are unused.                     *)
(***************************************************************************)
EXTENDS Server, StorageProofs, SequenceTheorems

USE DEF NoRow, CONV_TYPE_PRIVATE, CONV_TYPE_GROUP, ROLE_MEMBER, ROLE_ADMIN

Packets == [Fds -> Seq(Packet)]

(* cs is a list of clients whose sessions belong to accounts of d.         *)
SessionsOK(d, cs) ==
  /\ cs \in Seq(Client)
  /\ \A i \in DOMAIN cs : cs[i].is_online =>
       cs[i].uid \in Registered(d) /\ cs[i].username \in Usernames

IInv ==
  /\ DatabaseOK(db) /\ Integrity(db)
  /\ db_key \in Keys
  /\ SessionsOK(db, clients)
  /\ sent \in Packets

(* e is in order and has every account of d.                               *)
Advances(d, e) == Grows(d, e) /\ Integrity(e)

-----------------------------------------------------------------------------
(* Packets                                                                 *)

(* Writing one packet to one connection.                                   *)
LEMMA SendType ==
  ASSUME NEW fd, NEW p \in Packet
  PROVE  send_packet(fd, p) \in Packets
<1>1. <<p>> \in Seq(Packet) /\ <<>> \in Seq(Packet)
  OBVIOUS
<1> QED BY <1>1 DEF send_packet, Packets

(* Writing nothing, and writing two batches one after the other.           *)
LEMMA ThenType ==
  ASSUME NEW a \in Packets, NEW b \in Packets
  PROVE  Then(a, b) \in Packets /\ NoPackets \in Packets
<1>1. \A s, t \in Seq(Packet) : s \o t \in Seq(Packet)
  OBVIOUS
<1>2. <<>> \in Seq(Packet)
  OBVIOUS
<1> QED BY <1>1, <1>2 DEF Then, Packets, NoPackets

(* A step that writes nothing.                                             *)
LEMMA NoPacketsType == NoPackets \in Packets
<1>1. <<>> \in Seq(Packet)
  OBVIOUS
<1> QED BY <1>1 DEF Packets, NoPackets

(* Writing to the users who are online.                                    *)
LEMMA PushType ==
  ASSUME NEW packets, \A u \in DOMAIN packets : packets[u] \in Packet
  PROVE  push(packets) \in Packets
<1> SUFFICES ASSUME NEW f \in Fds
             PROVE  push(packets)[f] \in Seq(Packet)
  BY DEF push, Packets
<1> DEFINE user == CHOOSE u \in DOMAIN packets : f \in get_client_by_uid(u)
<1>1. CASE \E u \in DOMAIN packets : f \in get_client_by_uid(u)
  <2>1. user \in DOMAIN packets
    BY <1>1
  <2>2. packets[user] \in Packet
    BY <2>1
  <2> HIDE DEF user
  <2>3. <<packets[user]>> \in Seq(Packet)
    BY <2>2
  <2>4. push(packets)[f] = <<packets[user]>>
    BY <1>1 DEF push, user
  <2> QED BY <2>3, <2>4
<1>2. CASE ~\E u \in DOMAIN packets : f \in get_client_by_uid(u)
  BY <1>2 DEF push
<1> QED BY <1>1, <1>2

(* The lists the handlers send.                                            *)
LEMMA ListPackets ==
  ASSUME NEW d, DatabaseOK(d), NEW uid \in Uids
  PROVE  /\ conversations_packet(d, uid) \in Packet
         /\ contacts_packet(d, uid) \in Packet
         /\ requests_packet(d, uid) \in Packet
<1>1. storage_get_user_conversations(d, uid) \in SUBSET ConversationSummary
  BY ConversationsType
<1>2. /\ storage_get_contacts_data(d, uid) \in SUBSET ContactSummary
      /\ storage_get_requests_data(d, uid) \in SUBSET ContactSummary
  BY ContactsType
<1>3. conversations_packet(d, uid)
        \in [type : {"MSG_RESP_CONVERSATIONS"}, list : SUBSET ConversationSummary]
  BY <1>1 DEF conversations_packet
<1>4. /\ contacts_packet(d, uid) \in
           [type : {"MSG_RESP_CONTACTS", "MSG_RESP_REQUESTS"}, list : SUBSET ContactSummary]
      /\ requests_packet(d, uid) \in
           [type : {"MSG_RESP_CONTACTS", "MSG_RESP_REQUESTS"}, list : SUBSET ContactSummary]
  BY <1>2 DEF contacts_packet, requests_packet
<1> QED BY <1>3, <1>4 DEF Packet

(* The same lists pushed to several users.                                 *)
LEMMA PushLists ==
  ASSUME NEW d, DatabaseOK(d), NEW uids \in SUBSET Uids
  PROVE  /\ push_conversations(d, uids) \in Packets
         /\ push_contacts(d, uids) \in Packets
         /\ push_requests(d, uids) \in Packets
<1>1. push_conversations(d, uids) \in Packets
  BY ListPackets, PushType DEF push_conversations
<1>2. push_contacts(d, uids) \in Packets
  BY ListPackets, PushType DEF push_contacts
<1>3. push_requests(d, uids) \in Packets
  BY ListPackets, PushType DEF push_requests
<1> QED BY <1>1, <1>2, <1>3

(* The answers without a payload.                                          *)
LEMMA EmptyPackets ==
  ASSUME NEW t \in {"MSG_REGISTER_SUCCESS", "MSG_REGISTER_FAIL", "MSG_LOGIN_FAIL",
                    "MSG_UPDATE_SUCCESS", "MSG_ADD_REQ_SENT", "MSG_ADD_FAIL",
                    "MSG_MEMBER_ADDED"},
         NEW fd
  PROVE  send_packet(fd, [type |-> t]) \in Packets
<1>1. [type |-> t] \in EmptyPacket
  BY DEF EmptyPacket
<1> QED BY <1>1, SendType DEF Packet

(* The participants that a handler notifies.                               *)
LEMMA ParticipantsAreUids ==
  ASSUME NEW d, NEW c
  PROVE  storage_get_conv_participants(d, c) \in SUBSET Uids
BY DEF storage_get_conv_participants, FirstRows

-----------------------------------------------------------------------------
(* Databases                                                               *)

(* Statements one after the other.                                         *)
LEMMA AdvancesChain ==
  ASSUME NEW d, NEW e, NEW f, Advances(d, e), Advances(e, f)
  PROVE  Advances(d, f)
BY DEF Advances, Grows

(* No statement at all.                                                    *)
LEMMA AdvancesSame ==
  ASSUME NEW d, DatabaseOK(d), Integrity(d)
  PROVE  Advances(d, d)
BY DEF Advances, Grows

(* What leaves accounts and contacts alone and keeps the conversations in  *)
(* order.                                                                  *)
LEMMA ChatsAdvance ==
  ASSUME NEW d, DatabaseOK(d), Integrity(d), NEW e, Grows(d, e), ChatsOK(e),
         e.users = d.users, e.contacts = d.contacts
  PROVE  Advances(d, e)
BY DEF Advances, Integrity, MutualContacts, UniqueUsers, Registered

(* A group, up to any participant row.                                     *)
LEMMA GroupAdvances ==
  ASSUME NEW d, DatabaseOK(d), Integrity(d), d.conv_seq < MaxConvs,
         NEW name \in Names, NEW uids, uids[1] \in Uids, NEW n \in Nat
  PROVE  Advances(d, storage_create_conversation(d, CONV_TYPE_GROUP, name, uids, n))
<1> DEFINE e == storage_create_conversation(d, CONV_TYPE_GROUP, name, uids, n)
<1>1. Created(d, e, CONV_TYPE_GROUP, name, uids, n) /\ Grows(d, e)
  BY CreateConversationFields, CreateConversationType
<1> HIDE DEF e
<1>2. ChatsOK(e)
  BY <1>1, CreateGroupChats DEF Integrity
<1>3. e.users = d.users /\ e.contacts = d.contacts
  BY <1>1 DEF Created
<1>4. Advances(d, e)
  BY <1>1, <1>2, <1>3, ChatsAdvance
<1> QED BY <1>4 DEF e

(* A private chat between users who share none, up to any row.             *)
LEMMA PrivateAdvances ==
  ASSUME NEW d, DatabaseOK(d), Integrity(d), d.conv_seq < MaxConvs,
         NEW a \in Uids, NEW b \in Uids, NEW n \in 0..2,
         PrivateConversations(d, a, b) = {}
  PROVE  Advances(d, storage_create_conversation(d, CONV_TYPE_PRIVATE, PRIVATE_NAME,
                                                 <<a, b>>, n))
<1> DEFINE e == storage_create_conversation(d, CONV_TYPE_PRIVATE, PRIVATE_NAME,
                                            <<a, b>>, n)
<1>1. Created(d, e, CONV_TYPE_PRIVATE, PRIVATE_NAME, <<a, b>>, n) /\ Grows(d, e)
  BY CreateConversationFields, CreateConversationType
<1> HIDE DEF e
<1>2. ChatsOK(e)
  BY <1>1, CreatePrivateChats DEF Integrity
<1>3. e.users = d.users /\ e.contacts = d.contacts
  BY <1>1 DEF Created
<1>4. Advances(d, e)
  BY <1>1, <1>2, <1>3, ChatsAdvance
<1> QED BY <1>4 DEF e

(* The statements of handle_decide_request, up to any of them.             *)
LEMMA DecideAdvances ==
  ASSUME NEW d, DatabaseOK(d), Integrity(d), NEW a \in Uids, NEW b \in Uids
  PROVE  /\ Advances(d, befriended(d, a, b))
         /\ \A n \in 0..2 :
              (MustCreateChat(befriended(d, a, b), a, b) => d.conv_seq < MaxConvs)
                => Advances(d, chat_created(d, a, b, n))
<1> DEFINE f == befriended(d, a, b)
<1>1. Advances(d, f)
  BY AddFriendshipType, AddFriendshipIntegrity DEF befriended, Advances
<1>2. f.conv_seq = d.conv_seq
  BY DEF befriended, storage_add_friendship, DatabaseOK, Database
<1> SUFFICES ASSUME NEW n \in 0..2, MustCreateChat(f, a, b) => d.conv_seq < MaxConvs
             PROVE  Advances(d, chat_created(d, a, b, n))
  BY <1>1
<1> HIDE DEF f
<1>3. CASE MustCreateChat(f, a, b)
  <2> DEFINE e == storage_create_conversation(f, CONV_TYPE_PRIVATE, PRIVATE_NAME,
                                              <<a, b>>, n)
  <2>1. Advances(f, e)
    BY <1>1, <1>2, <1>3, PrivateAdvances DEF Advances, Grows, MustCreateChat
  <2>2. chat_created(d, a, b, n) = e
    BY <1>3 DEF chat_created, f
  <2> QED BY <1>1, <2>1, <2>2, AdvancesChain
<1>4. CASE ~MustCreateChat(f, a, b)
  BY <1>1, <1>4 DEF chat_created, f
<1> QED BY <1>3, <1>4

(* handle_decide_request as a whole.                                       *)
LEMMA DecidedAdvances ==
  ASSUME NEW d, DatabaseOK(d), Integrity(d), NEW a \in Uids, NEW b \in Uids,
         NEW accepted \in BOOLEAN,
         accepted /\ MustCreateChat(befriended(d, a, b), a, b) => d.conv_seq < MaxConvs
  PROVE  Advances(d, decided(d, a, b, accepted))
<1> DEFINE e == IF accepted THEN chat_created(d, a, b, 2) ELSE d
<1>1. Advances(d, e)
  BY DecideAdvances, AdvancesSame
<1> HIDE DEF e
<1>2. Advances(e, storage_remove_request(e, b, a))
  BY <1>1, RemoveRequestType, RequestsIntegrity DEF Advances, Grows
<1>3. decided(d, a, b, accepted) = storage_remove_request(e, b, a)
  BY DEF decided, e
<1> QED BY <1>1, <1>2, <1>3, AdvancesChain

(* Renaming a group.                                                       *)
LEMMA UpdateGroupAdvances ==
  ASSUME NEW d, DatabaseOK(d), Integrity(d), NEW c \in ConvIds, NEW name \in Names
  PROVE  Advances(d, storage_update_group(d, c, name))
<1> DEFINE e == storage_update_group(d, c, name)
<1>1. Grows(d, e) /\ ChatsOK(e)
  BY UpdateGroupType, UpdateGroupChats DEF Integrity
<1>2. e.users = d.users /\ e.contacts = d.contacts
  BY DEF storage_update_group, DatabaseOK, Database
<1> QED BY <1>1, <1>2, ChatsAdvance

(* What an admin does to the members.                                      *)
LEMMA MembersAdvance ==
  ASSUME NEW d, DatabaseOK(d), Integrity(d), NEW c \in ConvIds, NEW me \in Uids,
         storage_is_admin(d, c, me), NEW u \in Uids
  PROVE  /\ Advances(d, storage_add_participant(d, c, u, ROLE_MEMBER))
         /\ u # me => Advances(d, storage_remove_participant(d, c, u))
<1> DEFINE e == storage_add_participant(d, c, u, ROLE_MEMBER)
           f == storage_remove_participant(d, c, u)
<1>1. /\ e.users = d.users /\ e.contacts = d.contacts
      /\ f.users = d.users /\ f.contacts = d.contacts
  BY DEF storage_add_participant, storage_remove_participant, DatabaseOK, Database
<1>2. Grows(d, e) /\ Grows(d, f)
  BY AddParticipantType, RemoveParticipantType
<1>3. ChatsOK(e) /\ (u # me => ChatsOK(f))
  BY AddParticipantChats, RemoveParticipantChats DEF Integrity
<1> HIDE DEF e, f
<1>4. Advances(d, e) /\ (u # me => Advances(d, f))
  BY <1>1, <1>2, <1>3, ChatsAdvance
<1> QED BY <1>4 DEF e, f

(* Deleting a group, up to any statement.                                  *)
LEMMA DeleteAdvances ==
  ASSUME NEW d, DatabaseOK(d), Integrity(d), NEW c \in ConvIds, NEW n \in 0..3
  PROVE  Advances(d, storage_delete_conversation(d, c, n))
<1> DEFINE e == storage_delete_conversation(d, c, n)
<1>1. Grows(d, e) /\ ChatsOK(e)
  BY DeleteConversationType, DeleteConversationChats DEF Integrity
<1>2. e.users = d.users /\ e.contacts = d.contacts
  BY DeleteConversationFields
<1> QED BY <1>1, <1>2, ChatsAdvance

-----------------------------------------------------------------------------
(* The inductive step, one lemma per kind of action.                       *)

(* A session stays one of an account when accounts are only added.         *)
LEMMA SessionsCarryOver ==
  ASSUME NEW d, NEW e, Advances(d, e), NEW cs, SessionsOK(d, cs)
  PROVE  SessionsOK(e, cs)
BY DEF SessionsOK, Advances, Grows

(* A handler that leaves the list of clients as it is.                     *)
LEMMA HandlerStep ==
  ASSUME IInv, Advances(db, db'), UNCHANGED <<clients, db_key>>, sent' \in Packets
  PROVE  IInv'
<1>1. SessionsOK(db', clients)
  BY SessionsCarryOver DEF IInv
<1> QED BY <1>1 DEF IInv, Advances, Grows

(* A handler that writes nothing to the database.                          *)
LEMMA AnswerStep ==
  ASSUME IInv, UNCHANGED <<db, clients, db_key>>, sent' \in Packets
  PROVE  IInv'
BY DEF IInv

(* The server starts on a database in order.                               *)
LEMMA StartStep ==
  ASSUME NEW d, DatabaseOK(d), Integrity(d), StartOn(d)
  PROVE  IInv'
<1>1. SessionsOK(d, <<>>)
  BY DEF SessionsOK
<1> QED BY <1>1, NoPacketsType DEF StartOn, IInv, init_clients

(* The client a handler works for.                                         *)
LEMMA OnlineClient ==
  ASSUME IInv, NEW cli \in DOMAIN clients, clients[cli].is_online
  PROVE  /\ clients[cli] \in Client
         /\ clients[cli].uid \in Registered(db)
         /\ clients[cli].uid \in Uids
         /\ clients[cli].username \in Usernames
<1>1. DatabaseOK(db) /\ SessionsOK(db, clients)
  BY DEF IInv
<1>2. Registered(db) \subseteq Uids
  BY <1>1, RegisteredUids
<1> QED BY <1>1, <1>2 DEF SessionsOK

(* accept                                                                  *)
LEMMA ConnectStep ==
  ASSUME IInv, NEW fd \in Fds, Connect(fd)
  PROVE  IInv'
<1> DEFINE node == [fd |-> fd, uid |-> 0, username |-> Empty, is_online |-> FALSE]
<1>1. node \in Client
  BY DEF Client
<1>2. clients \in Seq(Client) /\ clients' = <<node>> \o clients /\ ~node.is_online
  BY DEF IInv, SessionsOK, Connect, add_client, Cons
<1> HIDE DEF node
<1>3. /\ clients' \in Seq(Client)
      /\ \A i \in DOMAIN clients' : clients'[i] = node \/
           \E j \in DOMAIN clients : clients'[i] = clients[j]
  <2>1. clients' \in Seq(Client) /\ Len(clients') = Len(clients) + 1
    BY <1>1, <1>2
  <2>2. \A i \in DOMAIN clients' :
          clients'[i] = IF i = 1 THEN node ELSE clients[i - 1]
    BY <1>1, <1>2, <2>1
  <2>3. \A i \in DOMAIN clients' : i # 1 => i - 1 \in DOMAIN clients
    BY <1>2, <2>1
  <2> QED BY <2>1, <2>2, <2>3
<1>4. SessionsOK(db, clients')
  BY <1>2, <1>3 DEF IInv, SessionsOK
<1> QED BY <1>4, NoPacketsType DEF IInv, Connect

(* A list with one node taken out.                                         *)
LEMMA RemovedNode ==
  ASSUME NEW S, NEW s \in Seq(S), NEW cli \in DOMAIN s
  PROVE  /\ RemoveAt(s, cli) \in Seq(S)
         /\ DOMAIN RemoveAt(s, cli) = 1..(Len(s) - 1)
         /\ \A i \in 1..(Len(s) - 1) :
              /\ i \in DOMAIN s /\ i + 1 \in DOMAIN s
              /\ RemoveAt(s, cli)[i] = IF i < cli THEN s[i] ELSE s[i + 1]
<1> DEFINE n == Len(s)
           a == SubSeq(s, 1, cli - 1)
           b == SubSeq(s, cli + 1, n)
           t == RemoveAt(s, cli)
<1>1. /\ s \in Seq(S) /\ n \in Nat /\ cli \in 1..n /\ DOMAIN s = 1..n
      /\ t = a \o b
  BY DEF RemoveAt
<1>2. /\ a \in Seq(S) /\ Len(a) = cli - 1
      /\ \A k \in 1..(cli - 1) : a[k] = s[k]
  BY <1>1
<1>3. /\ b \in Seq(S) /\ Len(b) = n - cli
      /\ \A k \in 1..(n - cli) : b[k] = s[cli + k]
  <2> HIDE DEF n
  <2> DEFINE m == cli + 1
             c == SubSeq(s, m, n)
  <2>1. m \in Int /\ n \in Int
    BY <1>1
  <2>2. \A i \in m..n : s[i] \in S
    BY <1>1
  <2>3. b = c
    OBVIOUS
  <2> HIDE DEF m, b
  <2>4. /\ c \in Seq(S)
        /\ Len(c) = IF m <= n THEN n - m + 1 ELSE 0
        /\ \A k \in 1..(n - m + 1) : c[k] = s[m + k - 1]
    BY <2>1, <2>2, SubSeqProperties
  <2> HIDE DEF c
  <2>5. Len(c) = n - cli
    BY <1>1, <2>4 DEF m
  <2>6. ASSUME NEW k \in 1..(n - cli)
        PROVE  c[k] = s[cli + k]
    <3>1. k \in 1..(n - m + 1) /\ m + k - 1 = cli + k
      BY <1>1 DEF m
    <3> QED BY <2>4, <3>1
  <2> QED BY <2>3, <2>4, <2>5, <2>6
<1> HIDE DEF a, b, n, t
<1>4. /\ a \o b \in Seq(S) /\ Len(a \o b) = Len(a) + Len(b)
      /\ DOMAIN (a \o b) = 1..Len(a \o b)
  <2>1. a \in Seq(S) /\ b \in Seq(S)
    BY <1>2, <1>3
  <2> QED BY <2>1
<1>5. t \in Seq(S) /\ DOMAIN t = 1..(n - 1)
  BY <1>1, <1>2, <1>3, <1>4
<1>6. \A i \in 1..(n - 1) : t[i] = IF i < cli THEN a[i] ELSE b[i - (cli - 1)]
  <2>1. a \in Seq(S) /\ b \in Seq(S)
    BY <1>2, <1>3
  <2>2. \A i \in 1..(Len(a) + Len(b)) :
          (a \o b)[i] = IF i <= Len(a) THEN a[i] ELSE b[i - Len(a)]
    BY <2>1, ConcatProperties
  <2> DEFINE k == Len(a)
             u == a \o b
  <2>3. k = cli - 1 /\ k + Len(b) = n - 1
    BY <1>1, <1>2, <1>3
  <2>4. \A i \in 1..(n - 1) : u[i] = IF i <= k THEN a[i] ELSE b[i - k]
    BY <2>2, <2>3
  <2>5. t = u
    BY <1>1
  <2> HIDE DEF k, u
  <2> SUFFICES ASSUME NEW i \in 1..(n - 1)
               PROVE  t[i] = IF i < cli THEN a[i] ELSE b[i - (cli - 1)]
    OBVIOUS
  <2>6. i \in Int /\ cli \in Int /\ k \in Int
    BY <1>1, <2>3
  <2>7. (i <= k) = (i < cli)
    BY <2>3, <2>6
  <2>8. t[i] = IF i <= k THEN a[i] ELSE b[i - k]
    BY <2>4, <2>5
  <2> QED BY <2>3, <2>7, <2>8
<1>7. ASSUME NEW i \in 1..(n - 1)
      PROVE  t[i] = IF i < cli THEN s[i] ELSE s[i + 1]
  <2>1. CASE i < cli
    <3>1. i \in 1..(cli - 1)
      BY <1>1, <2>1
    <3> QED BY <1>2, <1>6, <2>1, <3>1
  <2>2. CASE ~(i < cli)
    <3>1. i - (cli - 1) \in 1..(n - cli) /\ cli + (i - (cli - 1)) = i + 1
      <4>1. n \in Int /\ cli \in Int /\ i \in Int /\ i <= n - 1 /\ cli <= i
        BY <1>1, <2>2
      <4> QED BY <4>1
    <3>2. t[i] = b[i - (cli - 1)]
      BY <1>6, <2>2
    <3>3. b[i - (cli - 1)] = s[cli + (i - (cli - 1))]
      BY <1>3, <3>1
    <3> QED BY <2>2, <3>1, <3>2, <3>3
  <2> QED BY <2>1, <2>2
<1>8. \A i \in 1..(n - 1) : i \in DOMAIN s /\ i + 1 \in DOMAIN s
  BY <1>1
<1> QED BY <1>5, <1>7, <1>8 DEF n, t

(* remove_client                                                           *)
LEMMA DisconnectStep ==
  ASSUME IInv, NEW cli \in DOMAIN clients, Disconnect(cli)
  PROVE  IInv'
<1>1. clients \in Seq(Client) /\ clients' = RemoveAt(clients, cli)
  BY DEF IInv, SessionsOK, Disconnect, remove_client
<1>2. /\ clients' \in Seq(Client)
      /\ \A i \in DOMAIN clients' :
           \E j \in DOMAIN clients : clients'[i] = clients[j]
  <2>1. /\ clients' \in Seq(Client)
        /\ DOMAIN clients' = 1..(Len(clients) - 1)
        /\ \A i \in 1..(Len(clients) - 1) :
             /\ i \in DOMAIN clients /\ i + 1 \in DOMAIN clients
             /\ clients'[i] = IF i < cli THEN clients[i] ELSE clients[i + 1]
    BY <1>1, RemovedNode, Zenon
  <2> QED BY <2>1
<1>3. SessionsOK(db, clients')
  BY <1>2 DEF IInv, SessionsOK
<1> QED BY <1>3, NoPacketsType DEF IInv, Disconnect

(* MSG_REGISTER and MSG_LOGIN                                              *)
LEMMA BeforeLoginStep ==
  ASSUME IInv, NEW cli \in DOMAIN clients, BeforeLogin(cli)
  PROVE  IInv'
<1>0. DatabaseOK(db) /\ Integrity(db) /\ SessionsOK(db, clients)
  BY DEF IInv
<1>1. CASE \E e \in Emails, u \in Usernames, p \in Passwords, c \in Codes, s \in Salts :
             handle_register(cli, e, u, p, c, s)
  <2>1. PICK e \in Emails, u \in Usernames, p \in Passwords, c \in Codes, s \in Salts :
             handle_register(cli, e, u, p, c, s)
    BY <1>1
  <2>2. Advances(db, db')
    BY <1>0, <2>1, RegisterType, RegisterIntegrity DEF handle_register, Advances
  <2>3. sent' \in Packets
    BY <2>1, EmptyPackets DEF handle_register
  <2> QED BY <2>1, <2>2, <2>3, HandlerStep DEF handle_register
<1>2. CASE \E e \in Emails, p \in Passwords : handle_login(cli, e, p)
  <2>1. PICK e \in Emails, p \in Passwords : handle_login(cli, e, p)
    BY <1>2
  <2>2. CASE \E u \in storage_check_credentials(db, e, p) :
               /\ clients' = [clients EXCEPT
                                ![cli] = [fd |-> @.fd, uid |-> u,
                                          username |-> db.users[u].username,
                                          is_online |-> TRUE]]
               /\ sent' = send_packet(clients[cli].fd, login_success(u))
    <3>1. PICK u \in storage_check_credentials(db, e, p) :
               /\ clients' = [clients EXCEPT
                                ![cli] = [fd |-> @.fd, uid |-> u,
                                          username |-> db.users[u].username,
                                          is_online |-> TRUE]]
               /\ sent' = send_packet(clients[cli].fd, login_success(u))
      BY <2>2
    <3>2. u \in Registered(db)
      BY DEF storage_check_credentials
    <3>3. /\ u \in Uids
          /\ db.users[u].username \in Usernames
          /\ db.users[u].email \in Emails
          /\ db.users[u].friend_code \in Codes
      BY <1>0, <3>2, RegisteredUids DEF UserRow
    <3>4. login_success(u) \in Packet
      BY <3>3 DEF login_success, Packet
    <3>5. sent' \in Packets
      BY <3>1, <3>4, SendType
    <3> DEFINE node == [fd |-> clients[cli].fd, uid |-> u,
                        username |-> db.users[u].username, is_online |-> TRUE]
    <3>6. clients \in Seq(Client) /\ node \in Client
      <4>1. clients \in Seq(Client)
        BY <1>0 DEF SessionsOK
      <4>2. clients[cli] \in Client
        BY <4>1
      <4> QED BY <3>3, <4>1, <4>2 DEF Client
    <3>7. node.uid = u /\ node.username = db.users[u].username
      OBVIOUS
    <3>8. clients' = [clients EXCEPT ![cli] = node]
      BY <3>1
    <3> HIDE DEF node
    <3>9. /\ clients' \in Seq(Client) /\ DOMAIN clients' = DOMAIN clients
          /\ \A i \in DOMAIN clients : clients'[i] = IF i = cli THEN node ELSE clients[i]
      BY <3>6, <3>8, ReplaceInSeq
    <3>10. SessionsOK(db, clients')
      BY <1>0, <3>2, <3>3, <3>7, <3>9 DEF SessionsOK
    <3> QED BY <2>1, <3>5, <3>10 DEF IInv, handle_login
  <2>3. CASE /\ sent' = send_packet(clients[cli].fd, [type |-> "MSG_LOGIN_FAIL"])
             /\ UNCHANGED clients
    <3>1. sent' \in Packets
      BY <2>3, EmptyPackets
    <3> QED BY <2>1, <2>3, <3>1, AnswerStep DEF handle_login
  <2> QED BY <2>1, <2>2, <2>3 DEF handle_login
<1> QED BY <1>1, <1>2 DEF BeforeLogin

(* MSG_UPDATE_USER                                                         *)
LEMMA UpdateUserStep ==
  ASSUME IInv, NEW cli \in DOMAIN clients, clients[cli].is_online,
         NEW name \in Usernames \cup {Empty}, NEW password \in Passwords \cup {Empty},
         NEW salt \in Salts, handle_update_user(cli, name, password, salt)
  PROVE  IInv'
<1>0. DatabaseOK(db) /\ Integrity(db) /\ SessionsOK(db, clients)
  BY DEF IInv
<1>1. clients[cli] \in Client /\ clients[cli].uid \in Registered(db)
  BY OnlineClient
<1>2. Advances(db, db')
  BY <1>0, <1>1, UpdateUserType, UpdateUserIntegrity DEF handle_update_user, Advances
<1>3. sent' \in Packets
  BY EmptyPackets DEF handle_update_user
<1>4. CASE name = Empty
  BY <1>2, <1>3, <1>4, HandlerStep DEF handle_update_user
<1>5. CASE name # Empty
  <2> DEFINE node == [clients[cli] EXCEPT !.username = name]
  <2>1. node \in Client /\ node.uid = clients[cli].uid /\ node.username \in Usernames
    BY <1>1, <1>5 DEF Client
  <2>2. clients \in Seq(Client) /\ clients' = [clients EXCEPT ![cli] = node]
    BY <1>0, <1>5 DEF SessionsOK, handle_update_user
  <2> HIDE DEF node
  <2>3. /\ clients' \in Seq(Client) /\ DOMAIN clients' = DOMAIN clients
        /\ \A i \in DOMAIN clients : clients'[i] = IF i = cli THEN node ELSE clients[i]
    BY <2>1, <2>2, ReplaceInSeq
  <2>4. SessionsOK(db, clients')
    BY <1>0, <1>1, <2>1, <2>3 DEF SessionsOK
  <2>5. SessionsOK(db', clients')
    BY <1>2, <2>4, SessionsCarryOver
  <2> QED BY <1>2, <1>3, <2>5 DEF IInv, handle_update_user, Advances, Grows
<1> QED BY <1>4, <1>5

(* MSG_SEND_TEXT and MSG_REQ_HISTORY                                       *)
LEMMA ChatStep ==
  ASSUME IInv, NEW cli \in DOMAIN clients, clients[cli].is_online, NEW c \in ConvIds,
         \/ \E t \in Texts, now \in Times : handle_send_text(cli, c, t, now)
         \/ handle_req_history(cli, c)
  PROVE  IInv'
<1>0. DatabaseOK(db) /\ Integrity(db) /\ db_key \in Keys
  BY DEF IInv
<1>1. /\ clients[cli].uid \in Registered(db) /\ clients[cli].uid \in Uids
      /\ clients[cli].username \in Usernames
  BY OnlineClient
<1>2. CASE \E t \in Texts, now \in Times : handle_send_text(cli, c, t, now)
  <2>1. PICK t \in Texts, now \in Times : handle_send_text(cli, c, t, now)
    BY <1>2
  <2>2. Advances(db, db')
    BY <1>0, <1>1, <2>1, LogMessageType, LogMessageIntegrity
    DEF handle_send_text, Advances
  <2>3. routed_text(cli, c, t) \in Packet
    BY <1>1 DEF routed_text, Packet
  <2>4. sent' \in Packets
    BY <2>1, <2>3, PushType DEF handle_send_text
  <2> QED BY <2>1, <2>2, <2>4, HandlerStep DEF handle_send_text
<1>3. CASE handle_req_history(cli, c)
  <2>1. as_string(storage_get_history(db, db_key, c)) \in SUBSET HistoryLine
    BY <1>0, HistoryType DEF as_string
  <2>2. [type |-> "MSG_RESP_HISTORY", list |-> as_string(storage_get_history(db, db_key, c))]
          \in Packet
    BY <2>1 DEF Packet
  <2>3. sent' \in Packets
    BY <1>3, <2>2, SendType DEF handle_req_history
  <2> QED BY <1>3, <2>3, AnswerStep DEF handle_req_history
<1> QED BY <1>2, <1>3

(* The id a MSG_CONV_CREATED carries.                                      *)
LEMMA CreatedPacket ==
  ASSUME NEW id \in ConvIds, NEW fd
  PROVE  send_packet(fd, [type |-> "MSG_CONV_CREATED", conv_id |-> id]) \in Packets
<1>1. [type |-> "MSG_CONV_CREATED", conv_id |-> id] \in Packet
  BY DEF Packet
<1> QED BY <1>1, SendType

(* What handle_create_conv finds before it creates anything.               *)
LEMMA ExistingConversation ==
  ASSUME NEW d, NEW type, NEW uids, NEW count
  PROVE  /\ existing_conversation(d, type, uids, count) \in ConvIds \cup {0}
         /\ /\ type = CONV_TYPE_PRIVATE /\ count = 2
            /\ existing_conversation(d, type, uids, count) = 0
            => PrivateConversations(d, uids[1], uids[2]) = {}
BY FindPrivateType DEF existing_conversation

(* MSG_CREATE_CONV, once its statements are known to be in order.          *)
LEMMA CreateConvStep ==
  ASSUME IInv, NEW cli \in DOMAIN clients, clients[cli].is_online,
         NEW type, NEW name, NEW uids, NEW n \in Nat, n = participants_count(uids),
         \A i \in 1..n : uids[i] \in Uids,
         existing_conversation(db, type, uids, n) = 0 /\ db.conv_seq < MaxConvs =>
           Advances(db, storage_create_conversation(db, type, name, uids, n)),
         handle_create_conv(cli, type, name, uids)
  PROVE  IInv'
<1>0. DatabaseOK(db) /\ Integrity(db)
  BY DEF IInv
<1> DEFINE found == existing_conversation(db, type, uids, n)
           fd == clients[cli].fd
           answer(id) == send_packet(fd, [type |-> "MSG_CONV_CREATED", conv_id |-> id])
           others == {uids[i] : i \in 1..n} \ {clients[cli].uid}
<1>1. CASE found # 0
  <2>1. sent' = answer(found) /\ UNCHANGED <<db, clients, db_key>>
    BY <1>1 DEF handle_create_conv
  <2>2. found \in ConvIds
    BY <1>1, ExistingConversation
  <2> HIDE DEF found
  <2>3. sent' \in Packets
    BY <2>1, <2>2, CreatedPacket
  <2> QED BY <2>1, <2>3, AnswerStep
<1>2. CASE found = 0
  <2>1. /\ db.conv_seq < MaxConvs
        /\ db' = storage_create_conversation(db, type, name, uids, n)
        /\ sent' = Then(answer(db.conv_seq + 1), push_conversations(db', others))
        /\ UNCHANGED <<clients, db_key>>
    BY <1>2 DEF handle_create_conv, next_conv_id
  <2>2. Advances(db, db')
    BY <1>2, <2>1
  <2>3. db.conv_seq + 1 \in ConvIds
    BY <1>0, <2>1, DatabaseFields, BoundsAreNaturals DEF BoundsAreNaturals, ConvIds
  <2>4. answer(db.conv_seq + 1) \in Packets
    BY <2>3, CreatedPacket
  <2>5. others \in SUBSET Uids
    OBVIOUS
  <2>6. push_conversations(db', others) \in Packets
    BY <2>2, <2>5, PushLists DEF Advances, Grows
  <2> HIDE DEF answer, others
  <2>7. sent' \in Packets
    BY <2>1, <2>4, <2>6, ThenType
  <2> QED BY <2>1, <2>2, <2>7, HandlerStep
<1> QED BY <1>1, <1>2

(* A list of invited users has the sender first.                           *)
LEMMA InvitedAreUids ==
  ASSUME IInv, NEW cli \in DOMAIN clients, clients[cli].is_online
  PROVE  /\ \A uids \in GroupInvitations(clients[cli].uid) :
              /\ participants_count(uids) \in Nat
              /\ uids[1] \in Uids
              /\ \A i \in 1..participants_count(uids) : uids[i] \in Uids
         /\ \A uids \in PrivateInvitations(clients[cli].uid) :
              \E u \in Uids : uids = <<clients[cli].uid, u>>
<1>1. clients[cli].uid \in Uids
  BY OnlineClient
<1>2. ASSUME NEW uids \in GroupInvitations(clients[cli].uid)
      PROVE  /\ participants_count(uids) \in Nat
             /\ uids[1] \in Uids
             /\ \A i \in 1..participants_count(uids) : uids[i] \in Uids
  <2>1. PICK n \in 2..MaxUsers : uids \in [1..n -> Uids]
    BY DEF GroupInvitations
  <2>2. MAX_PARTICIPANTS \in Nat /\ n \in Nat /\ 1 \in 1..n /\ Len(uids) = n
    BY <2>1, BoundsAreNaturals DEF BoundsAreNaturals
  <2>3. /\ participants_count(uids) \in Nat
        /\ 1..participants_count(uids) \subseteq 1..n
    BY <2>2 DEF participants_count
  <2> QED BY <2>1, <2>2, <2>3
<1>3. \A uids \in PrivateInvitations(clients[cli].uid) :
        \E u \in Uids : uids = <<clients[cli].uid, u>>
  BY RegisteredUids DEF PrivateInvitations, IInv
<1> QED BY <1>2, <1>3

(* MSG_CREATE_CONV for a group.                                            *)
LEMMA CreateGroupStep ==
  ASSUME IInv, NEW cli \in DOMAIN clients, clients[cli].is_online,
         NEW name \in Names, NEW uids \in GroupInvitations(clients[cli].uid),
         handle_create_conv(cli, CONV_TYPE_GROUP, name, uids)
  PROVE  IInv'
<1>0. DatabaseOK(db) /\ Integrity(db)
  BY DEF IInv
<1> DEFINE n == participants_count(uids)
<1>1. n \in Nat /\ uids[1] \in Uids /\ \A i \in 1..n : uids[i] \in Uids
  BY InvitedAreUids
<1> HIDE DEF n
<1>2. db.conv_seq < MaxConvs =>
        Advances(db, storage_create_conversation(db, CONV_TYPE_GROUP, name, uids, n))
  BY <1>0, <1>1, GroupAdvances
<1>3. n = participants_count(uids)
  BY DEF n
<1> QED BY <1>1, <1>2, <1>3, CreateConvStep

(* The statements of MSG_CREATE_CONV for a private chat.                   *)
LEMMA PrivateInvitation ==
  ASSUME DatabaseOK(db), Integrity(db), db.conv_seq < MaxConvs,
         NEW a \in Uids, NEW b \in Uids,
         existing_conversation(db, CONV_TYPE_PRIVATE, <<a, b>>, 2) = 0
  PROVE  /\ participants_count(<<a, b>>) = 2
         /\ \A n \in 0..2 :
              Advances(db, storage_create_conversation(db, CONV_TYPE_PRIVATE,
                                                       PRIVATE_NAME, <<a, b>>, n))
<1>1. participants_count(<<a, b>>) = 2
  BY PairFits, BoundsAreNaturals DEF PairFits, BoundsAreNaturals, participants_count
<1>2. PrivateConversations(db, a, b) = {}
  <2> DEFINE uids == <<a, b>>
  <2>1. PrivateConversations(db, uids[1], uids[2]) = {}
    BY ExistingConversation
  <2> QED BY <2>1
<1> QED BY <1>1, <1>2, PrivateAdvances

(* MSG_CREATE_CONV for a private chat.                                     *)
LEMMA CreatePrivateStep ==
  ASSUME IInv, NEW cli \in DOMAIN clients, clients[cli].is_online,
         NEW uids \in PrivateInvitations(clients[cli].uid),
         handle_create_conv(cli, CONV_TYPE_PRIVATE, PRIVATE_NAME, uids)
  PROVE  IInv'
<1>0. DatabaseOK(db) /\ Integrity(db)
  BY DEF IInv
<1> DEFINE me == clients[cli].uid
<1>1. me \in Uids
  BY OnlineClient
<1>2. PICK u \in Uids : uids = <<me, u>>
  BY InvitedAreUids
<1> HIDE DEF me
<1>3. 2 = participants_count(uids)
  BY <1>2, PairFits, BoundsAreNaturals
  DEF PairFits, BoundsAreNaturals, participants_count
<1>4. existing_conversation(db, CONV_TYPE_PRIVATE, uids, 2) = 0 /\ db.conv_seq < MaxConvs =>
        Advances(db, storage_create_conversation(db, CONV_TYPE_PRIVATE,
                                                 PRIVATE_NAME, uids, 2))
  BY <1>0, <1>1, <1>2, PrivateInvitation
<1>5. \A i \in 1..2 : uids[i] \in Uids
  BY <1>1, <1>2
<1> QED BY <1>3, <1>4, <1>5, CreateConvStep

(* notify_group_update                                                     *)
LEMMA NotifyType ==
  ASSUME NEW d, DatabaseOK(d), NEW c, NEW u
  PROVE  notify_group_update(d, c, u) \in Packets
<1>1. storage_get_conv_participants(d, c) \ {u} \in SUBSET Uids
  BY ParticipantsAreUids
<1> QED BY <1>1, PushLists DEF notify_group_update

(* MSG_UPDATE_GROUP, MSG_ADD_MEMBER and MSG_REQ_MEMBERS                    *)
LEMMA GroupSettingsStep ==
  ASSUME IInv, NEW cli \in DOMAIN clients, clients[cli].is_online, NEW c \in ConvIds,
         \/ \E name \in Names : handle_update_group(cli, c, name)
         \/ \E code \in TypedCodes : handle_add_member(cli, c, code)
         \/ handle_req_members(cli, c)
  PROVE  IInv'
<1>0. DatabaseOK(db) /\ Integrity(db)
  BY DEF IInv
<1> DEFINE me == clients[cli].uid
<1>1. me \in Uids /\ Registered(db) \subseteq Uids
  BY <1>0, OnlineClient, RegisteredUids
<1>2. CASE \E name \in Names : handle_update_group(cli, c, name)
  <2>1. PICK name \in Names : handle_update_group(cli, c, name)
    BY <1>2
  <2>2. CASE storage_is_admin(db, c, me)
    <3>1. Advances(db, db')
      BY <1>0, <2>1, <2>2, UpdateGroupAdvances DEF handle_update_group
    <3>2. sent' \in Packets
      BY <2>1, <2>2, <3>1, NotifyType DEF handle_update_group, Advances, Grows
    <3> QED BY <2>1, <3>1, <3>2, HandlerStep DEF handle_update_group
  <2>3. CASE ~storage_is_admin(db, c, me)
    BY <2>1, <2>3, NoPacketsType, AnswerStep DEF handle_update_group
  <2> QED BY <2>2, <2>3
<1>3. CASE \E code \in TypedCodes : handle_add_member(cli, c, code)
  <2>1. PICK code \in TypedCodes : handle_add_member(cli, c, code)
    BY <1>3
  <2> DEFINE targets == storage_get_uid_by_code(db, code)
  <2>2. CASE /\ storage_is_admin(db, c, me)
             /\ \E target \in targets :
                  db' = storage_add_participant(db, c, target, ROLE_MEMBER)
             /\ sent' = Then(send_packet(clients[cli].fd, [type |-> "MSG_MEMBER_ADDED"]),
                             notify_group_update(db', c, 0))
    <3>1. PICK target \in targets :
            db' = storage_add_participant(db, c, target, ROLE_MEMBER)
      BY <2>2
    <3>2. target \in Uids
      BY <1>1 DEF storage_get_uid_by_code
    <3>3. Advances(db, db')
      BY <1>0, <1>1, <2>2, <3>1, <3>2, MembersAdvance
    <3>4. notify_group_update(db', c, 0) \in Packets
      BY <3>3, NotifyType DEF Advances, Grows
    <3>5. sent' \in Packets
      BY <2>2, <3>4, EmptyPackets, ThenType
    <3> QED BY <2>1, <3>3, <3>5, HandlerStep DEF handle_add_member
  <2>3. CASE sent' = NoPackets /\ UNCHANGED db
    BY <2>1, <2>3, NoPacketsType, AnswerStep DEF handle_add_member
  <2> QED BY <2>1, <2>2, <2>3 DEF handle_add_member
<1>4. CASE handle_req_members(cli, c)
  <2>1. storage_get_group_members(db, c) \in SUBSET GroupMemberSummary
    BY <1>0, MembersType
  <2>2. [type |-> "MSG_RESP_MEMBERS", list |-> storage_get_group_members(db, c)] \in Packet
    BY <2>1 DEF Packet
  <2>3. sent' \in Packets
    BY <1>4, <2>2, SendType DEF handle_req_members
  <2> QED BY <1>4, <2>3, AnswerStep DEF handle_req_members
<1> QED BY <1>2, <1>3, <1>4

(* MSG_KICK_MEMBER and MSG_DELETE_GROUP                                    *)
LEMMA GroupRemovalStep ==
  ASSUME IInv, NEW cli \in DOMAIN clients, clients[cli].is_online, NEW c \in ConvIds,
         \/ \E u \in Registered(db) : handle_kick_member(cli, c, u)
         \/ handle_delete_group(cli, c)
  PROVE  IInv'
<1>0. DatabaseOK(db) /\ Integrity(db)
  BY DEF IInv
<1> DEFINE me == clients[cli].uid
<1>1. me \in Uids /\ Registered(db) \subseteq Uids
  BY <1>0, OnlineClient, RegisteredUids
<1>2. CASE \E u \in Registered(db) : handle_kick_member(cli, c, u)
  <2>1. PICK u \in Registered(db) : handle_kick_member(cli, c, u)
    BY <1>2
  <2>2. CASE MayKick(db, me, c, u)
    <3>1. Advances(db, db')
      BY <1>0, <1>1, <2>1, <2>2, MembersAdvance DEF handle_kick_member, MayKick
    <3>2. notify_group_update(db', c, 0) \in Packets
      BY <3>1, NotifyType DEF Advances, Grows
    <3>3. push_conversations(db', {u}) \in Packets
      BY <1>1, <3>1, PushLists DEF Advances, Grows
    <3>4. sent' \in Packets
      BY <2>1, <2>2, <3>2, <3>3, ThenType DEF handle_kick_member
    <3> QED BY <2>1, <3>1, <3>4, HandlerStep DEF handle_kick_member
  <2>3. CASE ~MayKick(db, me, c, u)
    BY <2>1, <2>3, NoPacketsType, AnswerStep DEF handle_kick_member
  <2> QED BY <2>2, <2>3
<1>3. CASE handle_delete_group(cli, c)
  <2>1. CASE storage_is_admin(db, c, me)
    <3>1. Advances(db, db')
      BY <1>0, <1>3, <2>1, DeleteAdvances DEF handle_delete_group
    <3>2. sent' \in Packets
      BY <1>3, <2>1, <3>1, PushLists, ParticipantsAreUids
      DEF handle_delete_group, Advances, Grows
    <3> QED BY <1>3, <3>1, <3>2, HandlerStep DEF handle_delete_group
  <2>2. CASE ~storage_is_admin(db, c, me)
    BY <1>3, <2>2, NoPacketsType, AnswerStep DEF handle_delete_group
  <2> QED BY <2>1, <2>2
<1> QED BY <1>2, <1>3

(* The packets of MSG_RESP_* about one's own lists.                        *)
LEMMA OwnLists ==
  ASSUME NEW d, DatabaseOK(d), NEW uid \in Uids, NEW fd
  PROVE  /\ send_packet(fd, conversations_packet(d, uid)) \in Packets
         /\ send_packet(fd, contacts_packet(d, uid)) \in Packets
         /\ send_packet(fd, requests_packet(d, uid)) \in Packets
BY ListPackets, SendType

(* MSG_REQ_CONVERSATIONS, MSG_REQ_CONTACTS, MSG_GET_REQUESTS               *)
LEMMA RequestListStep ==
  ASSUME IInv, NEW cli \in DOMAIN clients, clients[cli].is_online,
         \/ handle_req_conversations(cli)
         \/ handle_req_contacts(cli)
         \/ handle_get_requests(cli)
  PROVE  IInv'
<1>1. clients[cli].uid \in Uids /\ DatabaseOK(db)
  BY OnlineClient DEF IInv
<1>2. sent' \in Packets /\ UNCHANGED <<db, clients, db_key>>
  BY <1>1, OwnLists
  DEF handle_req_conversations, handle_req_contacts, handle_get_requests
<1> QED BY <1>2, AnswerStep

(* MSG_ADD_BY_CODE                                                         *)
LEMMA AddByCodeStep ==
  ASSUME IInv, NEW cli \in DOMAIN clients, clients[cli].is_online,
         NEW code, handle_add_by_code(cli, code)
  PROVE  IInv'
<1>0. DatabaseOK(db) /\ Integrity(db)
  BY DEF IInv
<1> DEFINE me == clients[cli].uid
           fd == clients[cli].fd
           targets == storage_get_uid_by_code(db, code)
<1>1. me \in Uids /\ targets \subseteq Uids
  BY <1>0, OnlineClient, RegisteredUids DEF storage_get_uid_by_code
<1>2. UNCHANGED <<clients, db_key>>
  BY DEF handle_add_by_code
<1>3. \/ \E target \in targets :
           /\ db' = storage_add_request(db, me, target)
           /\ sent' = Then(send_packet(fd, [type |-> "MSG_ADD_REQ_SENT"]),
                           push_requests(db', {target}))
      \/ sent' = send_packet(fd, [type |-> "MSG_ADD_FAIL"]) /\ UNCHANGED db
  BY DEF handle_add_by_code
<1> HIDE DEF me, fd, targets
<1>4. CASE \E target \in targets :
             /\ db' = storage_add_request(db, me, target)
             /\ sent' = Then(send_packet(fd, [type |-> "MSG_ADD_REQ_SENT"]),
                             push_requests(db', {target}))
  <2>1. PICK target \in targets :
             /\ db' = storage_add_request(db, me, target)
             /\ sent' = Then(send_packet(fd, [type |-> "MSG_ADD_REQ_SENT"]),
                             push_requests(db', {target}))
    BY <1>4
  <2>2. Advances(db, db')
    BY <1>0, <1>1, <2>1, AddRequestType, RequestsIntegrity DEF Advances
  <2>3. push_requests(db', {target}) \in Packets
    BY <1>1, <2>2, PushLists DEF Advances, Grows
  <2>4. sent' \in Packets
    BY <2>1, <2>3, EmptyPackets, ThenType
  <2> QED BY <1>2, <2>2, <2>4, HandlerStep
<1>5. CASE sent' = send_packet(fd, [type |-> "MSG_ADD_FAIL"]) /\ UNCHANGED db
  BY <1>2, <1>5, EmptyPackets, AnswerStep
<1> QED BY <1>3, <1>4, <1>5

(* MSG_DECIDE_REQUEST                                                      *)
LEMMA DecideStep ==
  ASSUME IInv, NEW cli \in DOMAIN clients, clients[cli].is_online,
         NEW target \in Registered(db), NEW accepted \in BOOLEAN,
         handle_decide_request(cli, target, accepted)
  PROVE  IInv'
<1>0. DatabaseOK(db) /\ Integrity(db)
  BY DEF IInv
<1> DEFINE me == clients[cli].uid
           fd == clients[cli].fd
           created == accepted /\ MustCreateChat(befriended(db, me, target), me, target)
           chat == chat_created(db, me, target, 2)
           first == IF created
                      THEN Then(send_packet(fd, conversations_packet(chat, me)),
                                push_conversations(chat, {target}))
                      ELSE NoPackets
           lists == Then(send_packet(fd, contacts_packet(db', me)),
                         send_packet(fd, requests_packet(db', me)))
           last == IF accepted THEN push_contacts(db', {target}) ELSE NoPackets
<1>1. me \in Uids /\ target \in Uids
  BY <1>0, OnlineClient, RegisteredUids
<1>2. /\ created => db.conv_seq < MaxConvs
      /\ db' = decided(db, me, target, accepted)
      /\ sent' = Then(Then(first, lists), last)
      /\ UNCHANGED <<clients, db_key>>
  BY DEF handle_decide_request
<1>3. Advances(db, db')
  BY <1>0, <1>1, <1>2, DecidedAdvances
<1>4. created => DatabaseOK(chat)
  BY <1>0, <1>1, <1>2, DecideAdvances DEF Advances, Grows
<1> HIDE DEF me, fd, created, chat
<1>5. first \in Packets
  BY <1>1, <1>4, OwnLists, PushLists, ThenType, NoPacketsType
<1>6. DatabaseOK(db')
  BY <1>3 DEF Advances, Grows
<1>7. lists \in Packets
  BY <1>1, <1>6, OwnLists, ThenType
<1>8. last \in Packets
  BY <1>1, <1>6, PushLists, NoPacketsType
<1> HIDE DEF first, lists, last
<1>9. sent' \in Packets
  BY <1>2, <1>5, <1>7, <1>8, ThenType
<1> QED BY <1>2, <1>3, <1>9, HandlerStep

(* Every handler that runs for a client after its login.                   *)
LEMMA AfterLoginStep ==
  ASSUME IInv, NEW cli \in DOMAIN clients, AfterLogin(cli)
  PROVE  IInv'
<1>0. clients[cli].is_online
  BY DEF AfterLogin
<1>1. CASE \E form \in SettingsForms, s \in Salts :
             handle_update_user(cli, form[1], form[2], s)
  <2>1. PICK form \in SettingsForms, s \in Salts :
             handle_update_user(cli, form[1], form[2], s)
    BY <1>1
  <2>2. form[1] \in Usernames \cup {Empty} /\ form[2] \in Passwords \cup {Empty}
    BY InputsAreValues DEF InputsAreValues, SettingsForms
  <2> QED BY <1>0, <2>1, <2>2, UpdateUserStep
<1>2. CASE \E c \in SeenConversations :
             \/ \E t \in Texts, now \in Times : handle_send_text(cli, c, t, now)
             \/ handle_req_history(cli, c)
  BY <1>0, <1>2, ChatStep DEF SeenConversations
<1>3. CASE \E name \in Names, uids \in GroupInvitations(clients[cli].uid) :
             handle_create_conv(cli, CONV_TYPE_GROUP, name, uids)
  BY <1>0, <1>3, CreateGroupStep
<1>4. CASE \E uids \in PrivateInvitations(clients[cli].uid) :
             handle_create_conv(cli, CONV_TYPE_PRIVATE, PRIVATE_NAME, uids)
  BY <1>0, <1>4, CreatePrivateStep
<1>5. CASE \E c \in SeenConversations :
             \/ \E name \in Names : handle_update_group(cli, c, name)
             \/ \E code \in TypedCodes : handle_add_member(cli, c, code)
             \/ handle_req_members(cli, c)
  BY <1>0, <1>5, GroupSettingsStep DEF SeenConversations
<1>6. CASE \E c \in SeenConversations :
             \/ \E u \in Registered(db) : handle_kick_member(cli, c, u)
             \/ handle_delete_group(cli, c)
  BY <1>0, <1>6, GroupRemovalStep DEF SeenConversations
<1>7. CASE \/ handle_req_conversations(cli)
           \/ handle_req_contacts(cli)
           \/ handle_get_requests(cli)
  BY <1>0, <1>7, RequestListStep
<1>8. CASE \E code \in TypedCodes : handle_add_by_code(cli, code)
  BY <1>0, <1>8, AddByCodeStep
<1>9. CASE \E u \in OtherUsers(clients[cli].uid), accepted \in BOOLEAN :
             handle_decide_request(cli, u, accepted)
  BY <1>0, <1>9, DecideStep DEF OtherUsers
<1> QED BY <1>1, <1>2, <1>3, <1>4, <1>5, <1>6, <1>7, <1>8, <1>9 DEF AfterLogin

(* A crash between two statements of a handler, and the restart.           *)
LEMMA CrashStep ==
  ASSUME IInv, NEW cli \in DOMAIN clients, CrashInHandler(cli)
  PROVE  IInv'
<1>0. DatabaseOK(db) /\ Integrity(db) /\ clients[cli].is_online
  BY DEF IInv, CrashInHandler
<1> DEFINE me == clients[cli].uid
<1>1. me \in Uids /\ me \in Registered(db) /\ Registered(db) \subseteq Uids
  BY <1>0, OnlineClient, RegisteredUids
<1>2. ASSUME NEW d, Advances(db, d), StartOn(d)
      PROVE  IInv'
  BY <1>2, StartStep DEF Advances, Grows
<1>3. CASE \E form \in SettingsForms :
             \E d \in update_user_prefixes(cli, form[1]) : StartOn(d)
  <2>1. PICK form \in SettingsForms :
          StartOn(storage_update_name(db, me, form[1]))
    BY <1>3 DEF update_user_prefixes
  <2>2. form[1] \in Usernames \cup {Empty}
    BY InputsAreValues DEF InputsAreValues, SettingsForms
  <2>3. Advances(db, storage_update_name(db, me, form[1]))
    BY <1>0, <1>1, <2>2, UpdateNameType, UpdateNameIntegrity DEF Advances
  <2> QED BY <1>2, <2>1, <2>3
<1>4. CASE /\ db.conv_seq < MaxConvs
           /\ \E u \in OtherUsers(me) :
                \E d \in decide_request_prefixes(cli, u) : StartOn(d)
  <2>0. PICK u \in OtherUsers(me) : \E d \in decide_request_prefixes(cli, u) : StartOn(d)
    BY <1>4
  <2>1. PICK d \in decide_request_prefixes(cli, u) : StartOn(d)
    BY <2>0
  <2>2. u \in Uids
    BY <1>1 DEF OtherUsers
  <2>3. Advances(db, d)
    BY <1>0, <1>1, <1>4, <2>2, DecideAdvances DEF decide_request_prefixes
  <2> QED BY <1>2, <2>1, <2>3
<1>5. CASE /\ db.conv_seq < MaxConvs
           /\ \E name \in Names, uids \in GroupInvitations(me) :
                \E d \in create_conv_prefixes(CONV_TYPE_GROUP, name, uids) : StartOn(d)
  <2>0. PICK name \in Names, uids \in GroupInvitations(me) :
          \E d \in create_conv_prefixes(CONV_TYPE_GROUP, name, uids) : StartOn(d)
    BY <1>5
  <2>1. PICK d \in create_conv_prefixes(CONV_TYPE_GROUP, name, uids) : StartOn(d)
    BY <2>0
  <2>2. participants_count(uids) \in Nat /\ uids[1] \in Uids
    BY <1>0, InvitedAreUids
  <2>3. \A n \in 0..participants_count(uids) :
          Advances(db, storage_create_conversation(db, CONV_TYPE_GROUP, name, uids, n))
    BY <1>0, <1>5, <2>2, GroupAdvances
  <2>4. Advances(db, d)
    BY <1>0, <2>3, AdvancesSame DEF create_conv_prefixes
  <2> QED BY <1>2, <2>1, <2>4
<1>6. CASE /\ db.conv_seq < MaxConvs
           /\ \E uids \in PrivateInvitations(me) :
                \E d \in create_conv_prefixes(CONV_TYPE_PRIVATE, PRIVATE_NAME, uids) :
                  StartOn(d)
  <2>0. PICK uids \in PrivateInvitations(me) :
          \E d \in create_conv_prefixes(CONV_TYPE_PRIVATE, PRIVATE_NAME, uids) : StartOn(d)
    BY <1>6
  <2>1. PICK d \in create_conv_prefixes(CONV_TYPE_PRIVATE, PRIVATE_NAME, uids) : StartOn(d)
    BY <2>0
  <2>2. PICK u \in Uids : uids = <<me, u>>
    BY <1>0, InvitedAreUids
  <2>3. participants_count(uids) = 2
    BY <2>2, PairFits, BoundsAreNaturals
    DEF PairFits, BoundsAreNaturals, participants_count
  <2> HIDE DEF me
  <2>4. CASE existing_conversation(db, CONV_TYPE_PRIVATE, uids, 2) # 0
    BY <1>0, <2>1, <2>3, <2>4, AdvancesSame, <1>2 DEF create_conv_prefixes
  <2>5. CASE existing_conversation(db, CONV_TYPE_PRIVATE, uids, 2) = 0
    <3>1. \A n \in 0..2 :
            Advances(db, storage_create_conversation(db, CONV_TYPE_PRIVATE,
                                                     PRIVATE_NAME, uids, n))
      BY <1>0, <1>1, <1>6, <2>2, <2>5, PrivateInvitation
    <3>2. Advances(db, d)
      BY <2>3, <2>5, <3>1 DEF create_conv_prefixes
    <3> QED BY <1>2, <2>1, <3>2
  <2> QED BY <2>4, <2>5
<1>7. CASE \E c \in SeenConversations :
             \E d \in delete_group_prefixes(cli, c) : StartOn(d)
  <2>0. PICK c \in SeenConversations : \E d \in delete_group_prefixes(cli, c) : StartOn(d)
    BY <1>7
  <2>1. PICK d \in delete_group_prefixes(cli, c) : StartOn(d)
    BY <2>0
  <2>2. c \in ConvIds
    BY DEF SeenConversations
  <2>3. \A n \in 1..2 : Advances(db, storage_delete_conversation(db, c, n))
    BY <1>0, <2>2, DeleteAdvances
  <2>4. Advances(db, d)
    BY <1>0, <2>3, AdvancesSame DEF delete_group_prefixes
  <2> QED BY <1>2, <2>1, <2>4
<1> QED BY <1>3, <1>4, <1>5, <1>6, <1>7 DEF CrashInHandler

-----------------------------------------------------------------------------
(* The server starts on an empty database.                                 *)
LEMMA InitIInv == Init => IInv
<1>1. SessionsOK(EmptyDatabase, <<>>)
  BY DEF SessionsOK
<1> QED BY <1>1, EmptyDatabaseOK, EmptyDatabaseIntegrity, NoPacketsType
        DEF Init, IInv, init_clients

(* Every step keeps the invariant.                                         *)
LEMMA NextIInv == IInv /\ [Next]_vars => IInv'
<1> SUFFICES ASSUME IInv, [Next]_vars
             PROVE  IInv'
  OBVIOUS
<1>1. CASE \E fd \in Fds : Connect(fd)
  BY <1>1, ConnectStep
<1>2. CASE \E cli \in DOMAIN clients : Disconnect(cli)
  BY <1>2, DisconnectStep
<1>3. CASE \E cli \in DOMAIN clients : BeforeLogin(cli)
  BY <1>3, BeforeLoginStep
<1>4. CASE \E cli \in DOMAIN clients : AfterLogin(cli)
  BY <1>4, AfterLoginStep
<1>5. CASE \E cli \in DOMAIN clients : CrashInHandler(cli)
  BY <1>5, CrashStep
<1>6. CASE Restart
  BY <1>6, StartStep DEF Restart, IInv
<1>7. CASE UNCHANGED vars
  BY <1>7 DEF vars, IInv
<1> QED BY <1>1, <1>2, <1>3, <1>4, <1>5, <1>6, <1>7 DEF Next

(* The invariant of the server holds in every reachable state.             *)
LEMMA SpecIInv == Spec => []IInv
BY InitIInv, NextIInv, PTL DEF Spec

-----------------------------------------------------------------------------
(* Every table, list node and packet keeps its shape.                      *)
THEOREM TypeCorrect == Spec => []TypeOK
<1>1. IInv => TypeOK
  BY DEF IInv, TypeOK, StorageTypeOK, ClientsTypeOK, SentTypeOK,
         DatabaseOK, SessionsOK, Packets
<1> QED BY <1>1, SpecIInv, PTL

(* Usernames, emails and friend codes each designate one account, however  *)
(* registrations and renames interleave.                                   *)
THEOREM UsersStayUnique == Spec => []UsersUnique
<1>1. IInv => UsersUnique
  BY DEF IInv, Integrity, UsersUnique
<1> QED BY <1>1, SpecIInv, PTL

(* Friendship is mutual, crashes in handle_decide_request included.        *)
THEOREM ContactsStaySymmetric == Spec => []ContactsSymmetric
<1>1. IInv => ContactsSymmetric
  BY DEF IInv, Integrity, ContactsSymmetric
<1> QED BY <1>1, SpecIInv, PTL

(* Two users never share two private chats, however accepts, openings and  *)
(* crashes interleave.                                                     *)
THEOREM PrivateChatsStayUnique == Spec => []OnePrivatePerPair
<1>1. IInv => OnePrivatePerPair
  BY DEF IInv, Integrity, ChatsOK, OnePrivatePerPair
<1> QED BY <1>1, SpecIInv, PTL

(* Nobody joins or manages a private chat.                                 *)
THEOREM PrivateChatsStayClosed == Spec => []PrivateChatsClosed
<1>1. IInv => PrivateChatsClosed
  BY DEF IInv, Integrity, ChatsOK, PrivateChatsClosed
<1> QED BY <1>1, SpecIInv, PTL

(* A group with participants always has exactly one admin.                 *)
THEOREM GroupsKeepOneAdmin == Spec => []GroupHasOneAdmin
<1>1. IInv => GroupHasOneAdmin
  BY DEF IInv, Integrity, ChatsOK, GroupHasOneAdmin
<1> QED BY <1>1, SpecIInv, PTL

(* No crash leaves participants of a conversation that does not exist.     *)
THEOREM NoParticipantIsOrphan == Spec => []NoOrphanParticipants
<1>1. IInv => NoOrphanParticipants
  BY DEF IInv, Integrity, ChatsOK, NoOrphanParticipants
<1> QED BY <1>1, SpecIInv, PTL
=============================================================================
