-------------------------- MODULE ServerStepProofs --------------------------
(***************************************************************************)
(* What a step of the server may do to the tables, and what it may send.   *)
(*                                                                         *)
(* Every handler, cut short by a crash or not, is shown to be a lawful     *)
(* write: it opens, changes or closes one conversation at most, as module  *)
(* Conversations has it, takes a request away only with an answer, and     *)
(* stores texts only under ids that were given out.  And whatever it sends *)
(* suits those who receive it.  The properties of steps follow from that.  *)
(* At last, who must receive something does: as long as conversations fit  *)
(* into the array of participants, the handlers reach everybody in them.   *)
(***************************************************************************)
EXTENDS ServerProofs, ServerRefinement

USE DEF NoRow, CONV_TYPE_PRIVATE, CONV_TYPE_GROUP, ROLE_MEMBER, ROLE_ADMIN,
        Exists, IsParticipant, storage_is_admin

SameRooms(d, e) == \A c \in ConvIds : room_of(e, c) = room_of(d, c)

(* The rows of c become those of a new conversation, unless the server died*)
(* before the first of them.                                               *)
Opens(d, e, c) ==
  /\ room_of(d, c) = Promise!Unborn
  /\ \/ room_of(e, c) \in Promise!Groups
     \/ /\ room_of(e, c) \in Promise!PrivateChats
        /\ \A a, b \in room_of(e, c).members :
             a # b => PrivateConversations(d, a, b) = {}
     \/ room_of(e, c) = Promise!Gone

(* A member comes or goes, or the group does.                              *)
Changes(d, e, c) ==
  /\ room_of(d, c).status = "group"
  /\ \/ \E u \in Uids :
          room_of(e, c) = [room_of(d, c) EXCEPT !.members = @ \cup {u}]
     \/ \E u \in Uids \ room_of(d, c).admins :
          room_of(e, c) = [room_of(d, c) EXCEPT !.members = @ \ {u}]
     \/ room_of(e, c) = Promise!Gone

RoomStep(d, e) ==
  \/ SameRooms(d, e)
  \/ \E c \in ConvIds :
       /\ \A x \in ConvIds : x # c => room_of(e, x) = room_of(d, x)
       /\ Opens(d, e, c) \/ Changes(d, e, c)

(* AcceptIsAllOrRetry of two database values.                              *)
RequestStep(d, e) ==
  \A a, b \in Uids :
    <<a, b>> \in d.requests /\ <<a, b>> \notin e.requests =>
      \/ <<a, b>> \in e.contacts /\ PrivateConversations(e, a, b) # {}
      \/ e.contacts = d.contacts /\ e.conv_seq = d.conv_seq

(* Ids only grow, and belong to a conversation before a message has one.   *)
IdStep(d, e) ==
  /\ d.conv_seq <= e.conv_seq
  /\ \A c \in ConvIds : ~Exists(d, c) /\ Exists(e, c) => c > d.conv_seq
  /\ \A m \in e.messages \ d.messages : m.conv_id <= d.conv_seq

Lawful(d, e) == RoomStep(d, e) /\ RequestStep(d, e) /\ IdStep(d, e)

-----------------------------------------------------------------------------
(* Rooms                                                                   *)

(* An id above the counter is that of an unborn conversation; below it,    *)
(* a conversation without participants is gone.                            *)
LEMMA EmptyRooms ==
  ASSUME NEW d, DatabaseOK(d), ChatsOK(d), NEW c \in ConvIds
  PROVE  /\ c > d.conv_seq => room_of(d, c) = Promise!Unborn
         /\ ~(c > d.conv_seq) /\ participants_of(d, c) = {} =>
              room_of(d, c) = Promise!Gone
<1>1. c > d.conv_seq => participants_of(d, c) = {}
  BY DEF ChatsOK, RowsHaveConversation, UnusedIdsFree, participants_of
<1> QED BY <1>1 DEF room_of, Promise!Unborn, Promise!Gone

(* Whoever has participants has an id below the counter and its type tells *)
(* its status; a group has its admin.                                      *)
LEMMA LivingRooms ==
  ASSUME NEW d, DatabaseOK(d), ChatsOK(d), NEW c \in ConvIds,
         participants_of(d, c) # {}
  PROVE  /\ ~(c > d.conv_seq)
         /\ d.conversations[c].type \in {CONV_TYPE_PRIVATE, CONV_TYPE_GROUP}
         /\ d.conversations[c].type = CONV_TYPE_PRIVATE =>
              /\ room_of(d, c).status = "private"
              /\ \E a, b \in Uids : room_of(d, c) = Promise!Private(a, b)
         /\ d.conversations[c].type = CONV_TYPE_GROUP =>
              \E a \in Uids : /\ storage_is_admin(d, c, a)
                              /\ room_of(d, c) = Promise!Group(a, participants_of(d, c))
<1>0. PICK v \in Uids : IsParticipant(d, c, v)
  BY DEF participants_of
<1>1. Exists(d, c) /\ ~(c > d.conv_seq)
  BY <1>0 DEF ChatsOK, RowsHaveConversation, UnusedIdsFree
<1>2. d.conversations[c].type \in {CONV_TYPE_PRIVATE, CONV_TYPE_GROUP}
  BY <1>1, DatabaseFields DEF ConversationTable
<1>3. CASE d.conversations[c].type = CONV_TYPE_PRIVATE
  <2>1. PICK a, b \in Uids : \A u \in Uids : IsParticipant(d, c, u) => u \in {a, b}
    BY <1>3 DEF ChatsOK, ClosedPrivateChats
  <2>2. \A u \in Uids : ~storage_is_admin(d, c, u)
    BY <1>3 DEF ChatsOK, ClosedPrivateChats
  <2>3. \E x, y \in Uids : participants_of(d, c) = {x, y}
    <3>1. participants_of(d, c) \subseteq {a, b}
      BY <2>1 DEF participants_of
    <3>2. \/ participants_of(d, c) = {a, b}
          \/ participants_of(d, c) = {a, a}
          \/ participants_of(d, c) = {b, b}
      BY <3>1
    <3> QED BY <3>2
  <2>4. {u \in participants_of(d, c) : storage_is_admin(d, c, u)} = {}
    BY <2>2 DEF participants_of
  <2>5. room_of(d, c) = [status |-> "private", admins |-> {},
                         members |-> participants_of(d, c)]
    BY <1>1, <1>3, <2>4 DEF room_of
  <2>6. \E x, y \in Uids : room_of(d, c) = Promise!Private(x, y)
    BY <2>3, <2>5 DEF Promise!Private
  <2> QED BY <1>1, <1>2, <1>3, <2>5, <2>6
<1>4. CASE d.conversations[c].type = CONV_TYPE_GROUP
  <2>1. PICK a \in Uids : \A u \in Uids : storage_is_admin(d, c, u) <=> u = a
    BY <1>0, <1>4 DEF ChatsOK, OneAdmin
  <2>2. {u \in participants_of(d, c) : storage_is_admin(d, c, u)} = {a}
    BY <2>1 DEF participants_of
  <2>3. room_of(d, c) = Promise!Group(a, participants_of(d, c))
    BY <1>1, <1>4, <2>2 DEF room_of, Promise!Group
  <2> QED BY <1>1, <1>2, <1>4, <2>1, <2>3
<1> QED BY <1>2, <1>3, <1>4

(* A group is one with its admin among its members.                        *)
LEMMA GroupRooms ==
  ASSUME NEW r
  PROVE  r \in Promise!Groups <=>
           \E a \in Uids, S \in SUBSET Uids : r = Promise!Group(a, S \cup {a})
BY SMT DEF Promise!Groups

(* Every conversation of the tables is one of the promised kinds.          *)
LEMMA RoomKinds ==
  ASSUME NEW d, DatabaseOK(d), ChatsOK(d), NEW c \in ConvIds
  PROVE  room_of(d, c) \in Promise!Rooms
<1>1. CASE participants_of(d, c) = {}
  BY <1>1, EmptyRooms DEF Promise!Rooms
<1>2. CASE participants_of(d, c) # {}
  <2>1. CASE d.conversations[c].type = CONV_TYPE_PRIVATE
    BY <1>2, <2>1, LivingRooms DEF Promise!Rooms, Promise!PrivateChats
  <2>2. CASE d.conversations[c].type = CONV_TYPE_GROUP
    <3>1. PICK a \in Uids : /\ storage_is_admin(d, c, a)
                            /\ room_of(d, c) = Promise!Group(a, participants_of(d, c))
      BY <1>2, <2>2, LivingRooms
    <3>2. \E S \in SUBSET Uids : room_of(d, c) = Promise!Group(a, S \cup {a})
      <4>1. /\ participants_of(d, c) \in SUBSET Uids
            /\ participants_of(d, c) = participants_of(d, c) \cup {a}
        BY <3>1 DEF participants_of
      <4> QED BY <3>1, <4>1
    <3>3. room_of(d, c) \in Promise!Groups
      BY <3>2, GroupRooms, Zenon
    <3> QED BY <3>3 DEF Promise!Rooms
  <2> QED BY <1>2, <2>1, <2>2, LivingRooms
<1> QED BY <1>1, <1>2

(* The private chats two users share, in the tables and as rooms.          *)
LEMMA SharedRooms ==
  ASSUME NEW d, DatabaseOK(d), ChatsOK(d), NEW a \in Uids, NEW b \in Uids,
         NEW c \in ConvIds
  PROVE  (room_of(d, c).status = "private" /\ {a, b} \subseteq room_of(d, c).members)
           <=> c \in PrivateConversations(d, a, b)
<1>1. room_of(d, c).members = participants_of(d, c)
  BY DEF room_of
<1>2. CASE participants_of(d, c) = {}
  BY <1>1, <1>2 DEF PrivateConversations, participants_of
<1>3. CASE participants_of(d, c) # {}
  <2>1. room_of(d, c).status = "private" <=> d.conversations[c].type = CONV_TYPE_PRIVATE
    BY <1>3, LivingRooms DEF room_of
  <2> QED BY <1>1, <2>1 DEF PrivateConversations, participants_of
<1> QED BY <1>2, <1>3

-----------------------------------------------------------------------------
(* Writes                                                                  *)

(* The tables that conversations are made of are the same, names aside.    *)
SameTables(d, e) ==
  /\ e.conv_seq = d.conv_seq
  /\ e.participants = d.participants
  /\ \A c \in ConvIds : e.conversations[c].type = d.conversations[c].type

(* Nothing else counts for what clients see of a conversation's life.      *)
LEMMA SameTablesSameRooms ==
  ASSUME NEW d, NEW e, SameTables(d, e)
  PROVE  /\ SameRooms(d, e)
         /\ \A a, b \in Uids :
              PrivateConversations(e, a, b) = PrivateConversations(d, a, b)
<1>1. \A c \in ConvIds : room_of(e, c) = room_of(d, c)
  BY DEF SameTables, room_of, participants_of
<1>2. \A a, b \in Uids :
        PrivateConversations(e, a, b) = PrivateConversations(d, a, b)
  BY DEF SameTables, PrivateConversations
<1> QED BY <1>1, <1>2 DEF SameRooms

(* A write to other tables that takes no request away.                     *)
LEMMA QuietLawful ==
  ASSUME NEW d, DatabaseOK(d), NEW e, SameTables(d, e), d.requests \subseteq e.requests,
         \A m \in e.messages \ d.messages : m.conv_id <= d.conv_seq
  PROVE  Lawful(d, e)
<1>1. RoomStep(d, e)
  BY SameTablesSameRooms DEF RoomStep
<1>2. RequestStep(d, e)
  BY DEF RequestStep
<1>3. IdStep(d, e)
  BY DatabaseFields DEF IdStep, SameTables
<1> QED BY <1>1, <1>2, <1>3 DEF Lawful

(* The conversation storage_create_conversation makes, at any of its rows, *)
(* was unborn and is of its type as soon as it has a participant.          *)
LEMMA CreatedRoom ==
  ASSUME NEW d, DatabaseOK(d), ChatsOK(d), NEW e, DatabaseOK(e), ChatsOK(e),
         NEW type, NEW name, NEW uids, NEW n, Created(d, e, type, name, uids, n)
  PROVE  LET c == d.conv_seq + 1
         IN  /\ c \in ConvIds
             /\ room_of(d, c) = Promise!Unborn
             /\ \A x \in ConvIds : x # c => room_of(e, x) = room_of(d, x)
             /\ type = CONV_TYPE_GROUP =>
                  room_of(e, c) \in Promise!Groups \cup {Promise!Gone}
             /\ type = CONV_TYPE_PRIVATE =>
                  room_of(e, c) \in Promise!PrivateChats \cup {Promise!Gone}
<1> DEFINE c == d.conv_seq + 1
<1>1. /\ c \in ConvIds /\ c > d.conv_seq
      /\ e.conv_seq = c /\ ~(c > e.conv_seq)
      /\ e.conversations[c].type = type
      /\ \A x \in ConvIds : x # c =>
           /\ e.conversations[x] = d.conversations[x]
           /\ e.participants[x] = d.participants[x]
  BY CreatedParts, DatabaseFields
<1>2. room_of(d, c) = Promise!Unborn
  BY <1>1, EmptyRooms
<1>3. \A x \in ConvIds : x # c => room_of(e, x) = room_of(d, x)
  <2>1. \A x \in ConvIds : x # c => (x > e.conv_seq <=> x > d.conv_seq)
    BY <1>1, DatabaseFields DEF ConvIds
  <2> HIDE DEF c
  <2>2. \A x \in ConvIds : x # c => participants_of(e, x) = participants_of(d, x)
    BY <1>1 DEF participants_of
  <2> QED BY <1>1, <2>1, <2>2 DEF room_of
<1> HIDE DEF c
<1>4. CASE participants_of(e, c) = {}
  <2>1. room_of(e, c) = Promise!Gone
    BY <1>1, <1>4, EmptyRooms
  <2> QED BY <1>1, <1>2, <1>3, <2>1 DEF c
<1>5. CASE participants_of(e, c) # {}
  <2>1. type = CONV_TYPE_GROUP => room_of(e, c) \in Promise!Groups
    <3>1. room_of(e, c) \in Promise!Rooms
      BY <1>1, RoomKinds
    <3>2. type = CONV_TYPE_GROUP => room_of(e, c).status = "group"
      BY <1>1, <1>5 DEF room_of
    <3>3. \A r \in Promise!PrivateChats \cup {Promise!Unborn, Promise!Gone} :
            r.status # "group"
      BY DEF Promise!PrivateChats, Promise!Private, Promise!Unborn, Promise!Gone
    <3> QED BY <3>1, <3>2, <3>3 DEF Promise!Rooms
  <2>2. type = CONV_TYPE_PRIVATE => room_of(e, c) \in Promise!PrivateChats
    BY <1>1, <1>5, LivingRooms DEF Promise!PrivateChats
  <2> QED BY <1>1, <1>2, <1>3, <2>1, <2>2 DEF c
<1> QED BY <1>4, <1>5

(* Requests, ids and messages of a creation.                               *)
LEMMA CreatedIds ==
  ASSUME NEW d, DatabaseOK(d), ChatsOK(d), NEW e,
         NEW type, NEW name, NEW uids, NEW n, Created(d, e, type, name, uids, n)
  PROVE  RequestStep(d, e) /\ IdStep(d, e)
<1>1. d.conv_seq \in Nat /\ e.conv_seq = d.conv_seq + 1
  BY DatabaseFields DEF Created
<1>2. \A c \in ConvIds : ~Exists(d, c) /\ Exists(e, c) => c = d.conv_seq + 1
  BY CreatedParts
<1>3. e.requests = d.requests /\ e.messages = d.messages
  BY DEF Created
<1> QED BY <1>1, <1>2, <1>3 DEF RequestStep, IdStep

(* MSG_CREATE_CONV for a group, up to any participant row.                 *)
LEMMA GroupLawful ==
  ASSUME NEW d, DatabaseOK(d), ChatsOK(d), d.conv_seq < MaxConvs,
         NEW name \in Names, NEW uids, uids[1] \in Uids, NEW n \in Nat
  PROVE  Lawful(d, storage_create_conversation(d, CONV_TYPE_GROUP, name, uids, n))
<1> DEFINE e == storage_create_conversation(d, CONV_TYPE_GROUP, name, uids, n)
           c == d.conv_seq + 1
<1>1. Created(d, e, CONV_TYPE_GROUP, name, uids, n) /\ Grows(d, e)
  BY CreateConversationFields, CreateConversationType
<1> HIDE DEF e
<1>2. DatabaseOK(e) /\ ChatsOK(e)
  BY <1>1, CreateGroupChats DEF Grows
<1>3. /\ c \in ConvIds
      /\ \A x \in ConvIds : x # c => room_of(e, x) = room_of(d, x)
      /\ room_of(d, c) = Promise!Unborn
      /\ room_of(e, c) \in Promise!Groups \cup {Promise!Gone}
  BY <1>1, <1>2, CreatedRoom
<1> HIDE DEF c
<1>4. RoomStep(d, e)
  BY <1>3 DEF RoomStep, Opens
<1> QED BY <1>1, <1>4, CreatedIds DEF Lawful, e

(* A private chat between users who share none, up to any row.             *)
LEMMA PrivateRoom ==
  ASSUME NEW d, DatabaseOK(d), ChatsOK(d), NEW e, DatabaseOK(e),
         NEW name, NEW a \in Uids, NEW b \in Uids, NEW n \in 0..2,
         PrivateConversations(d, a, b) = {},
         Created(d, e, CONV_TYPE_PRIVATE, name, <<a, b>>, n)
  PROVE  RoomStep(d, e)
<1> DEFINE c == d.conv_seq + 1
<1>1. /\ c \in ConvIds
      /\ \A x \in ConvIds : x # c => room_of(e, x) = room_of(d, x)
      /\ room_of(d, c) = Promise!Unborn
      /\ room_of(e, c) \in Promise!PrivateChats \cup {Promise!Gone}
  BY CreatedRoom, CreatePrivateChats
<1>2. room_of(e, c).members \subseteq {a, b}
  <2>1. \A u \in Uids : IsParticipant(e, c, u) => \E i \in 1..n : <<a, b>>[i] = u
    BY CreatedParts
  <2>2. \A i \in 1..n : <<a, b>>[i] \in {a, b}
    OBVIOUS
  <2> QED BY <2>1, <2>2 DEF room_of, participants_of
<1>3. \A x, y \in room_of(e, c).members : x # y => PrivateConversations(d, x, y) = {}
  BY <1>2 DEF PrivateConversations
<1> HIDE DEF c
<1> QED BY <1>1, <1>3 DEF RoomStep, Opens

(* MSG_CREATE_CONV for a private chat.                                     *)
LEMMA PrivateLawful ==
  ASSUME NEW d, DatabaseOK(d), ChatsOK(d), d.conv_seq < MaxConvs,
         NEW a \in Uids, NEW b \in Uids, NEW n \in 0..2,
         PrivateConversations(d, a, b) = {}
  PROVE  Lawful(d, storage_create_conversation(d, CONV_TYPE_PRIVATE, PRIVATE_NAME,
                                               <<a, b>>, n))
<1> DEFINE e == storage_create_conversation(d, CONV_TYPE_PRIVATE, PRIVATE_NAME,
                                            <<a, b>>, n)
<1>1. Created(d, e, CONV_TYPE_PRIVATE, PRIVATE_NAME, <<a, b>>, n) /\ Grows(d, e)
  BY CreateConversationFields, CreateConversationType
<1> HIDE DEF e
<1>2. RoomStep(d, e)
  BY <1>1, PrivateRoom DEF Grows
<1> QED BY <1>1, <1>2, CreatedIds DEF Lawful, e

(* A room whose admin is known.                                            *)
LEMMA AdminRoom ==
  ASSUME NEW d, DatabaseOK(d), ChatsOK(d), NEW c \in ConvIds, NEW me \in Uids,
         storage_is_admin(d, c, me)
  PROVE  /\ me \in participants_of(d, c)
         /\ ~(c > d.conv_seq)
         /\ d.conversations[c].type = CONV_TYPE_GROUP
         /\ room_of(d, c) = Promise!Group(me, participants_of(d, c))
<1>1. me \in participants_of(d, c)
  BY DEF participants_of
<1>2. /\ d.conversations[c].type = CONV_TYPE_GROUP
      /\ \A v \in Uids : storage_is_admin(d, c, v) <=> v = me
  BY AdminRunsGroup
<1>3. PICK a \in Uids : /\ storage_is_admin(d, c, a)
                        /\ room_of(d, c) = Promise!Group(a, participants_of(d, c))
  BY <1>1, <1>2, LivingRooms
<1>4. a = me
  BY <1>2, <1>3
<1> QED BY <1>1, <1>2, <1>3, <1>4, LivingRooms

(* What MSG_ADD_MEMBER and MSG_KICK_MEMBER change: one row of participants,*)
(* not the admin's.                                                        *)
LEMMA MemberTables ==
  ASSUME NEW d, DatabaseOK(d), NEW c \in ConvIds, NEW u \in Uids, NEW role,
         NEW e, e = [d EXCEPT !.participants[c][u] = role]
  PROVE  /\ e.requests = d.requests /\ e.messages = d.messages
         /\ e.conv_seq = d.conv_seq /\ e.conversations = d.conversations
         /\ \A x \in ConvIds : x # c => e.participants[x] = d.participants[x]
         /\ \A v \in Uids : e.participants[c][v] = IF v = u THEN role
                                                      ELSE d.participants[c][v]
<1>1. d.participants \in ParticipantTable
  BY DatabaseFields
<1>2. /\ e.requests = d.requests /\ e.messages = d.messages
      /\ e.conv_seq = d.conv_seq /\ e.conversations = d.conversations
      /\ e.participants = [d.participants EXCEPT ![c][u] = role]
  BY DEF DatabaseOK, Database
<1> QED BY <1>1, <1>2 DEF ParticipantTable

(* A room of which one row changed, which is not the admin's.              *)
LEMMA MemberLawful ==
  ASSUME NEW d, DatabaseOK(d), ChatsOK(d), NEW c \in ConvIds, NEW me \in Uids,
         storage_is_admin(d, c, me), NEW u \in Uids, u # me,
         NEW role \in {NoRow, ROLE_MEMBER},
         NEW e, e = [d EXCEPT !.participants[c][u] = role], DatabaseOK(e), ChatsOK(e)
  PROVE  Lawful(d, e)
<1>1. /\ e.requests = d.requests /\ e.messages = d.messages
      /\ e.conv_seq = d.conv_seq /\ e.conversations = d.conversations
      /\ \A x \in ConvIds : x # c => e.participants[x] = d.participants[x]
      /\ \A v \in Uids : e.participants[c][v] = IF v = u THEN role
                                                   ELSE d.participants[c][v]
  BY MemberTables
<1>2. \A x \in ConvIds : x # c => room_of(e, x) = room_of(d, x)
  BY <1>1 DEF room_of, participants_of
<1>3. storage_is_admin(e, c, me)
  BY <1>1
<1>4. /\ room_of(d, c) = Promise!Group(me, participants_of(d, c))
      /\ room_of(e, c) = Promise!Group(me, participants_of(e, c))
  BY <1>3, AdminRoom
<1>5. participants_of(e, c) = IF role = NoRow THEN participants_of(d, c) \ {u}
                                              ELSE participants_of(d, c) \cup {u}
  BY <1>1 DEF participants_of
<1>6. Changes(d, e, c)
  <2>1. /\ room_of(d, c).status = "group" /\ u \in Uids \ room_of(d, c).admins
        /\ room_of(d, c).members = participants_of(d, c)
    BY <1>4 DEF Promise!Group
  <2>2. \A P, S : [Promise!Group(me, P) EXCEPT !.members = S] = Promise!Group(me, S)
    BY DEF Promise!Group
  <2>3. \A S : [room_of(d, c) EXCEPT !.members = S] = Promise!Group(me, S)
    BY <1>4, <2>2
  <2>4. \/ room_of(e, c) = [room_of(d, c) EXCEPT !.members = room_of(d, c).members \cup {u}]
        \/ room_of(e, c) = [room_of(d, c) EXCEPT !.members = room_of(d, c).members \ {u}]
    BY <1>4, <1>5, <2>1, <2>3
  <2> QED BY <2>1, <2>4 DEF Changes
<1>7. RoomStep(d, e)
  BY <1>2, <1>6 DEF RoomStep
<1>8. RequestStep(d, e) /\ IdStep(d, e)
  BY <1>1, DatabaseFields DEF RequestStep, IdStep
<1> QED BY <1>7, <1>8 DEF Lawful

(* MSG_ADD_MEMBER                                                          *)
LEMMA AddLawful ==
  ASSUME NEW d, DatabaseOK(d), ChatsOK(d), NEW c \in ConvIds, NEW me \in Uids,
         storage_is_admin(d, c, me), NEW u \in Uids
  PROVE  Lawful(d, storage_add_participant(d, c, u, ROLE_MEMBER))
<1> DEFINE e == storage_add_participant(d, c, u, ROLE_MEMBER)
<1>1. DatabaseOK(e) /\ ChatsOK(e)
  BY AddParticipantType, AddParticipantChats DEF Grows
<1>2. CASE IsParticipant(d, c, u)
  <2>1. e = d
    BY <1>2 DEF storage_add_participant
  <2>2. SameTables(d, d)
    BY DEF SameTables
  <2> QED BY <2>1, <2>2, QuietLawful
<1>3. CASE ~IsParticipant(d, c, u)
  <2>1. e = [d EXCEPT !.participants[c][u] = ROLE_MEMBER] /\ u # me
    BY <1>3 DEF storage_add_participant
  <2> HIDE DEF e
  <2>2. Lawful(d, e)
    BY <1>1, <2>1, MemberLawful
  <2> QED BY <2>2 DEF e
<1> QED BY <1>2, <1>3

(* MSG_KICK_MEMBER                                                         *)
LEMMA KickLawful ==
  ASSUME NEW d, DatabaseOK(d), ChatsOK(d), NEW c \in ConvIds, NEW me \in Uids,
         storage_is_admin(d, c, me), NEW u \in Uids, u # me
  PROVE  Lawful(d, storage_remove_participant(d, c, u))
<1> DEFINE e == storage_remove_participant(d, c, u)
<1>1. DatabaseOK(e) /\ ChatsOK(e)
  BY RemoveParticipantType, RemoveParticipantChats DEF Grows
<1>2. e = [d EXCEPT !.participants[c][u] = NoRow]
  BY DEF storage_remove_participant
<1> HIDE DEF e
<1>3. Lawful(d, e)
  BY <1>1, <1>2, MemberLawful
<1> QED BY <1>3 DEF e

(* MSG_DELETE_GROUP, up to any of its statements.                          *)
LEMMA DeleteLawful ==
  ASSUME NEW d, DatabaseOK(d), ChatsOK(d), NEW c \in ConvIds, NEW me \in Uids,
         storage_is_admin(d, c, me), NEW n \in 1..3
  PROVE  Lawful(d, storage_delete_conversation(d, c, n))
<1> DEFINE e == storage_delete_conversation(d, c, n)
<1>1. /\ e.requests = d.requests /\ e.conv_seq = d.conv_seq
      /\ e.messages \subseteq d.messages
      /\ e.participants =
           IF n >= 2 THEN [d.participants EXCEPT ![c] = [u \in Uids |-> NoRow]]
                     ELSE d.participants
      /\ e.conversations =
           IF n >= 3 THEN [d.conversations EXCEPT ![c] = NoConversation]
                     ELSE d.conversations
  BY DeleteConversationFields
<1>2. DatabaseOK(e) /\ ChatsOK(e)
  BY DeleteConversationType, DeleteConversationChats DEF Grows
<1> HIDE DEF e
<1>3. CASE n = 1
  <2>1. SameTables(d, e)
    BY <1>1, <1>3 DEF SameTables
  <2>2. Lawful(d, e)
    BY <1>1, <2>1, QuietLawful
  <2> QED BY <2>2 DEF e
<1>4. CASE n \in 2..3
  <2>1. /\ d.participants \in ParticipantTable /\ d.conversations \in ConversationTable
        /\ d.conv_seq \in Nat
    BY DatabaseFields
  <2>2. /\ participants_of(e, c) = {}
        /\ \A x \in ConvIds : x # c =>
             /\ e.participants[x] = d.participants[x]
             /\ e.conversations[x] = d.conversations[x]
        /\ ~Exists(e, c) \/ e.conversations[c] = d.conversations[c]
    BY <1>1, <1>4, <2>1
    DEF participants_of, ParticipantTable, ConversationTable, NoConversation
  <2>3. ASSUME NEW x \in ConvIds, x # c
        PROVE  room_of(e, x) = room_of(d, x)
    <3>1. e.participants[x] = d.participants[x] /\ e.conversations[x] = d.conversations[x]
      BY <2>2, <2>3
    <3>2. participants_of(e, x) = participants_of(d, x)
      BY <3>1 DEF participants_of
    <3>3. e.conv_seq = d.conv_seq
      BY <1>1
    <3> QED BY <3>1, <3>2, <3>3 DEF room_of
  <2>4. room_of(e, c) = Promise!Gone
    BY <1>1, <1>2, <2>2, AdminRoom, EmptyRooms
  <2>5. room_of(d, c).status = "group"
    BY AdminRoom DEF Promise!Group
  <2>6. RoomStep(d, e)
    BY <2>3, <2>4, <2>5 DEF RoomStep, Changes
  <2>7. RequestStep(d, e) /\ IdStep(d, e)
    BY <1>1, <2>1, <2>2 DEF RequestStep, IdStep
  <2> QED BY <2>6, <2>7 DEF Lawful, e
<1> QED BY <1>3, <1>4

-----------------------------------------------------------------------------
(* Answering a request                                                     *)

(* Tables that count for nothing may change before and after.              *)
LEMMA RoomStepBetween ==
  ASSUME NEW d, NEW f, NEW e, NEW g,
         SameTables(d, f), RoomStep(f, e), SameTables(e, g)
  PROVE  RoomStep(d, g)
<1>1. /\ \A c \in ConvIds : room_of(f, c) = room_of(d, c)
      /\ \A c \in ConvIds : room_of(g, c) = room_of(e, c)
  BY SameTablesSameRooms DEF SameRooms
<1>2. \A a, b \in Uids : PrivateConversations(f, a, b) = PrivateConversations(d, a, b)
  BY SameTablesSameRooms
<1>3. CASE SameRooms(f, e)
  BY <1>1, <1>3 DEF SameRooms, RoomStep
<1>4. CASE ~SameRooms(f, e)
  <2>1. PICK c \in ConvIds :
          /\ \A x \in ConvIds : x # c => room_of(e, x) = room_of(f, x)
          /\ Opens(f, e, c) \/ Changes(f, e, c)
    BY <1>4 DEF RoomStep
  <2>2. \A x \in ConvIds : x # c => room_of(g, x) = room_of(d, x)
    BY <1>1, <2>1
  <2>3. Changes(f, e, c) => Changes(d, g, c)
    BY <1>1 DEF Changes
  <2>4. Opens(f, e, c) => Opens(d, g, c)
    <3>1. room_of(e, c).members \subseteq Uids
      BY DEF room_of, participants_of
    <3> QED BY <1>1, <1>2, <3>1 DEF Opens
  <2> QED BY <2>1, <2>2, <2>3, <2>4 DEF RoomStep
<1> QED BY <1>3, <1>4

(* What the statements before the removal of the request write.            *)
LEMMA ChatCreatedTables ==
  ASSUME NEW d, DatabaseOK(d), Integrity(d), NEW a \in Uids, NEW b \in Uids, a # b,
         NEW n \in 0..2,
         MustCreateChat(befriended(d, a, b), a, b) => d.conv_seq < MaxConvs
  PROVE  LET e == chat_created(d, a, b, n)
         IN  /\ RoomStep(d, e) /\ IdStep(d, e)
             /\ e.requests = d.requests
             /\ <<b, a>> \in e.contacts
             /\ n = 2 => PrivateConversations(e, b, a) # {}
<1> DEFINE f == befriended(d, a, b)
           e == chat_created(d, a, b, n)
<1>1. DatabaseOK(f) /\ Integrity(f)
  BY DecideAdvances DEF Advances, Grows
<1>2. /\ f.conversations = d.conversations /\ f.participants = d.participants
      /\ f.conv_seq = d.conv_seq /\ f.messages = d.messages
      /\ f.requests = d.requests
  BY DEF befriended, storage_add_friendship, DatabaseOK, Database
<1>3. <<b, a>> \in f.contacts
  BY DEF befriended, storage_add_friendship, DatabaseOK, Database, Integrity, MutualContacts
<1>4. MustCreateChat(f, a, b) <=> PrivateConversations(f, a, b) = {}
  BY DEF MustCreateChat
<1>5. e = IF MustCreateChat(f, a, b)
            THEN storage_create_conversation(f, CONV_TYPE_PRIVATE, PRIVATE_NAME,
                                             <<a, b>>, n)
            ELSE f
  BY DEF chat_created
<1> HIDE DEF f, e
<1>6. SameTables(d, f) /\ \A g : SameTables(g, g)
  BY <1>2 DEF SameTables
<1>7. CASE MustCreateChat(f, a, b)
  <2>1. Created(f, e, CONV_TYPE_PRIVATE, PRIVATE_NAME, <<a, b>>, n) /\ Grows(f, e)
    BY <1>1, <1>2, <1>5, <1>7, CreateConversationFields, CreateConversationType DEF f
  <2>2. RoomStep(d, e)
    BY <1>1, <1>4, <1>6, <1>7, <2>1, PrivateRoom, RoomStepBetween DEF Integrity, Grows
  <2>3. IdStep(d, e)
    BY <1>1, <1>2, <2>1, CreatedIds DEF IdStep, Integrity
  <2>4. e.requests = d.requests /\ <<b, a>> \in e.contacts
    BY <1>2, <1>3, <2>1 DEF Created
  <2>5. ASSUME n = 2
        PROVE  PrivateConversations(e, b, a) # {}
    <3> DEFINE c == f.conv_seq + 1
    <3>1. /\ c \in ConvIds /\ e.conversations[c].type = CONV_TYPE_PRIVATE
          /\ \A u \in Uids : IsParticipant(e, c, u) <=> \E i \in 1..n : <<a, b>>[i] = u
      BY <1>1, <2>1, CreatedParts DEF Integrity
    <3>2. 1 \in 1..n /\ 2 \in 1..n /\ <<a, b>>[1] = a /\ <<a, b>>[2] = b
      BY <2>5
    <3>3. IsParticipant(e, c, a) /\ IsParticipant(e, c, b)
      BY <3>1, <3>2
    <3> HIDE DEF c
    <3>4. c \in PrivateConversations(e, b, a)
      BY <3>1, <3>3 DEF PrivateConversations
    <3> QED BY <3>4
  <2> QED BY <2>2, <2>3, <2>4, <2>5 DEF e
<1>8. CASE ~MustCreateChat(f, a, b)
  <2>1. e = f
    BY <1>5, <1>8
  <2>2. RoomStep(d, e)
    BY <1>6, <2>1, SameTablesSameRooms DEF RoomStep
  <2>3. IdStep(d, e)
    BY <1>2, <2>1, DatabaseFields DEF IdStep
  <2>4. PrivateConversations(e, b, a) # {}
    BY <1>4, <1>8, <2>1 DEF PrivateConversations
  <2> QED BY <1>2, <1>3, <2>1, <2>2, <2>3, <2>4 DEF e
<1> QED BY <1>7, <1>8

(* MSG_DECIDE_REQUEST                                                      *)
LEMMA DecidedLawful ==
  ASSUME NEW d, DatabaseOK(d), Integrity(d), NEW a \in Uids, NEW b \in Uids, a # b,
         NEW accepted \in BOOLEAN,
         accepted /\ MustCreateChat(befriended(d, a, b), a, b) => d.conv_seq < MaxConvs
  PROVE  Lawful(d, decided(d, a, b, accepted))
<1> DEFINE e == IF accepted THEN chat_created(d, a, b, 2) ELSE d
           g == decided(d, a, b, accepted)
<1>1. DatabaseOK(e)
  BY DecideAdvances DEF Advances, Grows
<1>2. /\ RoomStep(d, e) /\ IdStep(d, e)
      /\ e.requests = d.requests
      /\ accepted => <<b, a>> \in e.contacts /\ PrivateConversations(e, b, a) # {}
      /\ ~accepted => e = d
  <2>1. SameTables(d, d) /\ IdStep(d, d)
    BY DatabaseFields DEF SameTables, IdStep
  <2> QED BY <2>1, ChatCreatedTables, SameTablesSameRooms DEF RoomStep
<1>3. g = [e EXCEPT !.requests = @ \ {<<b, a>>}]
  BY DEF decided, storage_remove_request
<1> HIDE DEF e, g
<1>4. /\ g.conversations = e.conversations /\ g.participants = e.participants
      /\ g.conv_seq = e.conv_seq /\ g.messages = e.messages
      /\ g.contacts = e.contacts /\ g.requests = e.requests \ {<<b, a>>}
  BY <1>1, <1>3 DEF DatabaseOK, Database
<1>5. SameTables(d, d) /\ SameTables(e, g)
  BY <1>4 DEF SameTables
<1>6. RoomStep(d, g)
  BY <1>2, <1>5, RoomStepBetween
<1>7. IdStep(d, g)
  BY <1>2, <1>4 DEF IdStep
<1>8. RequestStep(d, g)
  <2> SUFFICES ASSUME NEW x \in Uids, NEW y \in Uids,
                      <<x, y>> \in d.requests, <<x, y>> \notin g.requests
               PROVE  \/ <<x, y>> \in g.contacts /\ PrivateConversations(g, x, y) # {}
                      \/ g.contacts = d.contacts /\ g.conv_seq = d.conv_seq
    BY DEF RequestStep
  <2>1. x = b /\ y = a
    BY <1>2, <1>4
  <2>2. PrivateConversations(g, b, a) = PrivateConversations(e, b, a)
    BY <1>5, SameTablesSameRooms
  <2> QED BY <1>2, <1>4, <2>1, <2>2
<1> QED BY <1>6, <1>7, <1>8 DEF Lawful, g

-----------------------------------------------------------------------------
(* Steps                                                                   *)

(* Writes to accounts, requests, contacts and messages, and a new name.    *)
LEMMA OtherWritesLawful ==
  ASSUME NEW d, DatabaseOK(d)
  PROVE  /\ Lawful(d, d)
         /\ \A email, username, password, code, salt :
              Lawful(d, storage_register_user(d, email, username, password, code, salt))
         /\ \A uid, name : Lawful(d, storage_update_name(d, uid, name))
         /\ \A uid, name, password, salt :
              Lawful(d, storage_update_user(d, uid, name, password, salt))
         /\ \A key, uid, text, now : \A c \in ConvIds :
              c <= d.conv_seq => Lawful(d, storage_log_message(d, key, c, uid, text, now))
         /\ \A c \in ConvIds : \A name : Lawful(d, storage_update_group(d, c, name))
         /\ \A a, b : /\ Lawful(d, storage_add_request(d, a, b))
                      /\ Lawful(d, befriended(d, a, b))
<1> DEFINE Quiet(e) == /\ e.conversations = d.conversations
                       /\ e.participants = d.participants
                       /\ e.conv_seq = d.conv_seq
                       /\ d.requests \subseteq e.requests
                       /\ \A m \in e.messages \ d.messages : m.conv_id <= d.conv_seq
<1>1. ASSUME NEW e, Quiet(e)
      PROVE  Lawful(d, e)
  <2>1. SameTables(d, e)
    BY <1>1 DEF SameTables
  <2> QED BY <1>1, <2>1, QuietLawful
<1> USE DEF DatabaseOK, Database
<1>2. Quiet(d)
  OBVIOUS
<1>3. \A email, username, password, code, salt :
        Quiet(storage_register_user(d, email, username, password, code, salt))
  BY DEF storage_register_user
<1>4. \A uid, name : Quiet(storage_update_name(d, uid, name))
  BY DEF storage_update_name, update_username
<1>5. \A uid, name, password, salt :
        Quiet(storage_update_user(d, uid, name, password, salt))
  BY DEF storage_update_user, storage_update_name, update_username, update_password
<1>6. \A key, uid, text, now : \A c \in ConvIds :
        c <= d.conv_seq => Quiet(storage_log_message(d, key, c, uid, text, now))
  BY DEF storage_log_message
<1>7. \A a, b : Quiet(storage_add_request(d, a, b)) /\ Quiet(befriended(d, a, b))
  BY DEF storage_add_request, befriended, storage_add_friendship
<1>8. ASSUME NEW c \in ConvIds, NEW name
      PROVE  Lawful(d, storage_update_group(d, c, name))
  <2> DEFINE e == storage_update_group(d, c, name)
  <2>1. /\ e.participants = d.participants /\ e.conv_seq = d.conv_seq
        /\ e.requests = d.requests /\ e.messages = d.messages
        /\ \/ e.conversations = d.conversations
           \/ e.conversations = [d.conversations EXCEPT ![c].name = name]
    BY DEF storage_update_group
  <2> HIDE DEF e
  <2>2. ASSUME NEW x \in ConvIds
        PROVE  e.conversations[x].type = d.conversations[x].type
    <3>1. d.conversations \in ConversationTable
      BY DatabaseFields
    <3>2. CASE e.conversations = d.conversations
      BY <3>2
    <3>3. CASE e.conversations = [d.conversations EXCEPT ![c].name = name]
      <4>1. CASE x = c
        BY <3>1, <3>3, <4>1 DEF ConversationTable
      <4>2. CASE x # c
        BY <3>1, <3>3, <4>2 DEF ConversationTable
      <4> QED BY <4>1, <4>2
    <3> QED BY <2>1, <3>2, <3>3
  <2>3. SameTables(d, e)
    BY <2>1, <2>2 DEF SameTables
  <2>4. Lawful(d, e)
    BY <2>1, <2>3, QuietLawful
  <2> QED BY <2>4 DEF e
<1> HIDE DEF Quiet, DatabaseOK
<1> QED BY <1>1, <1>2, <1>3, <1>4, <1>5, <1>6, <1>7, <1>8

(* A handler that runs to its end.                                         *)
LEMMA HandlerLawful ==
  ASSUME IInv, NEW cli \in DOMAIN clients, AfterLogin(cli)
  PROVE  Lawful(db, db')
<1> DEFINE me == clients[cli].uid
<1>0. DatabaseOK(db) /\ Integrity(db) /\ ChatsOK(db) /\ clients[cli].is_online
  BY DEF IInv, AfterLogin, Integrity
<1>1. me \in Uids /\ Registered(db) \subseteq Uids
  BY <1>0, OnlineClient, RegisteredUids
<1>2. CASE \E form \in SettingsForms, s \in Salts :
             handle_update_user(cli, form[1], form[2], s)
  BY <1>0, <1>2, OtherWritesLawful DEF handle_update_user
<1>3. CASE \E c \in SeenConversations, t \in Texts, now \in Times :
             handle_send_text(cli, c, t, now)
  BY <1>0, <1>3, OtherWritesLawful DEF handle_send_text, SeenConversations
<1>4. CASE \E name \in Names, uids \in GroupInvitations(me) :
             handle_create_conv(cli, CONV_TYPE_GROUP, name, uids)
  <2>1. PICK name \in Names, uids \in GroupInvitations(me) :
          handle_create_conv(cli, CONV_TYPE_GROUP, name, uids)
    BY <1>4
  <2>2. participants_count(uids) \in Nat /\ uids[1] \in Uids
    BY <1>0, InvitedAreUids
  <2>3. \/ db' = db
        \/ /\ db.conv_seq < MaxConvs
           /\ db' = storage_create_conversation(db, CONV_TYPE_GROUP, name, uids,
                                                participants_count(uids))
    BY <2>1 DEF handle_create_conv
  <2> QED BY <1>0, <2>2, <2>3, GroupLawful, OtherWritesLawful
<1>5. CASE \E uids \in PrivateInvitations(me) :
             handle_create_conv(cli, CONV_TYPE_PRIVATE, PRIVATE_NAME, uids)
  <2>1. PICK uids \in PrivateInvitations(me) :
          handle_create_conv(cli, CONV_TYPE_PRIVATE, PRIVATE_NAME, uids)
    BY <1>5
  <2>2. PICK u \in Uids : uids = <<me, u>>
    BY <1>0, InvitedAreUids
  <2>3. participants_count(uids) = 2 /\ uids[1] = me /\ uids[2] = u
    BY <2>2, PairFits, BoundsAreNaturals
    DEF PairFits, BoundsAreNaturals, participants_count
  <2> HIDE DEF me
  <2>4. \/ db' = db
        \/ /\ existing_conversation(db, CONV_TYPE_PRIVATE, uids, 2) = 0
           /\ db.conv_seq < MaxConvs
           /\ db' = storage_create_conversation(db, CONV_TYPE_PRIVATE, PRIVATE_NAME,
                                                uids, 2)
    BY <2>1, <2>3 DEF handle_create_conv
  <2>5. existing_conversation(db, CONV_TYPE_PRIVATE, uids, 2) = 0 =>
          PrivateConversations(db, me, u) = {}
    BY <2>3, ExistingConversation
  <2> QED BY <1>0, <1>1, <2>2, <2>4, <2>5, PrivateLawful, OtherWritesLawful
<1>6. CASE \E c \in SeenConversations, name \in Names : handle_update_group(cli, c, name)
  BY <1>0, <1>6, OtherWritesLawful DEF handle_update_group, SeenConversations
<1>7. CASE \E c \in SeenConversations, code \in TypedCodes :
             handle_add_member(cli, c, code)
  <2>1. PICK c \in ConvIds, code \in TypedCodes : handle_add_member(cli, c, code)
    BY <1>7 DEF SeenConversations
  <2>2. storage_get_uid_by_code(db, code) \subseteq Uids
    BY <1>1 DEF storage_get_uid_by_code
  <2>3. \/ db' = db
        \/ /\ storage_is_admin(db, c, me)
           /\ \E u \in Uids : db' = storage_add_participant(db, c, u, ROLE_MEMBER)
    BY <2>1, <2>2 DEF handle_add_member
  <2> QED BY <1>0, <1>1, <2>3, AddLawful, OtherWritesLawful
<1>8. CASE \E c \in SeenConversations, u \in Registered(db) : handle_kick_member(cli, c, u)
  <2>1. PICK c \in ConvIds, u \in Uids : handle_kick_member(cli, c, u)
    BY <1>1, <1>8 DEF SeenConversations
  <2>2. \/ db' = db
        \/ /\ storage_is_admin(db, c, me) /\ u # me
           /\ db' = storage_remove_participant(db, c, u)
    BY <2>1 DEF handle_kick_member, MayKick
  <2> QED BY <1>0, <1>1, <2>2, KickLawful, OtherWritesLawful
<1>9. CASE \E c \in SeenConversations : handle_delete_group(cli, c)
  <2>1. PICK c \in ConvIds : handle_delete_group(cli, c)
    BY <1>9 DEF SeenConversations
  <2>2. \/ db' = db
        \/ storage_is_admin(db, c, me) /\ db' = storage_delete_conversation(db, c, 3)
    BY <2>1 DEF handle_delete_group
  <2> QED BY <1>0, <1>1, <2>2, DeleteLawful, OtherWritesLawful
<1>10. CASE \E code \in TypedCodes : handle_add_by_code(cli, code)
  BY <1>0, <1>10, OtherWritesLawful DEF handle_add_by_code
<1>11. CASE \E u \in OtherUsers(me), accepted \in BOOLEAN :
              handle_decide_request(cli, u, accepted)
  <2>1. PICK u \in OtherUsers(me), accepted \in BOOLEAN :
          handle_decide_request(cli, u, accepted)
    BY <1>11
  <2>2. u \in Uids /\ u # me
    BY <1>1 DEF OtherUsers
  <2>3. /\ db' = decided(db, me, u, accepted)
        /\ accepted /\ MustCreateChat(befriended(db, me, u), me, u) =>
             db.conv_seq < MaxConvs
    BY <2>1 DEF handle_decide_request
  <2> QED BY <1>0, <1>1, <2>2, <2>3, DecidedLawful
<1>12. CASE \/ \E c \in SeenConversations :
                  handle_req_history(cli, c) \/ handle_req_members(cli, c)
            \/ handle_req_conversations(cli) \/ handle_req_contacts(cli)
            \/ handle_get_requests(cli)
  <2>1. db' = db
    BY <1>12 DEF handle_req_history, handle_req_members, handle_req_conversations,
                 handle_req_contacts, handle_get_requests
  <2> QED BY <1>0, <2>1, OtherWritesLawful
<1> QED BY <1>2, <1>3, <1>4, <1>5, <1>6, <1>7, <1>8, <1>9, <1>10, <1>11, <1>12
        DEF AfterLogin

(* A handler that a crash cuts short.                                      *)
LEMMA CrashLawful ==
  ASSUME IInv, NEW cli \in DOMAIN clients, CrashInHandler(cli)
  PROVE  Lawful(db, db')
<1> DEFINE me == clients[cli].uid
<1>0. DatabaseOK(db) /\ Integrity(db) /\ ChatsOK(db) /\ clients[cli].is_online
  BY DEF IInv, CrashInHandler, Integrity
<1>1. me \in Uids /\ Registered(db) \subseteq Uids
  BY <1>0, OnlineClient, RegisteredUids
<1>2. CASE \E form \in SettingsForms :
             \E d \in update_user_prefixes(cli, form[1]) : StartOn(d)
  BY <1>0, <1>2, OtherWritesLawful DEF update_user_prefixes, StartOn
<1>3. CASE /\ db.conv_seq < MaxConvs
           /\ \E u \in OtherUsers(me) :
                \E d \in decide_request_prefixes(cli, u) : StartOn(d)
  <2>1. PICK u \in OtherUsers(me) : db' \in decide_request_prefixes(cli, u)
    BY <1>3 DEF StartOn
  <2>2. u \in Uids /\ u # me
    BY <1>1 DEF OtherUsers
  <2>3. CASE db' = befriended(db, me, u)
    BY <1>0, <2>3, OtherWritesLawful
  <2>4. CASE \E n \in 0..2 : db' = chat_created(db, me, u, n)
    <3>1. PICK n \in 0..2 : db' = chat_created(db, me, u, n)
      BY <2>4
    <3>2. RoomStep(db, db') /\ IdStep(db, db') /\ db'.requests = db.requests
      BY <1>0, <1>1, <1>3, <2>2, <3>1, ChatCreatedTables
    <3> QED BY <3>2 DEF Lawful, RequestStep
  <2> QED BY <2>1, <2>3, <2>4 DEF decide_request_prefixes
<1>4. CASE /\ db.conv_seq < MaxConvs
           /\ \E name \in Names, uids \in GroupInvitations(me) :
                \E d \in create_conv_prefixes(CONV_TYPE_GROUP, name, uids) : StartOn(d)
  <2>1. PICK name \in Names, uids \in GroupInvitations(me) :
          db' \in create_conv_prefixes(CONV_TYPE_GROUP, name, uids)
    BY <1>4 DEF StartOn
  <2>2. participants_count(uids) \in Nat /\ uids[1] \in Uids
    BY <1>0, InvitedAreUids
  <2>3. \/ db' = db
        \/ \E n \in Nat :
             db' = storage_create_conversation(db, CONV_TYPE_GROUP, name, uids, n)
    BY <2>1, <2>2 DEF create_conv_prefixes
  <2> QED BY <1>0, <1>4, <2>2, <2>3, GroupLawful, OtherWritesLawful
<1>5. CASE /\ db.conv_seq < MaxConvs
           /\ \E uids \in PrivateInvitations(me) :
                \E d \in create_conv_prefixes(CONV_TYPE_PRIVATE, PRIVATE_NAME, uids) :
                  StartOn(d)
  <2>1. PICK uids \in PrivateInvitations(me) :
          db' \in create_conv_prefixes(CONV_TYPE_PRIVATE, PRIVATE_NAME, uids)
    BY <1>5 DEF StartOn
  <2>2. PICK u \in Uids : uids = <<me, u>>
    BY <1>0, InvitedAreUids
  <2>3. participants_count(uids) = 2 /\ uids[1] = me /\ uids[2] = u
    BY <2>2, PairFits, BoundsAreNaturals
    DEF PairFits, BoundsAreNaturals, participants_count
  <2> HIDE DEF me
  <2>4. \/ db' = db
        \/ /\ existing_conversation(db, CONV_TYPE_PRIVATE, uids, 2) = 0
           /\ \E n \in 0..2 :
                db' = storage_create_conversation(db, CONV_TYPE_PRIVATE, PRIVATE_NAME,
                                                  uids, n)
    BY <2>1, <2>3 DEF create_conv_prefixes
  <2>5. existing_conversation(db, CONV_TYPE_PRIVATE, uids, 2) = 0 =>
          PrivateConversations(db, me, u) = {}
    BY <2>3, ExistingConversation
  <2> QED BY <1>0, <1>1, <1>5, <2>2, <2>4, <2>5, PrivateLawful, OtherWritesLawful
<1>6. CASE \E c \in SeenConversations :
             \E d \in delete_group_prefixes(cli, c) : StartOn(d)
  <2>1. PICK c \in ConvIds : db' \in delete_group_prefixes(cli, c)
    BY <1>6 DEF SeenConversations, StartOn
  <2>2. \/ db' = db
        \/ /\ storage_is_admin(db, c, me)
           /\ \E n \in 1..3 : db' = storage_delete_conversation(db, c, n)
    BY <2>1 DEF delete_group_prefixes
  <2> QED BY <1>0, <1>1, <2>2, DeleteLawful, OtherWritesLawful
<1> QED BY <1>2, <1>3, <1>4, <1>5, <1>6 DEF CrashInHandler

(* Every step of the server is a lawful write.                             *)
LEMMA StepLawful == IInv /\ [Next]_vars => Lawful(db, db')
<1> SUFFICES ASSUME IInv, [Next]_vars
             PROVE  Lawful(db, db')
  OBVIOUS
<1>0. DatabaseOK(db)
  BY DEF IInv
<1>1. CASE \E cli \in DOMAIN clients : AfterLogin(cli)
  BY <1>1, HandlerLawful
<1>2. CASE \E cli \in DOMAIN clients : CrashInHandler(cli)
  BY <1>2, CrashLawful
<1>3. CASE \E cli \in DOMAIN clients : BeforeLogin(cli)
  BY <1>0, <1>3, OtherWritesLawful DEF BeforeLogin, handle_register, handle_login
<1>4. CASE \/ \E fd \in Fds : Connect(fd)
           \/ \E cli \in DOMAIN clients : Disconnect(cli)
           \/ Restart
           \/ UNCHANGED vars
  <2>1. db' = db
    BY <1>4 DEF Connect, Disconnect, Restart, StartOn, vars
  <2> QED BY <1>0, <2>1, OtherWritesLawful
<1> QED BY <1>1, <1>2, <1>3, <1>4 DEF Next

-----------------------------------------------------------------------------
(* Theorems                                                                *)

(* The first rooms are rooms of conversations, and no pair shares two.     *)
LEMMA RoomsBegin == IInv => Promise!Init
<1> SUFFICES ASSUME IInv
             PROVE  Promise!Init
  OBVIOUS
<1>1. DatabaseOK(db) /\ ChatsOK(db)
  BY DEF IInv, Integrity
<1> DEFINE rooms == [c \in ConvIds |-> room_of(db, c)]
<1>2. rooms \in [ConvIds -> Promise!Rooms]
  BY <1>1, RoomKinds
<1>3. ASSUME NEW a \in Uids, NEW b \in Uids, a # b,
             NEW c \in Promise!Share(a, b), NEW e \in Promise!Share(a, b)
      PROVE  c = e
  <2>1. c \in PrivateConversations(db, a, b) /\ e \in PrivateConversations(db, a, b)
    BY <1>1, SharedRooms DEF Promise!Share
  <2> QED BY <1>1, <1>3, <2>1 DEF ChatsOK, UniquePrivateChats
<1> QED BY <1>2, <1>3 DEF Promise!Init

(* A lawful write is a step of Conversations or changes no room.           *)
LEMMA RoomsMove ==
  IInv /\ IInv' /\ [Next]_vars => [Promise!Next]_([c \in ConvIds |-> room_of(db, c)])
<1> SUFFICES ASSUME IInv, IInv', [Next]_vars
             PROVE  [Promise!Next]_([c \in ConvIds |-> room_of(db, c)])
  OBVIOUS
<1> DEFINE room == [c \in ConvIds |-> room_of(db, c)]
           roomNext == [c \in ConvIds |-> room_of(db', c)]
<1>1. DatabaseOK(db) /\ ChatsOK(db) /\ RoomStep(db, db')
  BY StepLawful DEF IInv, Integrity, Lawful
<1>2. CASE roomNext = room
  BY <1>2
<1>3. CASE roomNext # room
  <2>1. PICK c \in ConvIds :
          /\ \A x \in ConvIds : x # c => room_of(db', x) = room_of(db, x)
          /\ Opens(db, db', c) \/ Changes(db, db', c)
    BY <1>1, <1>3 DEF RoomStep, SameRooms
  <2>2. roomNext = [room EXCEPT ![c] = room_of(db', c)]
    BY <2>1
  <2>3. CASE Opens(db, db', c)
    <3>1. \A a, b \in Uids : Promise!Share(a, b) = PrivateConversations(db, a, b)
      BY <1>1, SharedRooms DEF Promise!Share, PrivateConversations
    <3>2. room_of(db', c).members \subseteq Uids
      BY DEF room_of, participants_of
    <3>3. Promise!OpenGroup(c) \/ Promise!OpenPrivate(c) \/ Promise!Stillborn(c)
      BY <2>3, <3>1, <3>2
      DEF Opens, Promise!OpenGroup, Promise!OpenPrivate, Promise!Stillborn
    <3> QED BY <1>3, <2>2, <3>3 DEF Promise!Next
  <2>4. CASE Changes(db, db', c)
    <3>1. Promise!Join(c) \/ Promise!Leave(c) \/ Promise!Close(c)
      BY <2>4 DEF Changes, Promise!Join, Promise!Leave, Promise!Close
    <3> QED BY <1>3, <2>2, <3>1 DEF Promise!Next
  <2> QED BY <2>1, <2>3, <2>4
<1> QED BY <1>2, <1>3

(* The server implements the life of conversations, for any number of      *)
(* users, connections and conversations: every handler, crash and restart  *)
(* opens, changes or closes one conversation the way Conversations says, or*)
(* leaves all of them alone.                                               *)
THEOREM ConversationsImplemented == Spec => ImplementsConversations
<1>1. Init => IInv
  BY InitIInv
<1> QED BY <1>1, RoomsBegin, RoomsMove, SpecIInv, PTL
        DEF ImplementsConversations, Promise!Spec, Spec

(* Who is admin and who participates can be read off a room.               *)
LEMMA AdminsOfRoom ==
  ASSUME NEW d, NEW c \in ConvIds, NEW u \in Uids
  PROVE  /\ storage_is_admin(d, c, u) <=> u \in room_of(d, c).admins
         /\ IsParticipant(d, c, u) <=> u \in room_of(d, c).members
BY DEF room_of, participants_of

(* An admin loses its role only with all participants.                     *)
THEOREM AdminsLeaveLast == Spec => AdminLeavesLast
<1>1. ASSUME IInv, [Next]_vars, NEW c \in ConvIds, NEW u \in Uids,
             storage_is_admin(db, c, u), ~storage_is_admin(db', c, u), NEW v \in Uids
      PROVE  ~IsParticipant(db', c, v)
  <2> DEFINE r == room_of(db, c)
             s == room_of(db', c)
  <2>1. u \in r.admins /\ u \notin s.admins /\ RoomStep(db, db')
    BY <1>1, StepLawful, AdminsOfRoom DEF Lawful
  <2>2. Opens(db, db', c) \/ Changes(db, db', c)
    BY <2>1 DEF RoomStep, SameRooms
  <2>3. ~Opens(db, db', c)
    BY <2>1 DEF Opens, Promise!Unborn
  <2>4. \A S : [r EXCEPT !.members = S].admins = r.admins
    BY DEF room_of
  <2>5. s = Promise!Gone
    BY <2>1, <2>2, <2>3, <2>4 DEF Changes
  <2> QED BY <2>5, AdminsOfRoom DEF Promise!Gone
<1>2. IInv /\ [Next]_vars =>
        [\A c \in ConvIds, u \in Uids :
           storage_is_admin(db, c, u) /\ ~storage_is_admin(db', c, u) =>
             \A v \in Uids : ~IsParticipant(db', c, v)]_vars
  BY <1>1
<1> QED BY <1>2, SpecIInv, PTL DEF Spec, AdminLeavesLast

(* A request goes with the friendship and the chat, or with neither.       *)
THEOREM AcceptsAreAllOrRetry == Spec => AcceptIsAllOrRetry
<1>1. IInv /\ [Next]_vars =>
        [\A a, b \in Uids :
           <<a, b>> \in db.requests /\ <<a, b>> \notin db'.requests =>
             \/ /\ <<a, b>> \in db'.contacts
                /\ PrivateConversations(db', a, b) # {}
             \/ /\ db'.contacts = db.contacts
                /\ db'.conv_seq = db.conv_seq]_vars
  BY StepLawful DEF Lawful, RequestStep
<1> QED BY <1>1, SpecIInv, PTL DEF Spec, AcceptIsAllOrRetry

(* Every message is of a conversation whose id was given out, deleted since*)
(* or not.                                                                 *)
MessagesKnown == \A m \in db.messages : m.conv_id <= db.conv_seq

(* No id is given out that messages refer to already: they refer to ids up *)
(* to the counter, and clients send to no others.                          *)
LEMMA SpecMessagesKnown == Spec => []MessagesKnown
<1>1. Init => MessagesKnown
  BY DEF Init, MessagesKnown, EmptyDatabase
<1>2. IInv /\ IInv' /\ MessagesKnown /\ [Next]_vars => MessagesKnown'
  <2> SUFFICES ASSUME IInv, IInv', MessagesKnown, [Next]_vars, NEW m \in db'.messages
               PROVE  m.conv_id <= db'.conv_seq
    BY DEF MessagesKnown
  <2>1. IdStep(db, db')
    BY StepLawful DEF Lawful
  <2>2. /\ db.conv_seq \in Int /\ db'.conv_seq \in Int
        /\ db'.messages \subseteq MessageRow
    BY DatabaseFields DEF IInv
  <2>3. m.conv_id \in Int /\ m.conv_id <= db.conv_seq
    BY <2>1, <2>2 DEF IdStep, MessagesKnown, MessageRow, ConvIds
  <2> QED BY <2>1, <2>2, <2>3 DEF IdStep
<1> QED BY <1>1, <1>2, SpecIInv, PTL DEF Spec

(* A conversation begins without messages, whatever ids clients send to.   *)
THEOREM NewConversationsAreEmpty == Spec => ConversationsBeginEmpty
<1>1. ASSUME IInv, IInv', MessagesKnown, [Next]_vars, NEW c \in ConvIds,
             ~Exists(db, c), Exists(db', c)
      PROVE  messages_of(db', c) = {}
  <2>1. IdStep(db, db')
    BY <1>1, StepLawful DEF Lawful
  <2>2. c > db.conv_seq /\ db.conv_seq \in Int
    BY <1>1, <2>1, DatabaseFields DEF IdStep, IInv
  <2>3. \A m \in db'.messages : m.conv_id <= db.conv_seq
    BY <1>1, <2>1 DEF IdStep, MessagesKnown
  <2> QED BY <2>2, <2>3 DEF messages_of, ConvIds
<1>2. IInv /\ IInv' /\ MessagesKnown /\ [Next]_vars =>
        [\A c \in ConvIds : ~Exists(db, c) /\ Exists(db', c) =>
           messages_of(db', c) = {}]_vars
  BY <1>1
<1> QED BY <1>2, SpecIInv, SpecMessagesKnown, PTL DEF Spec, ConversationsBeginEmpty

-----------------------------------------------------------------------------
(* Delivery                                                                *)

(* Every connection has its own descriptor.                                *)
OwnDescriptors(cs) ==
  \A i, j \in DOMAIN cs : cs[i].fd = cs[j].fd => i = j

(* FinalList with the database it is of.                                   *)
ListOf(d, type, uid) ==
  CASE type = "MSG_RESP_CONTACTS" -> storage_get_contacts_data(d, uid)
    [] type = "MSG_RESP_REQUESTS" -> storage_get_requests_data(d, uid)
    [] type = "MSG_RESP_CONVERSATIONS" -> storage_get_user_conversations(d, uid)

(* A packet that is right for uid to receive when d is what is stored: a   *)
(* text of a conversation it is in, or its own list.                       *)
Suits(d, p, uid) ==
  /\ p.type = "MSG_RTE_TEXT" => IsParticipant(d, p.conv_id, uid)
  /\ p.type \in ListTypes => p.list = ListOf(d, p.type, uid)

(* Every client of cs gets packets that are right for it.                  *)
WellDelivered(d, cs, s) ==
  \A i \in DOMAIN cs : \A k \in DOMAIN s[cs[i].fd] :
    Suits(d, s[cs[i].fd][k], cs[i].uid)

(* A client of a list has a descriptor.                                    *)
LEMMA ClientFds ==
  ASSUME NEW cs \in Seq(Client), NEW i \in DOMAIN cs
  PROVE  cs[i].fd \in Fds
<1>1. cs[i] \in Client
  OBVIOUS
<1> QED BY <1>1 DEF Client

(* A packet without list or text suits anybody.                            *)
LEMMA AnswersSuit ==
  ASSUME NEW d, NEW uid, NEW p, p.type \notin ListTypes, p.type # "MSG_RTE_TEXT"
  PROVE  Suits(d, p, uid)
BY DEF Suits

(* A list suits the user it was made for.                                  *)
LEMMA ListsSuit ==
  ASSUME NEW d, NEW uid
  PROVE  /\ Suits(d, conversations_packet(d, uid), uid)
         /\ Suits(d, contacts_packet(d, uid), uid)
         /\ Suits(d, requests_packet(d, uid), uid)
BY DEF Suits, ListOf, conversations_packet, contacts_packet, requests_packet

(* No packet at all.                                                       *)
LEMMA NothingDelivered ==
  ASSUME NEW d, NEW cs \in Seq(Client)
  PROVE  WellDelivered(d, cs, NoPackets)
<1>1. \A i \in DOMAIN cs : cs[i].fd \in Fds
  BY ClientFds
<1> QED BY <1>1 DEF WellDelivered, NoPackets

(* An answer of no list and no text, whoever has that descriptor.          *)
LEMMA AnswerDelivered ==
  ASSUME NEW d, NEW cs \in Seq(Client), NEW fd, NEW p,
         p.type \notin ListTypes, p.type # "MSG_RTE_TEXT"
  PROVE  WellDelivered(d, cs, send_packet(fd, p))
<1>1. \A i \in DOMAIN cs : cs[i].fd \in Fds
  BY ClientFds
<1>2. \A f \in Fds : \A k \in DOMAIN send_packet(fd, p)[f] : send_packet(fd, p)[f][k] = p
  BY DEF send_packet
<1> QED BY <1>1, <1>2, AnswersSuit DEF WellDelivered

(* A packet to the client a handler works for.                             *)
LEMMA OwnDelivered ==
  ASSUME NEW d, NEW cs \in Seq(Client), OwnDescriptors(cs), NEW cli \in DOMAIN cs,
         NEW p, Suits(d, p, cs[cli].uid)
  PROVE  WellDelivered(d, cs, send_packet(cs[cli].fd, p))
<1> SUFFICES ASSUME NEW i \in DOMAIN cs,
                    NEW k \in DOMAIN send_packet(cs[cli].fd, p)[cs[i].fd]
             PROVE  Suits(d, send_packet(cs[cli].fd, p)[cs[i].fd][k], cs[i].uid)
  BY DEF WellDelivered
<1>1. cs[i].fd \in Fds
  BY ClientFds
<1>2. CASE cs[i].fd = cs[cli].fd
  <2>1. i = cli
    BY <1>2 DEF OwnDescriptors
  <2>2. send_packet(cs[cli].fd, p)[cs[i].fd] = <<p>>
    BY <1>1, <1>2 DEF send_packet
  <2>3. send_packet(cs[cli].fd, p)[cs[i].fd][k] = p
    BY <2>2
  <2> QED BY <2>1, <2>3
<1>3. CASE cs[i].fd # cs[cli].fd
  <2>1. send_packet(cs[cli].fd, p)[cs[i].fd] = <<>>
    BY <1>1, <1>3 DEF send_packet
  <2> QED BY <2>1
<1> QED BY <1>2, <1>3

(* An element of two sequences in a row is one of either.                  *)
LEMMA ConcatElement ==
  ASSUME NEW S, NEW a \in Seq(S), NEW b \in Seq(S), NEW k \in DOMAIN (a \o b)
  PROVE  \/ k \in DOMAIN a /\ (a \o b)[k] = a[k]
         \/ k - Len(a) \in DOMAIN b /\ (a \o b)[k] = b[k - Len(a)]
<1>1. /\ Len(a) \in Nat /\ Len(b) \in Nat /\ DOMAIN a = 1..Len(a) /\ DOMAIN b = 1..Len(b)
      /\ k \in 1..(Len(a) + Len(b))
  OBVIOUS
<1>2. CASE k <= Len(a)
  BY <1>1, <1>2
<1>3. CASE k > Len(a)
  <2>1. k - Len(a) \in DOMAIN b
    BY <1>1, <1>3
  <2>2. (a \o b)[k] = b[k - Len(a)]
    BY <1>1, <1>3
  <2> QED BY <2>1, <2>2
<1> QED BY <1>1, <1>2, <1>3

(* Two batches, one after the other.                                       *)
LEMMA BothDelivered ==
  ASSUME NEW d, NEW cs \in Seq(Client), NEW s \in Packets, NEW t \in Packets,
         WellDelivered(d, cs, s), WellDelivered(d, cs, t)
  PROVE  WellDelivered(d, cs, Then(s, t))
<1> SUFFICES ASSUME NEW i \in DOMAIN cs, NEW k \in DOMAIN Then(s, t)[cs[i].fd]
             PROVE  Suits(d, Then(s, t)[cs[i].fd][k], cs[i].uid)
  BY DEF WellDelivered
<1> DEFINE f == cs[i].fd
<1>1. f \in Fds
  BY ClientFds
<1>2. s[f] \in Seq(Packet) /\ t[f] \in Seq(Packet) /\ Then(s, t)[f] = s[f] \o t[f]
  BY <1>1 DEF Packets, Then
<1>3. \/ k \in DOMAIN s[f] /\ Then(s, t)[f][k] = s[f][k]
      \/ k - Len(s[f]) \in DOMAIN t[f] /\ Then(s, t)[f][k] = t[f][k - Len(s[f])]
  <2>1. k \in DOMAIN (s[f] \o t[f])
    BY <1>2
  <2>2. \/ k \in DOMAIN s[f] /\ (s[f] \o t[f])[k] = s[f][k]
        \/ k - Len(s[f]) \in DOMAIN t[f] /\ (s[f] \o t[f])[k] = t[f][k - Len(s[f])]
    BY <1>2, <2>1, ConcatElement
  <2> QED BY <1>2, <2>2
<1>4. /\ \A j \in DOMAIN s[f] : Suits(d, s[f][j], cs[i].uid)
      /\ \A j \in DOMAIN t[f] : Suits(d, t[f][j], cs[i].uid)
  BY DEF WellDelivered
<1> QED BY <1>3, <1>4

(* Packets pushed to users each get to a connection of their user.         *)
LEMMA PushDelivered ==
  ASSUME NEW d, clients \in Seq(Client), OwnDescriptors(clients), NEW packets,
         \A u \in DOMAIN packets : Suits(d, packets[u], u)
  PROVE  WellDelivered(d, clients, push(packets))
<1> SUFFICES ASSUME NEW i \in DOMAIN clients, NEW k \in DOMAIN push(packets)[clients[i].fd]
             PROVE  Suits(d, push(packets)[clients[i].fd][k], clients[i].uid)
  BY DEF WellDelivered
<1> DEFINE f == clients[i].fd
           user == CHOOSE u \in DOMAIN packets : f \in get_client_by_uid(u)
<1>1. f \in Fds
  BY ClientFds
<1>2. CASE \E u \in DOMAIN packets : f \in get_client_by_uid(u)
  <2>1. user \in DOMAIN packets /\ f \in get_client_by_uid(user)
    BY <1>2
  <2>2. push(packets)[f] = <<packets[user]>>
    BY <1>1, <1>2 DEF push
  <2> HIDE DEF user
  <2>3. push(packets)[f][k] = packets[user]
    BY <2>2
  <2>4. PICK j \in DOMAIN clients : clients[j].fd = f /\ clients[j].uid = user
    BY <2>1 DEF get_client_by_uid, logged_in_as
  <2>5. j = i
    BY <2>4 DEF OwnDescriptors
  <2> QED BY <2>1, <2>3, <2>4, <2>5
<1>3. CASE ~\E u \in DOMAIN packets : f \in get_client_by_uid(u)
  <2>1. push(packets)[f] = <<>>
    BY <1>1, <1>3 DEF push
  <2> QED BY <2>1
<1> QED BY <1>2, <1>3

(* Lists pushed to users.                                                  *)
LEMMA ListsDelivered ==
  ASSUME NEW d, clients \in Seq(Client), OwnDescriptors(clients), NEW uids
  PROVE  /\ WellDelivered(d, clients, push_conversations(d, uids))
         /\ WellDelivered(d, clients, push_contacts(d, uids))
         /\ WellDelivered(d, clients, push_requests(d, uids))
<1>1. WellDelivered(d, clients, push_conversations(d, uids))
  BY ListsSuit, PushDelivered DEF push_conversations
<1>2. WellDelivered(d, clients, push_contacts(d, uids))
  BY ListsSuit, PushDelivered DEF push_contacts
<1>3. WellDelivered(d, clients, push_requests(d, uids))
  BY ListsSuit, PushDelivered DEF push_requests
<1> QED BY <1>1, <1>2, <1>3

(* The packets of the handlers, against the database they leave: answers   *)
(* first, then those with lists and texts.                                 *)

DeliveredNext == WellDelivered(db', clients', sent')

(* The sequence of clients a handler sees.                                 *)
Connected == clients \in Seq(Client) /\ OwnDescriptors(clients)

(* MSG_REGISTER, MSG_LOGIN and MSG_UPDATE_USER                             *)
LEMMA AccountsDelivered ==
  ASSUME IInv', NEW cli \in DOMAIN clients,
         \/ BeforeLogin(cli)
         \/ \E name, password, s : handle_update_user(cli, name, password, s)
  PROVE  DeliveredNext
<1>1. clients' \in Seq(Client)
  BY DEF IInv, SessionsOK
<1>2. \E p : /\ sent' = send_packet(clients[cli].fd, p)
             /\ p.type \notin ListTypes /\ p.type # "MSG_RTE_TEXT"
  <2>1. CASE \E e, u, p, c, s : handle_register(cli, e, u, p, c, s)
    BY <2>1 DEF handle_register, ListTypes
  <2>2. CASE \E e, p : handle_login(cli, e, p)
    <3>1. \/ \E u : sent' = send_packet(clients[cli].fd, login_success(u))
          \/ sent' = send_packet(clients[cli].fd, [type |-> "MSG_LOGIN_FAIL"])
      BY <2>2 DEF handle_login
    <3>2. \A u : login_success(u).type = "MSG_LOGIN_SUCCESS"
      BY DEF login_success
    <3> QED BY <3>1, <3>2 DEF ListTypes
  <2>3. CASE \E name, password, s : handle_update_user(cli, name, password, s)
    BY <2>3 DEF handle_update_user, ListTypes
  <2> QED BY <2>1, <2>2, <2>3 DEF BeforeLogin
<1> QED BY <1>1, <1>2, AnswerDelivered DEF DeliveredNext

(* MSG_SEND_TEXT: the participants are looked up when the text is stored.  *)
LEMMA TextDelivered ==
  ASSUME Connected, NEW cli \in DOMAIN clients, NEW c \in ConvIds, NEW t, NEW now,
         handle_send_text(cli, c, t, now)
  PROVE  DeliveredNext
<1> DEFINE others == storage_get_conv_participants(db', c) \ {clients[cli].uid}
           packets == [u \in others |-> routed_text(cli, c, t)]
<1>1. sent' = push(packets) /\ clients' = clients
  BY DEF handle_send_text
<1>2. \A u \in others : IsParticipant(db', c, u)
  BY DEF storage_get_conv_participants, FirstRows
<1>3. \A u \in DOMAIN packets : Suits(db', packets[u], u)
  BY <1>2 DEF Suits, routed_text, ListTypes
<1> HIDE DEF packets
<1>4. WellDelivered(db', clients, push(packets))
  BY <1>3, PushDelivered DEF Connected
<1> QED BY <1>1, <1>4 DEF DeliveredNext

(* The answers to MSG_REQ_* and MSG_GET_REQUESTS.                          *)
LEMMA RequestsDelivered ==
  ASSUME Connected, NEW cli \in DOMAIN clients,
         \/ \E c \in ConvIds : handle_req_history(cli, c) \/ handle_req_members(cli, c)
         \/ handle_req_conversations(cli)
         \/ handle_req_contacts(cli)
         \/ handle_get_requests(cli)
  PROVE  DeliveredNext
<1>1. UNCHANGED <<db, clients>>
  BY DEF handle_req_history, handle_req_members, handle_req_conversations,
         handle_req_contacts, handle_get_requests
<1>2. \E p : /\ sent' = send_packet(clients[cli].fd, p)
             /\ Suits(db, p, clients[cli].uid)
  BY ListsSuit, AnswersSuit
  DEF handle_req_history, handle_req_members, handle_req_conversations,
      handle_req_contacts, handle_get_requests, ListTypes
<1>3. WellDelivered(db, clients, sent')
  BY <1>2, OwnDelivered DEF Connected
<1> QED BY <1>1, <1>3 DEF DeliveredNext

(* MSG_CREATE_CONV                                                         *)
LEMMA CreationDelivered ==
  ASSUME IInv, IInv', Connected, NEW cli \in DOMAIN clients,
         NEW type, NEW name, NEW uids,
         \A i \in 1..participants_count(uids) : uids[i] \in Uids,
         handle_create_conv(cli, type, name, uids)
  PROVE  DeliveredNext
<1> DEFINE n == participants_count(uids)
           found == existing_conversation(db, type, uids, n)
           answer(id) == send_packet(clients[cli].fd,
                                     [type |-> "MSG_CONV_CREATED", conv_id |-> id])
           others == {uids[i] : i \in 1..n} \ {clients[cli].uid}
<1>1. \A id : WellDelivered(db', clients, answer(id))
  BY AnswerDelivered DEF Connected, ListTypes
<1>2. CASE found # 0
  <2>1. sent' = answer(found) /\ clients' = clients
    BY <1>2 DEF handle_create_conv
  <2> QED BY <1>1, <2>1 DEF DeliveredNext
<1>3. CASE found = 0
  <2>1. /\ sent' = Then(answer(next_conv_id(db)), push_conversations(db', others))
        /\ clients' = clients /\ db.conv_seq < MaxConvs
    BY <1>3 DEF handle_create_conv
  <2>2. next_conv_id(db) \in ConvIds
    BY <2>1, DatabaseFields, BoundsAreNaturals
    DEF IInv, next_conv_id, BoundsAreNaturals, ConvIds
  <2>3. answer(next_conv_id(db)) \in Packets
    BY <2>2, CreatedPacket
  <2>4. others \in SUBSET Uids
    OBVIOUS
  <2> HIDE DEF others
  <2>5. push_conversations(db', others) \in Packets
    BY <2>4, PushLists DEF IInv
  <2>6. WellDelivered(db', clients, push_conversations(db', others))
    BY ListsDelivered DEF Connected
  <2> HIDE DEF answer
  <2>7. WellDelivered(db', clients, sent')
    BY <1>1, <2>1, <2>3, <2>5, <2>6, BothDelivered DEF Connected
  <2> QED BY <2>1, <2>7 DEF DeliveredNext
<1> QED BY <1>2, <1>3

(* MSG_UPDATE_GROUP, MSG_ADD_MEMBER, MSG_KICK_MEMBER, MSG_DELETE_GROUP     *)
LEMMA GroupsDelivered ==
  ASSUME IInv', Connected, NEW cli \in DOMAIN clients, NEW c \in ConvIds,
         \/ \E name : handle_update_group(cli, c, name)
         \/ \E code : handle_add_member(cli, c, code)
         \/ \E u \in Uids : handle_kick_member(cli, c, u)
         \/ handle_delete_group(cli, c)
  PROVE  DeliveredNext
<1> DEFINE Sent(s) == s \in Packets /\ WellDelivered(db', clients, s)
<1>1. \A uids \in SUBSET Uids : Sent(push_conversations(db', uids))
  BY PushLists, ListsDelivered DEF Connected, IInv
<1>2. \A u : Sent(notify_group_update(db', c, u))
  BY <1>1, ParticipantsAreUids DEF notify_group_update
<1>3. Sent(NoPackets)
  BY NoPacketsType, NothingDelivered DEF Connected
<1>4. Sent(send_packet(clients[cli].fd, [type |-> "MSG_MEMBER_ADDED"]))
  BY EmptyPackets, AnswerDelivered DEF Connected, ListTypes
<1>5. \A s, t : Sent(s) /\ Sent(t) => WellDelivered(db', clients, Then(s, t))
  BY BothDelivered DEF Connected
<1>6. ASSUME NEW u \in Uids
      PROVE  Sent(push_conversations(db', {u}))
  BY <1>1
<1>7. Sent(push_conversations(db', storage_get_conv_participants(db, c)))
  BY <1>1, ParticipantsAreUids
<1> HIDE DEF Sent
<1>8. WellDelivered(db', clients, sent') /\ clients' = clients
  BY <1>2, <1>3, <1>4, <1>5, <1>6, <1>7
  DEF handle_update_group, handle_add_member, handle_kick_member, handle_delete_group, Sent
<1> QED BY <1>8 DEF DeliveredNext

(* MSG_ADD_BY_CODE                                                         *)
LEMMA AddDelivered ==
  ASSUME IInv, IInv', Connected, NEW cli \in DOMAIN clients, NEW code,
         handle_add_by_code(cli, code)
  PROVE  DeliveredNext
<1> DEFINE targets == storage_get_uid_by_code(db, code)
           answer(t) == send_packet(clients[cli].fd, [type |-> t])
<1>1. targets \subseteq Uids
  BY RegisteredUids DEF storage_get_uid_by_code, IInv
<1>2. \A t \in {"MSG_ADD_REQ_SENT", "MSG_ADD_FAIL"} :
        answer(t) \in Packets /\ WellDelivered(db', clients, answer(t))
  BY EmptyPackets, AnswerDelivered DEF Connected, ListTypes
<1>3. \A u \in targets : /\ push_requests(db', {u}) \in Packets
                         /\ WellDelivered(db', clients, push_requests(db', {u}))
  BY <1>1, PushLists, ListsDelivered DEF Connected, IInv
<1>4. /\ clients' = clients
      /\ \/ \E u \in targets : sent' = Then(answer("MSG_ADD_REQ_SENT"),
                                           push_requests(db', {u}))
         \/ sent' = answer("MSG_ADD_FAIL")
  BY DEF handle_add_by_code
<1> HIDE DEF answer, targets
<1>5. WellDelivered(db', clients, sent')
  BY <1>2, <1>3, <1>4, BothDelivered DEF Connected
<1> QED BY <1>4, <1>5 DEF DeliveredNext

(* MSG_DECIDE_REQUEST: the list of conversations is read before the request*)
(* goes, which it does not show.                                           *)
LEMMA DecisionDelivered ==
  ASSUME IInv, IInv', Connected, NEW cli \in DOMAIN clients, clients[cli].is_online,
         NEW target \in Uids, NEW accepted \in BOOLEAN,
         handle_decide_request(cli, target, accepted)
  PROVE  DeliveredNext
<1> DEFINE me == clients[cli].uid
           fd == clients[cli].fd
           chat == chat_created(db, me, target, 2)
           created == accepted /\ MustCreateChat(befriended(db, me, target), me, target)
           Sent(s) == s \in Packets /\ WellDelivered(db', clients, s)
           first == IF created
                      THEN Then(send_packet(fd, conversations_packet(chat, me)),
                                push_conversations(chat, {target}))
                      ELSE NoPackets
           lists == Then(send_packet(fd, contacts_packet(db', me)),
                         send_packet(fd, requests_packet(db', me)))
           last == IF accepted THEN push_contacts(db', {target}) ELSE NoPackets
<1>1. me \in Uids /\ DatabaseOK(db) /\ Integrity(db) /\ DatabaseOK(db')
  BY OnlineClient DEF IInv
<1>2. /\ created => db.conv_seq < MaxConvs
      /\ db' = decided(db, me, target, accepted)
      /\ sent' = Then(Then(first, lists), last)
      /\ clients' = clients
  BY DEF handle_decide_request
<1>3. \A s, t : Sent(s) /\ Sent(t) => Sent(Then(s, t))
  BY ThenType, BothDelivered DEF Connected
<1>4. Sent(NoPackets)
  BY NoPacketsType, NothingDelivered DEF Connected
<1>5. \A p : Suits(db', p, me) => WellDelivered(db', clients, send_packet(fd, p))
  BY OwnDelivered DEF Connected
<1>6. Sent(send_packet(fd, contacts_packet(db', me)))
      /\ Sent(send_packet(fd, requests_packet(db', me)))
  BY <1>1, <1>5, OwnLists, ListsSuit
<1>7. Sent(push_contacts(db', {target}))
  BY <1>1, PushLists, ListsDelivered DEF Connected
<1>8. ASSUME created
      PROVE  /\ Sent(send_packet(fd, conversations_packet(chat, me)))
             /\ Sent(push_conversations(chat, {target}))
  <2>1. DatabaseOK(chat)
    BY <1>1, <1>2, <1>8, DecideAdvances DEF Advances, Grows
  <2>2. db' = [chat EXCEPT !.requests = @ \ {<<target, me>>}]
    BY <1>2, <1>8 DEF decided, storage_remove_request
  <2> HIDE DEF chat
  <2>3. \A u : conversations_packet(chat, u) = conversations_packet(db', u)
    <3>1. /\ db'.conversations = chat.conversations
          /\ db'.participants = chat.participants /\ db'.users = chat.users
      BY <2>1, <2>2 DEF DatabaseOK, Database
    <3>2. /\ \A u : conversations_of(chat, u) = conversations_of(db', u)
          /\ \A c, u : conversation_title(chat, c, u) = conversation_title(db', c, u)
      BY <3>1 DEF conversations_of, conversation_title, Registered
    <3>3. ASSUME NEW u
          PROVE  storage_get_user_conversations(chat, u)
                   = storage_get_user_conversations(db', u)
      <4> DEFINE rows == FirstRows(conversations_of(db', u), MAX_LIST)
      <4>1. storage_get_user_conversations(chat, u) =
              {[conv_id |-> c, type |-> chat.conversations[c].type,
                name |-> conversation_title(chat, c, u),
                my_role |-> chat.participants[c][u]] : c \in rows}
        BY <3>2 DEF storage_get_user_conversations
      <4>2. storage_get_user_conversations(db', u) =
              {[conv_id |-> c, type |-> db'.conversations[c].type,
                name |-> conversation_title(db', c, u),
                my_role |-> db'.participants[c][u]] : c \in rows}
        BY DEF storage_get_user_conversations
      <4> HIDE DEF rows
      <4> QED BY <3>1, <3>2, <4>1, <4>2
    <3> QED BY <3>3 DEF conversations_packet
  <2>4. push_conversations(chat, {target}) = push_conversations(db', {target})
    BY <2>3 DEF push_conversations
  <2>5. Sent(push_conversations(db', {target}))
    BY <1>1, PushLists, ListsDelivered DEF Connected
  <2>6. Sent(send_packet(fd, conversations_packet(db', me)))
    BY <1>1, <1>5, OwnLists, ListsSuit
  <2> QED BY <2>3, <2>4, <2>5, <2>6
<1> HIDE DEF Sent, chat, created, fd, me
<1>9. Sent(first) /\ Sent(lists) /\ Sent(last)
  BY <1>3, <1>4, <1>6, <1>7, <1>8
<1> HIDE DEF first, lists, last
<1>10. Sent(sent')
  BY <1>2, <1>3, <1>9
<1> QED BY <1>2, <1>10 DEF Sent, DeliveredNext

(* Connections come with a descriptor of their own and keep it.            *)
LEMMA DescriptorsStep ==
  ASSUME IInv, IInv', OwnDescriptors(clients), [Next]_vars
  PROVE  OwnDescriptors(clients')
<1>0. clients \in Seq(Client)
  BY DEF IInv, SessionsOK
<1>1. CASE \E fd \in Fds : Connect(fd)
  <2>1. PICK fd \in Fds : Connect(fd)
    BY <1>1
  <2> DEFINE node == [fd |-> fd, uid |-> 0, username |-> Empty, is_online |-> FALSE]
  <2>2. node \in Client /\ clients' = <<node>> \o clients
    BY <2>1 DEF Connect, add_client, Cons, Client
  <2>3. node.fd = fd /\ \A i \in DOMAIN clients : clients[i].fd # fd
    BY <2>1 DEF Connect, connected_fds
  <2> HIDE DEF node
  <2>4. \A i \in DOMAIN clients' :
          \/ i = 1 /\ clients'[i] = node
          \/ i - 1 \in DOMAIN clients /\ clients'[i] = clients[i - 1] /\ i \in Int
    <3>1. <<node>> \in Seq(Client) /\ Len(<<node>>) = 1 /\ DOMAIN <<node>> = {1}
          /\ <<node>>[1] = node
      BY <2>2
    <3>2. \A i \in DOMAIN clients' : i \in Int
      BY <1>0, <2>2, <3>1
    <3> QED BY <1>0, <2>2, <3>1, <3>2, ConcatElement
  <2> QED BY <2>3, <2>4 DEF OwnDescriptors
<1>2. CASE \E cli \in DOMAIN clients : Disconnect(cli)
  <2>1. PICK cli \in DOMAIN clients : clients' = RemoveAt(clients, cli)
    BY <1>2 DEF Disconnect, remove_client
  <2>2. /\ DOMAIN clients' = 1..(Len(clients) - 1)
        /\ \A i \in 1..(Len(clients) - 1) :
             /\ i \in DOMAIN clients /\ i + 1 \in DOMAIN clients
             /\ clients'[i] = IF i < cli THEN clients[i] ELSE clients[i + 1]
    BY <1>0, <2>1, RemovedNode, Zenon
  <2>3. cli \in Int /\ Len(clients) \in Int
    BY <1>0
  <2>4. ASSUME NEW i \in DOMAIN clients', NEW j \in DOMAIN clients',
               clients'[i].fd = clients'[j].fd
        PROVE  i = j
    <3> DEFINE place(k) == IF k < cli THEN k ELSE k + 1
    <3>1. \A k \in DOMAIN clients' : place(k) \in DOMAIN clients
                                   /\ clients'[k] = clients[place(k)] /\ k \in Int
      BY <2>2
    <3>2. place(i) = place(j)
      BY <2>4, <3>1 DEF OwnDescriptors
    <3> QED BY <2>3, <3>1, <3>2
  <2> QED BY <2>4 DEF OwnDescriptors
<1>3. CASE \/ \E cli \in DOMAIN clients : CrashInHandler(cli)
           \/ Restart
  <2>1. clients' = <<>>
    BY <1>3 DEF CrashInHandler, Restart, StartOn, init_clients
  <2> QED BY <2>1 DEF OwnDescriptors
<1>4. CASE \/ clients' = clients
           \/ \E cli \in DOMAIN clients : \E node :
                clients' = [clients EXCEPT ![cli] = node] /\ node.fd = clients[cli].fd
  BY <1>0, <1>4 DEF OwnDescriptors
<1>5. ASSUME NEW cli \in DOMAIN clients, BeforeLogin(cli) \/ AfterLogin(cli)
      PROVE  \/ clients' = clients
             \/ \E node : clients' = [clients EXCEPT ![cli] = node]
                          /\ node.fd = clients[cli].fd
  <2>1. CASE BeforeLogin(cli)
    BY <2>1 DEF BeforeLogin, handle_register, handle_login
  <2>2. CASE \E form, s : handle_update_user(cli, form[1], form[2], s)
    <3>1. clients[cli] \in Client
      BY <1>0
    <3>2. \A name : [clients[cli] EXCEPT !.username = name].fd = clients[cli].fd
      BY <3>1 DEF Client
    <3> QED BY <2>2, <3>2 DEF handle_update_user
  <2>3. CASE AfterLogin(cli) /\ ~\E form, s : handle_update_user(cli, form[1], form[2], s)
    BY <2>3
    DEF AfterLogin, handle_send_text, handle_req_history, handle_create_conv,
        handle_req_conversations, handle_update_group, handle_add_member,
        handle_req_members, handle_kick_member, handle_delete_group, handle_req_contacts,
        handle_add_by_code, handle_get_requests, handle_decide_request
  <2> QED BY <1>5, <2>1, <2>2, <2>3
<1> QED BY <1>1, <1>2, <1>3, <1>4, <1>5 DEF Next, vars

(* Whatever a step sends suits the users who receive it.                   *)
LEMMA StepDelivered ==
  ASSUME IInv, IInv', OwnDescriptors(clients), Next
  PROVE  DeliveredNext
<1>0. /\ Connected /\ clients' \in Seq(Client)
      /\ Registered(db) \subseteq Uids
      /\ \A cli \in DOMAIN clients : clients[cli].is_online => clients[cli].uid \in Uids
  BY OnlineClient, RegisteredUids DEF Connected, IInv, SessionsOK
<1>1. CASE \/ \E fd \in Fds : Connect(fd)
           \/ \E cli \in DOMAIN clients : Disconnect(cli) \/ CrashInHandler(cli)
           \/ Restart
  <2>1. sent' = NoPackets
    BY <1>1 DEF Connect, Disconnect, CrashInHandler, Restart, StartOn
  <2> QED BY <1>0, <2>1, NothingDelivered DEF DeliveredNext
<1>2. CASE \E cli \in DOMAIN clients : BeforeLogin(cli)
  BY <1>2, AccountsDelivered
<1>3. CASE \E cli \in DOMAIN clients : AfterLogin(cli)
  <2>1. PICK cli \in DOMAIN clients : AfterLogin(cli)
    BY <1>3
  <2>2. clients[cli].is_online
    BY <2>1 DEF AfterLogin
  <2>3. CASE \E form, s : handle_update_user(cli, form[1], form[2], s)
    BY <2>3, AccountsDelivered
  <2>4. CASE \E c \in SeenConversations, t \in Texts, now \in Times :
               handle_send_text(cli, c, t, now)
    BY <1>0, <2>4, TextDelivered DEF SeenConversations
  <2>5. CASE \/ \E c \in SeenConversations :
                   handle_req_history(cli, c) \/ handle_req_members(cli, c)
             \/ handle_req_conversations(cli)
             \/ handle_req_contacts(cli)
             \/ handle_get_requests(cli)
    BY <1>0, <2>5, RequestsDelivered DEF SeenConversations
  <2>6. CASE \E name \in Names, uids \in GroupInvitations(clients[cli].uid) :
               handle_create_conv(cli, CONV_TYPE_GROUP, name, uids)
    BY <1>0, <2>2, <2>6, InvitedAreUids, CreationDelivered
  <2>7. CASE \E uids \in PrivateInvitations(clients[cli].uid) :
               handle_create_conv(cli, CONV_TYPE_PRIVATE, PRIVATE_NAME, uids)
    <3>1. PICK uids \in PrivateInvitations(clients[cli].uid) :
            handle_create_conv(cli, CONV_TYPE_PRIVATE, PRIVATE_NAME, uids)
      BY <2>7
    <3>2. PICK u \in Uids : uids = <<clients[cli].uid, u>>
      BY <2>2, InvitedAreUids
    <3>3. participants_count(uids) = 2
      BY <3>2, PairFits, BoundsAreNaturals
      DEF PairFits, BoundsAreNaturals, participants_count
    <3>4. uids[1] \in Uids /\ uids[2] \in Uids
      BY <1>0, <2>2, <3>2
    <3>5. \A i \in 1..participants_count(uids) : uids[i] \in Uids
      BY <3>3, <3>4
    <3> QED BY <1>0, <3>1, <3>5, CreationDelivered
  <2>8. CASE \E c \in SeenConversations :
               \/ \E name \in Names : handle_update_group(cli, c, name)
               \/ \E code \in TypedCodes : handle_add_member(cli, c, code)
               \/ \E u \in Registered(db) : handle_kick_member(cli, c, u)
               \/ handle_delete_group(cli, c)
    BY <1>0, <2>8, GroupsDelivered DEF SeenConversations
  <2>9. CASE \E code \in TypedCodes : handle_add_by_code(cli, code)
    BY <1>0, <2>9, AddDelivered
  <2>10. CASE \E u \in OtherUsers(clients[cli].uid), accepted \in BOOLEAN :
                handle_decide_request(cli, u, accepted)
    BY <1>0, <2>2, <2>10, DecisionDelivered DEF OtherUsers
  <2> QED BY <2>1, <2>3, <2>4, <2>5, <2>6, <2>7, <2>8, <2>9, <2>10 DEF AfterLogin
<1> QED BY <1>1, <1>2, <1>3 DEF Next

(* No two connections share a descriptor.                                  *)
LEMMA SpecDescriptors == Spec => []OwnDescriptors(clients)
<1>1. Init => OwnDescriptors(clients)
  BY DEF Init, init_clients, OwnDescriptors
<1>2. IInv /\ IInv' /\ OwnDescriptors(clients) /\ [Next]_vars => OwnDescriptors(clients)'
  BY DescriptorsStep
<1> QED BY <1>1, <1>2, SpecIInv, PTL DEF Spec

(* A text is pushed to participants of its conversation and to nobody else.*)
THEOREM TextsAreForParticipants == Spec => TextsStayInConversation
<1>1. IInv /\ IInv' /\ OwnDescriptors(clients) /\ [Next]_vars =>
        [\A i \in DOMAIN clients' : \A k \in DOMAIN sent'[clients'[i].fd] :
           LET packet == sent'[clients'[i].fd][k]
           IN  packet.type = "MSG_RTE_TEXT" =>
                 IsParticipant(db', packet.conv_id, clients'[i].uid)]_vars
  BY StepDelivered DEF DeliveredNext, WellDelivered, Suits
<1> QED BY <1>1, SpecIInv, SpecDescriptors, PTL DEF Spec, TextsStayInConversation

(* Every list sent is the receiver's own and shows the final tables.       *)
THEOREM ListsAreFinal == Spec => ListsShowFinalState
<1>1. ASSUME NEW packet, NEW uid, packet.type \in ListTypes
      PROVE  FinalList(packet, uid) = ListOf(db', packet.type, uid)
  BY <1>1 DEF FinalList, ListOf, ListTypes
<1>2. IInv /\ IInv' /\ OwnDescriptors(clients) /\ [Next]_vars =>
        [\A i \in DOMAIN clients' :
           \A k \in DOMAIN sent'[clients'[i].fd] :
             LET packet == sent'[clients'[i].fd][k]
             IN  packet.type \in ListTypes =>
                   packet.list = FinalList(packet, clients'[i].uid)]_vars
  BY <1>1, StepDelivered DEF DeliveredNext, WellDelivered, Suits
<1> QED BY <1>2, SpecIInv, SpecDescriptors, PTL DEF Spec, ListsShowFinalState

-----------------------------------------------------------------------------
(* Reaching everybody                                                      *)

(* Every conversation of d is one that MAX_PARTICIPANTS has room for.      *)
RoomsFit(d) ==
  \A c \in ConvIds :
    Cardinality({u \in Uids : IsParticipant(d, c, u)}) <= MAX_PARTICIPANTS

(* A list that is long enough keeps all rows.                              *)
LEMMA AllRows ==
  ASSUME NEW S \in SUBSET Uids, NEW n \in Nat, Cardinality(S) <= n
  PROVE  FirstRows(S, n) = S
<1>1. IsFiniteSet(S)
  <2>1. 1 \in Int /\ MaxUsers \in Int
    BY BoundsAreNaturals DEF BoundsAreNaturals
  <2>2. IsFiniteSet(1..MaxUsers)
    BY <2>1, FS_Interval
  <2> QED BY <2>2, FS_Subset DEF Uids
<1>2. ASSUME NEW x \in S
      PROVE  Cardinality({y \in S : y < x}) < n
  <2> DEFINE below == {y \in S : y < x}
  <2>1. below \in SUBSET (S \ {x})
    BY DEF Uids
  <2>2. /\ IsFiniteSet(S \ {x}) /\ Cardinality(S \ {x}) = Cardinality(S) - 1
    BY <1>1, FS_RemoveElement
  <2>3. Cardinality(below) <= Cardinality(S \ {x}) /\ IsFiniteSet(below)
    BY <2>1, <2>2, FS_Subset
  <2> HIDE DEF below
  <2>4. Cardinality(S) \in Nat /\ Cardinality(below) \in Nat
    BY <1>1, <2>3, FS_CardinalityType
  <2>5. Cardinality(below) < n
    BY <2>2, <2>3, <2>4
  <2> QED BY <2>5 DEF below
<1> QED BY <1>2 DEF FirstRows

(* So the handlers find all participants.                                  *)
LEMMA AllParticipants ==
  ASSUME NEW d, RoomsFit(d), NEW c \in ConvIds
  PROVE  storage_get_conv_participants(d, c) = {u \in Uids : IsParticipant(d, c, u)}
<1> DEFINE S == {u \in Uids : IsParticipant(d, c, u)}
<1>1. S \in SUBSET Uids /\ Cardinality(S) <= MAX_PARTICIPANTS
  BY DEF RoomsFit
<1> HIDE DEF S
<1>2. FirstRows(S, MAX_PARTICIPANTS) = S
  BY <1>1, AllRows, BoundsAreNaturals DEF BoundsAreNaturals
<1> QED BY <1>2 DEF storage_get_conv_participants, S

(* What is pushed to a user arrives at the connection found for that user. *)
LEMMA PushReaches ==
  ASSUME Connected, NEW packets, NEW u \in DOMAIN packets,
         NEW fd \in get_client_by_uid(u)
  PROVE  fd \in Fds /\ push(packets)[fd] = <<packets[u]>>
<1> DEFINE user == CHOOSE v \in DOMAIN packets : fd \in get_client_by_uid(v)
<1>1. fd \in Fds
  BY ClientFds DEF get_client_by_uid, Connected
<1>2. user \in DOMAIN packets /\ fd \in get_client_by_uid(user)
  OBVIOUS
<1>3. push(packets)[fd] = <<packets[user]>>
  BY <1>1 DEF push
<1> HIDE DEF user
<1>4. user = u
  BY <1>2 DEF Connected, OwnDescriptors, get_client_by_uid, logged_in_as
<1> QED BY <1>1, <1>3, <1>4

-----------------------------------------------------------------------------
(* Texts                                                                   *)

(* MSG_SEND_TEXT is the only request that adds a message.                  *)
LEMMA OldMessages ==
  ASSUME NEW d, DatabaseOK(d)
  PROVE  /\ \A email, username, password, code, salt :
              storage_register_user(d, email, username, password, code, salt).messages
                = d.messages
         /\ \A uid, name, password, salt :
              storage_update_user(d, uid, name, password, salt).messages = d.messages
         /\ \A uid, name : storage_update_name(d, uid, name).messages = d.messages
         /\ \A type, name, uids, n :
              storage_create_conversation(d, type, name, uids, n).messages = d.messages
         /\ \A c, name : storage_update_group(d, c, name).messages = d.messages
         /\ \A c, u, role : storage_add_participant(d, c, u, role).messages = d.messages
         /\ \A c, u : storage_remove_participant(d, c, u).messages = d.messages
         /\ \A c, n : storage_delete_conversation(d, c, n).messages \subseteq d.messages
         /\ \A a, b : storage_add_request(d, a, b).messages = d.messages
<1> USE DEF DatabaseOK, Database
<1>1. /\ \A email, username, password, code, salt :
           storage_register_user(d, email, username, password, code, salt).messages
             = d.messages
      /\ \A uid, name : storage_update_name(d, uid, name).messages = d.messages
      /\ \A uid, name, password, salt :
           storage_update_user(d, uid, name, password, salt).messages = d.messages
  BY DEF storage_register_user, storage_update_user, storage_update_name,
         update_username, update_password
<1>2. /\ \A type, name, uids, n :
           storage_create_conversation(d, type, name, uids, n).messages = d.messages
      /\ \A c, name : storage_update_group(d, c, name).messages = d.messages
      /\ \A c, u, role : storage_add_participant(d, c, u, role).messages = d.messages
      /\ \A c, u : storage_remove_participant(d, c, u).messages = d.messages
  BY DEF storage_create_conversation, storage_update_group, storage_add_participant,
         storage_remove_participant
<1>3. \A c, n : storage_delete_conversation(d, c, n).messages \subseteq d.messages
  BY DEF storage_delete_conversation
<1>4. \A a, b : storage_add_request(d, a, b).messages = d.messages
  BY DEF storage_add_request
<1> QED BY <1>1, <1>2, <1>3, <1>4

(* Nor does a decision about a request, wherever it ends.                  *)
LEMMA OldMessagesDecided ==
  ASSUME NEW d, DatabaseOK(d), Integrity(d), NEW a \in Uids, NEW b \in Uids
  PROVE  /\ befriended(d, a, b).messages = d.messages
         /\ \A n \in 0..2 : chat_created(d, a, b, n).messages = d.messages
         /\ \A accepted \in BOOLEAN :
              (accepted /\ MustCreateChat(befriended(d, a, b), a, b) => d.conv_seq < MaxConvs)
                => decided(d, a, b, accepted).messages = d.messages
<1> DEFINE f == befriended(d, a, b)
<1>1. f.messages = d.messages /\ DatabaseOK(f)
  <2>1. f.messages = d.messages
    BY DEF befriended, storage_add_friendship, DatabaseOK, Database
  <2>2. DatabaseOK(f)
    BY DecideAdvances DEF Advances, Grows
  <2> QED BY <2>1, <2>2
<1>2. ASSUME NEW n \in 0..2
      PROVE  chat_created(d, a, b, n).messages = d.messages
  <2> HIDE DEF f
  <2>1. \/ chat_created(d, a, b, n) = f
        \/ chat_created(d, a, b, n) =
             storage_create_conversation(f, CONV_TYPE_PRIVATE, PRIVATE_NAME, <<a, b>>, n)
    BY DEF chat_created, f
  <2> QED BY <1>1, <2>1, OldMessages
<1>3. ASSUME NEW accepted \in BOOLEAN,
             accepted /\ MustCreateChat(f, a, b) => d.conv_seq < MaxConvs
      PROVE  decided(d, a, b, accepted).messages = d.messages
  <2> DEFINE e == IF accepted THEN chat_created(d, a, b, 2) ELSE d
  <2>1. DatabaseOK(e)
    BY <1>3, DecideAdvances DEF Advances, Grows
  <2>2. e.messages = d.messages
    BY <1>2
  <2>3. decided(d, a, b, accepted) = storage_remove_request(e, b, a)
    BY DEF decided
  <2> HIDE DEF e
  <2> QED BY <2>1, <2>2, <2>3 DEF storage_remove_request, DatabaseOK, Database
<1> QED BY <1>1, <1>2, <1>3

(* A step that adds a message is that request, from somebody logged in.    *)
LEMMA MessagesAdded ==
  ASSUME IInv, Next, NEW m \in db'.messages \ db.messages
  PROVE  \E cli \in DOMAIN clients : \E c \in ConvIds, t \in Texts, now \in Times :
           handle_send_text(cli, c, t, now) /\ clients[cli].is_online
<1>0. DatabaseOK(db) /\ Integrity(db) /\ Registered(db) \subseteq Uids
  BY RegisteredUids DEF IInv
<1> DEFINE Writes(cli) == \E c \in SeenConversations, t \in Texts, now \in Times :
                            handle_send_text(cli, c, t, now)
<1>1. ASSUME NEW cli \in DOMAIN clients, AfterLogin(cli), ~Writes(cli)
      PROVE  db'.messages \subseteq db.messages
  <2> DEFINE me == clients[cli].uid
  <2>1. me \in Uids
    BY <1>1, OnlineClient DEF AfterLogin
  <2>2. CASE \E u \in OtherUsers(me), accepted \in BOOLEAN :
               handle_decide_request(cli, u, accepted)
    <3>1. PICK u \in OtherUsers(me), accepted \in BOOLEAN :
            handle_decide_request(cli, u, accepted)
      BY <2>2
    <3>2. u \in Uids
      BY <1>0 DEF OtherUsers
    <3>3. /\ db' = decided(db, me, u, accepted)
          /\ accepted /\ MustCreateChat(befriended(db, me, u), me, u) =>
               db.conv_seq < MaxConvs
      BY <3>1 DEF handle_decide_request
    <3> QED BY <1>0, <2>1, <3>2, <3>3, OldMessagesDecided
  <2>3. CASE \/ \E form, s : handle_update_user(cli, form[1], form[2], s)
             \/ \E type, name, uids : handle_create_conv(cli, type, name, uids)
             \/ \E code : handle_add_by_code(cli, code)
    <3>1. \/ db' = db
          \/ \E name, p, s : db' = storage_update_user(db, me, name, p, s)
          \/ \E type, name, uids, n :
               db' = storage_create_conversation(db, type, name, uids, n)
          \/ \E u : db' = storage_add_request(db, me, u)
      BY <2>3 DEF handle_update_user, handle_create_conv, handle_add_by_code
    <3> QED BY <1>0, <3>1, OldMessages
  <2>4. CASE \E c : \/ \E name : handle_update_group(cli, c, name)
                   \/ \E code : handle_add_member(cli, c, code)
                   \/ \E u : handle_kick_member(cli, c, u)
                   \/ handle_delete_group(cli, c)
    <3>1. \E c : \/ db' = db
                 \/ \E name : db' = storage_update_group(db, c, name)
                 \/ \E u : db' = storage_add_participant(db, c, u, ROLE_MEMBER)
                 \/ \E u : db' = storage_remove_participant(db, c, u)
                 \/ db' = storage_delete_conversation(db, c, 3)
      BY <2>4
      DEF handle_update_group, handle_add_member, handle_kick_member, handle_delete_group
    <3> QED BY <1>0, <3>1, OldMessages
  <2>5. CASE \/ \E c : handle_req_history(cli, c) \/ handle_req_members(cli, c)
             \/ handle_req_conversations(cli) \/ handle_req_contacts(cli)
             \/ handle_get_requests(cli)
    BY <2>5 DEF handle_req_history, handle_req_members, handle_req_conversations,
                handle_req_contacts, handle_get_requests
  <2> QED BY <1>1, <2>2, <2>3, <2>4, <2>5 DEF AfterLogin
<1>2. ASSUME NEW cli \in DOMAIN clients, CrashInHandler(cli)
      PROVE  db'.messages \subseteq db.messages
  <2> DEFINE me == clients[cli].uid
  <2>1. me \in Uids
    BY <1>2, OnlineClient DEF CrashInHandler
  <2>2. CASE \E u \in OtherUsers(me) : db' \in decide_request_prefixes(cli, u)
    <3>1. PICK u \in OtherUsers(me) : db' \in decide_request_prefixes(cli, u)
      BY <2>2
    <3>2. u \in Uids
      BY <1>0 DEF OtherUsers
    <3> QED BY <1>0, <2>1, <3>1, <3>2, OldMessagesDecided DEF decide_request_prefixes
  <2>3. CASE \/ \E form : db' \in update_user_prefixes(cli, form[1])
             \/ \E type, name, uids : db' \in create_conv_prefixes(type, name, uids)
             \/ \E c : db' \in delete_group_prefixes(cli, c)
    <3>1. \/ db' = db
          \/ \E name : db' = storage_update_name(db, me, name)
          \/ \E type, name, uids, n :
               db' = storage_create_conversation(db, type, name, uids, n)
          \/ \E c, n : db' = storage_delete_conversation(db, c, n)
      BY <2>3 DEF update_user_prefixes, create_conv_prefixes, delete_group_prefixes
    <3> QED BY <1>0, <3>1, OldMessages
  <2> QED BY <1>2, <2>2, <2>3 DEF CrashInHandler, StartOn
<1>3. ASSUME NEW cli \in DOMAIN clients, BeforeLogin(cli)
      PROVE  db'.messages \subseteq db.messages
  <2>1. \/ db' = db
        \/ \E e, n, p, c, s : db' = storage_register_user(db, e, n, p, c, s)
    BY <1>3 DEF BeforeLogin, handle_register, handle_login
  <2>2. db'.messages = db.messages
    BY <1>0, <2>1, OldMessages
  <2> QED BY <2>2
<1>4. ASSUME \/ \E fd \in Fds : Connect(fd)
             \/ \E cli \in DOMAIN clients : Disconnect(cli)
             \/ Restart
      PROVE  db'.messages \subseteq db.messages
  BY <1>4 DEF Connect, Disconnect, Restart, StartOn
<1> HIDE DEF Writes
<1>5. PICK cli \in DOMAIN clients : AfterLogin(cli) /\ Writes(cli)
  BY <1>1, <1>2, <1>3, <1>4 DEF Next
<1> QED BY <1>5 DEF AfterLogin, SeenConversations, Writes

(* And its text goes to everybody in the conversation.                     *)
LEMMA TextReaches ==
  ASSUME IInv, IInv', Connected, RoomsFit(db'), NEW cli \in DOMAIN clients,
         NEW c \in ConvIds, NEW t, NEW now, handle_send_text(cli, c, t, now),
         NEW m \in db'.messages \ db.messages,
         NEW u \in Uids \ {m.sender_id}, IsParticipant(db', m.conv_id, u),
         NEW fd \in get_client_by_uid(u)
  PROVE  Receives(fd, m)
<1> DEFINE me == clients[cli].uid
           others == storage_get_conv_participants(db', c) \ {me}
           packets == [v \in others |-> routed_text(cli, c, t)]
           row == [id |-> db.msg_seq + 1, conv_id |-> c, sender_id |-> me,
                   text |-> crypto_encrypt(db_key, t), timestamp |-> now]
<1>1. /\ db' = storage_log_message(db, db_key, c, me, t, now)
      /\ sent' = push(packets)
  BY DEF handle_send_text
<1>2. m = row
  BY <1>1 DEF storage_log_message, IInv, DatabaseOK, Database
<1>3. m.conv_id = c /\ m.sender_id = me /\ m.text = crypto_encrypt(db_key, t)
  BY <1>2
<1>4. u \in others
  BY <1>3, AllParticipants
<1>5. u \in DOMAIN packets /\ packets[u] = routed_text(cli, c, t)
  BY <1>4
<1> HIDE DEF others, packets, row
<1>6. sent'[fd] = <<routed_text(cli, c, t)>>
  BY <1>1, <1>5, PushReaches
<1>7. 1 \in DOMAIN sent'[fd] /\ sent'[fd][1] = routed_text(cli, c, t)
  BY <1>6
<1>8. /\ sent'[fd][1].type = "MSG_RTE_TEXT" /\ sent'[fd][1].conv_id = m.conv_id
      /\ sent'[fd][1].sender_uid = m.sender_id /\ sent'[fd][1].text = t
  BY <1>3, <1>7 DEF routed_text
<1>9. crypto_decrypt(db_key, m.text) = t
  BY <1>3 DEF crypto_decrypt, crypto_encrypt
<1> QED BY <1>7, <1>8, <1>9 DEF Receives

(* As long as no conversation outgrows the array of participants, a text   *)
(* that is stored goes to everybody in its conversation who is online.     *)
THEOREM TextsReachEverybody == Spec /\ []RoomsFit(db) => TextsReachParticipants
<1>1. /\ IInv /\ IInv' /\ OwnDescriptors(clients) /\ RoomsFit(db) /\ RoomsFit(db)'
      /\ [Next]_vars
      => [\A m \in db'.messages \ db.messages : \A u \in Uids \ {m.sender_id} :
            IsParticipant(db', m.conv_id, u) =>
              \A fd \in get_client_by_uid(u) : Receives(fd, m)]_vars
  <2> SUFFICES ASSUME IInv, IInv', OwnDescriptors(clients), RoomsFit(db'), Next,
                      NEW m \in db'.messages \ db.messages,
                      NEW u \in Uids \ {m.sender_id}, IsParticipant(db', m.conv_id, u),
                      NEW fd \in get_client_by_uid(u)
               PROVE  Receives(fd, m)
    OBVIOUS
  <2>1. Connected
    BY DEF Connected, IInv, SessionsOK
  <2>2. PICK cli \in DOMAIN clients, c \in ConvIds, t \in Texts, now \in Times :
          handle_send_text(cli, c, t, now)
    BY MessagesAdded
  <2> QED BY <2>1, <2>2, TextReaches
<1> QED BY <1>1, SpecIInv, SpecDescriptors, PTL DEF Spec, TextsReachParticipants
-----------------------------------------------------------------------------
(* Changes of membership                                                   *)

ChangeTypes == {"MSG_RESP_CONVERSATIONS", "MSG_CONV_CREATED"}

(* A connection of u is among those that s tells about conversations.      *)
Told(s, u) ==
  \E i \in DOMAIN clients : logged_in_as(i, u) /\
    \E k \in DOMAIN s[clients[i].fd] : s[clients[i].fd][k].type \in ChangeTypes

(* What the step means to u: nothing, or somebody is told.                 *)
KnowsOfChange(u) ==
  \/ Membership(db, u) = Membership(db', u)
  \/ get_client_by_uid(u) = {}
  \/ Told(sent', u)

(* The handler's own user, by the answer.                                  *)
LEMMA AnswerTells ==
  ASSUME Connected, NEW cli \in DOMAIN clients, clients[cli].is_online,
         NEW p, p.type \in ChangeTypes
  PROVE  Told(send_packet(clients[cli].fd, p), clients[cli].uid)
<1> DEFINE s == send_packet(clients[cli].fd, p)
<1>1. s[clients[cli].fd] = <<p>>
  BY ClientFds DEF send_packet, Connected
<1>2. 1 \in DOMAIN s[clients[cli].fd] /\ s[clients[cli].fd][1] = p
  BY <1>1
<1> QED BY <1>2 DEF Told, logged_in_as

(* Others, by a list.                                                      *)
LEMMA ListsTell ==
  ASSUME Connected, NEW d, NEW uids, NEW u \in uids, get_client_by_uid(u) # {}
  PROVE  Told(push_conversations(d, uids), u)
<1> DEFINE packets == [v \in uids |-> conversations_packet(d, v)]
<1>1. PICK i \in DOMAIN clients :
        clients[i].fd \in get_client_by_uid(u) /\ logged_in_as(i, u)
  BY DEF get_client_by_uid
<1>2. u \in DOMAIN packets /\ packets[u] = conversations_packet(d, u)
  OBVIOUS
<1> HIDE DEF packets
<1>3. push(packets)[clients[i].fd] = <<conversations_packet(d, u)>>
  BY <1>1, <1>2, PushReaches
<1>4. /\ 1 \in DOMAIN push(packets)[clients[i].fd]
      /\ push(packets)[clients[i].fd][1].type = "MSG_RESP_CONVERSATIONS"
  BY <1>3 DEF conversations_packet
<1>5. push_conversations(d, uids) = push(packets)
  BY DEF push_conversations, packets
<1> QED BY <1>1, <1>4, <1>5 DEF Told, ChangeTypes

(* Either of two batches is enough.                                        *)
LEMMA BothTell ==
  ASSUME Connected, NEW s \in Packets, NEW t \in Packets, NEW u,
         Told(s, u) \/ Told(t, u)
  PROVE  Told(Then(s, t), u)
<1>1. PICK i \in DOMAIN clients :
        /\ logged_in_as(i, u)
        /\ \/ \E k \in DOMAIN s[clients[i].fd] : s[clients[i].fd][k].type \in ChangeTypes
           \/ \E k \in DOMAIN t[clients[i].fd] : t[clients[i].fd][k].type \in ChangeTypes
  BY DEF Told
<1> DEFINE f == clients[i].fd
           a == s[f]
           b == t[f]
<1>2. a \in Seq(Packet) /\ b \in Seq(Packet) /\ Then(s, t)[f] = a \o b
  BY ClientFds DEF Packets, Then, Connected
<1>3. \/ \E k \in DOMAIN a : a[k].type \in ChangeTypes
      \/ \E k \in DOMAIN b : b[k].type \in ChangeTypes
  BY <1>1
<1> HIDE DEF a, b
<1>4. ASSUME NEW k \in DOMAIN a
      PROVE  k \in DOMAIN (a \o b) /\ (a \o b)[k] = a[k]
  BY <1>2
<1>5. ASSUME NEW k \in DOMAIN b
      PROVE  Len(a) + k \in DOMAIN (a \o b) /\ (a \o b)[Len(a) + k] = b[k]
  BY <1>2
<1>6. \E k \in DOMAIN (a \o b) : (a \o b)[k].type \in ChangeTypes
  BY <1>3, <1>4, <1>5
<1> QED BY <1>1, <1>2, <1>6 DEF Told

(* A user whose rows stay, and whose conversations do, sees no change.     *)
LEMMA SameMembership ==
  ASSUME NEW d, NEW e, NEW u,
         \A c \in ConvIds :
           /\ e.participants[c][u] = d.participants[c][u]
           /\ IsParticipant(d, c, u) => e.conversations[c] = d.conversations[c]
  PROVE  Membership(d, u) = Membership(e, u)
<1>1. conversations_of(e, u) = conversations_of(d, u)
  BY DEF conversations_of
<1>2. \A c \in conversations_of(d, u) :
        <<c, d.participants[c][u], d.conversations[c]>>
          = <<c, e.participants[c][u], e.conversations[c]>>
  BY DEF conversations_of
<1> QED BY <1>1, <1>2 DEF Membership

(* MSG_CREATE_CONV: whoever is invited is told, and nobody else is in it.  *)
LEMMA CreationTold ==
  ASSUME IInv, Connected, NEW cli \in DOMAIN clients, clients[cli].is_online,
         NEW type \in {CONV_TYPE_PRIVATE, CONV_TYPE_GROUP},
         NEW name \in Names \cup {PRIVATE_NAME}, NEW uids,
         \A i \in 1..participants_count(uids) : uids[i] \in Uids, IInv',
         handle_create_conv(cli, type, name, uids), NEW u \in Uids
  PROVE  KnowsOfChange(u)
<1> DEFINE me == clients[cli].uid
           n == participants_count(uids)
           found == existing_conversation(db, type, uids, n)
           others == {uids[i] : i \in 1..n} \ {me}
           answer == send_packet(clients[cli].fd, [type |-> "MSG_CONV_CREATED",
                                                   conv_id |-> next_conv_id(db)])
           lists == push_conversations(db', others)
           c == db.conv_seq + 1
<1>1. CASE found # 0
  BY <1>1 DEF handle_create_conv, KnowsOfChange
<1>2. CASE found = 0
  <2>1. /\ db.conv_seq < MaxConvs
        /\ db' = storage_create_conversation(db, type, name, uids, n)
        /\ sent' = Then(answer, lists)
    BY <1>2 DEF handle_create_conv
  <2>2. Created(db, db', type, name, uids, n) /\ ChatsOK(db) /\ DatabaseOK(db)
    BY <2>1, CreateConversationFields DEF IInv, Integrity
  <2>3. c \in ConvIds /\ answer \in Packets
    BY <2>2, CreatedPacket DEF Created, next_conv_id
  <2>4. others \in SUBSET Uids /\ DatabaseOK(db')
    BY DEF IInv
  <2>5. lists \in Packets
    BY <2>4, PushLists
  <2>6. Told(answer, me)
    BY AnswerTells DEF ChangeTypes
  <2>7. u \in others /\ get_client_by_uid(u) # {} => Told(lists, u)
    BY ListsTell
  <2>8. ASSUME u # me, u \notin others
        PROVE  Membership(db, u) = Membership(db', u)
    <3>1. ~\E i \in 1..n : uids[i] = u
      BY <2>8
    <3>2. \A x \in ConvIds : x # c => /\ db'.conversations[x] = db.conversations[x]
                                      /\ db'.participants[x] = db.participants[x]
      BY <2>2, CreatedParts
    <3>3. db'.participants[c][u] = db.participants[c][u]
      <4>1. db'.participants = [db.participants EXCEPT ![c] = CreatedRow(db, type, uids, n)]
        BY <2>2 DEF Created
      <4>2. db.participants \in ParticipantTable
        BY <2>2, DatabaseFields
      <4>3. CreatedRow(db, type, uids, n)[u] = db.participants[c][u]
        BY <3>1 DEF CreatedRow
      <4> QED BY <2>3, <4>1, <4>2, <4>3 DEF ParticipantTable
    <3>4. ~IsParticipant(db, c, u)
      <4>1. db.conv_seq \in Nat
        BY <2>2, DatabaseFields
      <4>2. ~Exists(db, c)
        BY <2>2, <2>3, <4>1 DEF ChatsOK, UnusedIdsFree
      <4> QED BY <2>2, <2>3, <4>2 DEF ChatsOK, RowsHaveConversation
    <3> HIDE DEF c
    <3> QED BY <3>2, <3>3, <3>4, SameMembership
  <2> HIDE DEF answer, lists, others, me
  <2>9. get_client_by_uid(u) # {} /\ (u = me \/ u \in others) => Told(sent', u)
    BY <2>1, <2>3, <2>5, <2>6, <2>7, BothTell
  <2> QED BY <2>8, <2>9 DEF KnowsOfChange
<1> QED BY <1>1, <1>2

(* MSG_UPDATE_GROUP, MSG_ADD_MEMBER: all who are in it afterwards.         *)
LEMMA GroupTold ==
  ASSUME IInv, IInv', Connected, RoomsFit(db'), NEW cli \in DOMAIN clients,
         NEW c \in ConvIds, NEW u \in Uids,
         \/ \E name : handle_update_group(cli, c, name)
         \/ \E code : handle_add_member(cli, c, code)
  PROVE  KnowsOfChange(u)
<1> DEFINE everybody == storage_get_conv_participants(db', c)
           lists == push_conversations(db', everybody)
           added == send_packet(clients[cli].fd, [type |-> "MSG_MEMBER_ADDED"])
<1>0. DatabaseOK(db) /\ DatabaseOK(db') /\ Registered(db) \subseteq Uids
  BY RegisteredUids DEF IInv
<1>1. everybody = {v \in Uids : IsParticipant(db', c, v)}
  BY AllParticipants
<1>2. lists \in Packets /\ added \in Packets
  BY <1>0, PushLists, ParticipantsAreUids, EmptyPackets
<1>3. notify_group_update(db', c, 0) = lists
  <2>1. everybody \ {0} = everybody
    BY <1>1 DEF Uids
  <2> QED BY <2>1 DEF notify_group_update
<1>4. u \in everybody /\ get_client_by_uid(u) # {} => Told(lists, u)
  BY ListsTell
<1> HIDE DEF lists, added, everybody
<1>5. CASE \E name : handle_update_group(cli, c, name)
  <2>1. PICK name : handle_update_group(cli, c, name)
    BY <1>5
  <2>2. CASE db' = db
    BY <2>2 DEF KnowsOfChange
  <2>3. CASE db' # db
    <3>1. sent' = lists /\ db' = storage_update_group(db, c, name)
      BY <1>3, <2>1, <2>3 DEF handle_update_group
    <3>2. /\ db'.participants = db.participants
          /\ \A x \in ConvIds : x # c => db'.conversations[x] = db.conversations[x]
      BY <1>0, <3>1, DatabaseFields
      DEF storage_update_group, DatabaseOK, Database, ConversationTable
    <3>3. u \notin everybody => Membership(db, u) = Membership(db', u)
      BY <1>1, <3>2, SameMembership
    <3> QED BY <1>4, <3>1, <3>3 DEF KnowsOfChange
  <2> QED BY <2>2, <2>3
<1>6. CASE \E code : handle_add_member(cli, c, code)
  <2>1. PICK code : handle_add_member(cli, c, code)
    BY <1>6
  <2>2. CASE db' = db
    BY <2>2 DEF KnowsOfChange
  <2>3. CASE db' # db
    <3>1. PICK target \in Registered(db) :
            db' = storage_add_participant(db, c, target, ROLE_MEMBER)
      BY <2>1, <2>3 DEF handle_add_member, storage_get_uid_by_code
    <3>2. sent' = Then(added, lists)
      BY <1>3, <2>1, <2>3 DEF handle_add_member, added
    <3>3. db' = [db EXCEPT !.participants[c][target] = ROLE_MEMBER]
      BY <2>3, <3>1 DEF storage_add_participant
    <3>4. /\ db'.conversations = db.conversations
          /\ \A x \in ConvIds : x # c => db'.participants[x] = db.participants[x]
          /\ db'.participants[c][target] = ROLE_MEMBER
          /\ \A v \in Uids : v # target => db'.participants[c][v] = db.participants[c][v]
      <4>1. target \in Uids
        BY <1>0
      <4>2. /\ db'.conversations = db.conversations
            /\ db'.participants = [db.participants EXCEPT ![c][target] = ROLE_MEMBER]
        BY <1>0, <3>3 DEF DatabaseOK, Database
      <4> QED BY <1>0, <4>1, <4>2, DatabaseFields DEF ParticipantTable
    <3>5. u \notin everybody => Membership(db, u) = Membership(db', u)
      BY <1>1, <3>4, SameMembership
    <3>6. Told(lists, u) => Told(sent', u)
      BY <1>2, <3>2, BothTell
    <3> QED BY <1>4, <3>5, <3>6 DEF KnowsOfChange
  <2> QED BY <2>2, <2>3
<1> QED BY <1>5, <1>6

(* MSG_KICK_MEMBER tells the one who is out, too.                          *)
LEMMA KickTold ==
  ASSUME IInv, IInv', Connected, NEW cli \in DOMAIN clients, NEW c \in ConvIds,
         NEW target \in Uids, handle_kick_member(cli, c, target), NEW u \in Uids
  PROVE  KnowsOfChange(u)
<1> DEFINE rest == notify_group_update(db', c, 0)
           list == push_conversations(db', {target})
<1>0. DatabaseOK(db) /\ DatabaseOK(db')
  BY DEF IInv
<1>1. rest \in Packets /\ list \in Packets
  BY <1>0, PushLists, ParticipantsAreUids DEF notify_group_update
<1>2. u = target /\ get_client_by_uid(u) # {} => Told(list, u)
  BY ListsTell
<1>3. \/ db' = db
      \/ sent' = Then(rest, list) /\ db' = storage_remove_participant(db, c, target)
  BY DEF handle_kick_member
<1> HIDE DEF rest, list
<1>4. CASE db' = db
  BY <1>4 DEF KnowsOfChange
<1>5. CASE sent' = Then(rest, list) /\ db' = storage_remove_participant(db, c, target)
  <2>1. /\ db'.conversations = db.conversations
        /\ \A x \in ConvIds : x # c => db'.participants[x] = db.participants[x]
        /\ \A v \in Uids : v # target => db'.participants[c][v] = db.participants[c][v]
    <3>1. /\ db'.conversations = db.conversations
          /\ db'.participants = [db.participants EXCEPT ![c][target] = NoRow]
      BY <1>0, <1>5 DEF storage_remove_participant, DatabaseOK, Database
    <3> QED BY <1>0, <3>1, DatabaseFields DEF ParticipantTable
  <2>2. u # target => Membership(db, u) = Membership(db', u)
    BY <2>1, SameMembership
  <2>3. Told(list, u) => Told(sent', u)
    BY <1>1, <1>5, BothTell
  <2> QED BY <1>2, <2>2, <2>3 DEF KnowsOfChange
<1> QED BY <1>3, <1>4, <1>5

(* MSG_DELETE_GROUP tells those who were in it.                            *)
LEMMA DeleteTold ==
  ASSUME IInv, Connected, RoomsFit(db), NEW cli \in DOMAIN clients, NEW c \in ConvIds,
         handle_delete_group(cli, c), NEW u \in Uids
  PROVE  KnowsOfChange(u)
<1>1. CASE db' = db
  BY <1>1 DEF KnowsOfChange
<1>2. CASE db' # db
  <2>1. /\ db' = storage_delete_conversation(db, c, 3)
        /\ sent' = push_conversations(db', {v \in Uids : IsParticipant(db, c, v)})
    BY <1>2, AllParticipants DEF handle_delete_group
  <2>2. DatabaseOK(db)
    BY DEF IInv
  <2>3. /\ db'.participants = [db.participants EXCEPT ![c] = [v \in Uids |-> NoRow]]
        /\ db'.conversations = [db.conversations EXCEPT ![c] = NoConversation]
    BY <2>1, <2>2, DeleteConversationFields
  <2>4. \A x \in ConvIds : x # c => /\ db'.participants[x] = db.participants[x]
                                    /\ db'.conversations[x] = db.conversations[x]
    BY <2>2, <2>3, DatabaseFields DEF ParticipantTable, ConversationTable
  <2>5. db'.participants[c][u] = NoRow
    BY <2>2, <2>3, DatabaseFields DEF ParticipantTable
  <2>6. ~IsParticipant(db, c, u) => Membership(db, u) = Membership(db', u)
    BY <2>4, <2>5, SameMembership
  <2>7. IsParticipant(db, c, u) /\ get_client_by_uid(u) # {} => Told(sent', u)
    BY <2>1, ListsTell
  <2> QED BY <2>6, <2>7 DEF KnowsOfChange
<1> QED BY <1>1, <1>2

(* MSG_DECIDE_REQUEST: the two who get a private chat.                     *)
LEMMA DecisionTold ==
  ASSUME IInv, IInv', Connected, NEW cli \in DOMAIN clients, clients[cli].is_online,
         NEW target \in Uids, NEW accepted \in BOOLEAN,
         handle_decide_request(cli, target, accepted), NEW u \in Uids
  PROVE  KnowsOfChange(u)
<1> DEFINE me == clients[cli].uid
           fd == clients[cli].fd
           f == befriended(db, me, target)
           chat == chat_created(db, me, target, 2)
           created == accepted /\ MustCreateChat(f, me, target)
           own == send_packet(fd, conversations_packet(chat, me))
           pushed == push_conversations(chat, {target})
           first == IF created THEN Then(own, pushed) ELSE NoPackets
           lists == Then(send_packet(fd, contacts_packet(db', me)),
                         send_packet(fd, requests_packet(db', me)))
           last == IF accepted THEN push_contacts(db', {target}) ELSE NoPackets
<1>1. me \in Uids /\ DatabaseOK(db) /\ Integrity(db) /\ DatabaseOK(db')
  BY OnlineClient DEF IInv
<1>2. /\ created => db.conv_seq < MaxConvs
      /\ db' = decided(db, me, target, accepted)
      /\ sent' = Then(Then(first, lists), last)
  BY DEF handle_decide_request
<1>3. DatabaseOK(f) /\ Integrity(f)
  BY <1>1, DecideAdvances DEF Advances, Grows
<1>4. /\ f.participants = db.participants /\ f.conversations = db.conversations
      /\ f.conv_seq = db.conv_seq
  BY <1>1 DEF befriended, storage_add_friendship, DatabaseOK, Database
<1> HIDE DEF f
<1>5. CASE ~created
  <2> DEFINE e == IF accepted THEN f ELSE db
  <2>1. db' = storage_remove_request(e, target, me)
    BY <1>2, <1>5 DEF decided, chat_created, f
  <2>2. DatabaseOK(e) /\ e.participants = db.participants /\ e.conversations = db.conversations
    BY <1>1, <1>3, <1>4
  <2> HIDE DEF e
  <2>3. db'.participants = db.participants /\ db'.conversations = db.conversations
    BY <2>1, <2>2 DEF storage_remove_request, DatabaseOK, Database
  <2> QED BY <2>3, SameMembership DEF KnowsOfChange
<1>6. CASE created
  <2> DEFINE c == f.conv_seq + 1
  <2>1. chat = storage_create_conversation(f, CONV_TYPE_PRIVATE, PRIVATE_NAME,
                                           <<me, target>>, 2)
    BY <1>6 DEF chat_created, f
  <2>2. Created(f, chat, CONV_TYPE_PRIVATE, PRIVATE_NAME, <<me, target>>, 2)
    BY <1>2, <1>3, <1>4, <1>6, <2>1, CreateConversationFields
  <2>3. DatabaseOK(chat)
    BY <1>1, <1>2, <1>6, DecideAdvances DEF Advances, Grows, f
  <2>4. db' = storage_remove_request(chat, target, me)
    BY <1>2, <1>6 DEF decided
  <2> HIDE DEF chat
  <2>5. db'.participants = chat.participants /\ db'.conversations = chat.conversations
    BY <2>3, <2>4 DEF storage_remove_request, DatabaseOK, Database
  <2>6. ASSUME u # me, u # target
        PROVE  Membership(db, u) = Membership(db', u)
    <3>1. ChatsOK(f)
      BY <1>3 DEF Integrity
    <3>2. /\ c \in ConvIds
          /\ \A x \in ConvIds : x # c => /\ chat.conversations[x] = f.conversations[x]
                                         /\ chat.participants[x] = f.participants[x]
      BY <1>3, <2>2, <3>1, CreatedParts
    <3>3. chat.participants[c][u] = f.participants[c][u]
      <4>1. chat.participants = [f.participants EXCEPT
              ![c] = CreatedRow(f, CONV_TYPE_PRIVATE, <<me, target>>, 2)]
        BY <2>2 DEF Created
      <4>2. ~\E i \in 1..2 : <<me, target>>[i] = u
        BY <2>6
      <4>3. CreatedRow(f, CONV_TYPE_PRIVATE, <<me, target>>, 2)[u] = f.participants[c][u]
        BY <4>2 DEF CreatedRow
      <4>4. f.participants \in ParticipantTable
        BY <1>3, DatabaseFields
      <4> QED BY <3>2, <4>1, <4>3, <4>4 DEF ParticipantTable
    <3>4. ~IsParticipant(f, c, u)
      <4>1. f.conv_seq \in Nat
        BY <1>3, DatabaseFields
      <4>2. ~Exists(f, c)
        BY <3>1, <3>2, <4>1 DEF ChatsOK, UnusedIdsFree
      <4> QED BY <3>1, <3>2, <4>2 DEF ChatsOK, RowsHaveConversation
    <3> HIDE DEF c
    <3> QED BY <1>4, <2>5, <3>2, <3>3, <3>4, SameMembership
  <2>7. own \in Packets /\ pushed \in Packets /\ lists \in Packets /\ last \in Packets
    BY <1>1, <2>3, OwnLists, PushLists, ThenType, NoPacketsType
  <2>8. Told(own, me)
    BY AnswerTells DEF ChangeTypes, conversations_packet
  <2>9. u = target /\ get_client_by_uid(u) # {} => Told(pushed, u)
    BY ListsTell
  <2> HIDE DEF own, pushed, lists, last
  <2>10. sent' = Then(Then(Then(own, pushed), lists), last)
    BY <1>2, <1>6
  <2>11. Then(own, pushed) \in Packets /\ Then(Then(own, pushed), lists) \in Packets
    BY <2>7, ThenType
  <2>12. Told(own, u) \/ Told(pushed, u) => Told(sent', u)
    BY <2>7, <2>10, <2>11, BothTell
  <2> QED BY <2>6, <2>8, <2>9, <2>12 DEF KnowsOfChange
<1> QED BY <1>5, <1>6

(* The other steps change no membership, or nobody is connected after them.*)
LEMMA StepTold ==
  ASSUME IInv, IInv', OwnDescriptors(clients), RoomsFit(db), RoomsFit(db'), Next,
         NEW u \in Uids
  PROVE  KnowsOfChange(u) \/ clients' = <<>>
<1>0. /\ Connected /\ DatabaseOK(db) /\ Registered(db) \subseteq Uids
  BY RegisteredUids DEF Connected, IInv, SessionsOK
<1>1. ASSUME /\ db'.participants = db.participants
             /\ db'.conversations = db.conversations
      PROVE  KnowsOfChange(u)
  BY <1>1, SameMembership DEF KnowsOfChange
<1>2. CASE \/ \E fd \in Fds : Connect(fd)
           \/ \E cli \in DOMAIN clients : Disconnect(cli)
  BY <1>1, <1>2 DEF Connect, Disconnect
<1>3. CASE Restart \/ \E cli \in DOMAIN clients : CrashInHandler(cli)
  BY <1>3 DEF Restart, CrashInHandler, StartOn, init_clients
<1>4. CASE \E cli \in DOMAIN clients : BeforeLogin(cli)
  <2>1. \/ db' = db
        \/ \E e, n, p, c, s : db' = storage_register_user(db, e, n, p, c, s)
    BY <1>4 DEF BeforeLogin, handle_register, handle_login
  <2>2. \A e, n, p, c, s :
          /\ storage_register_user(db, e, n, p, c, s).participants = db.participants
          /\ storage_register_user(db, e, n, p, c, s).conversations = db.conversations
    BY <1>0 DEF storage_register_user, DatabaseOK, Database
  <2> QED BY <1>1, <2>1, <2>2
<1>5. ASSUME NEW cli \in DOMAIN clients, AfterLogin(cli)
      PROVE  KnowsOfChange(u)
  <2> DEFINE me == clients[cli].uid
  <2>1. clients[cli].is_online
    BY <1>5 DEF AfterLogin
  <2>2. CASE \E form \in SettingsForms, s \in Salts :
               handle_update_user(cli, form[1], form[2], s)
    <3>1. \A uid, name, p, s :
            /\ storage_update_user(db, uid, name, p, s).participants = db.participants
            /\ storage_update_user(db, uid, name, p, s).conversations = db.conversations
      BY <1>0 DEF storage_update_user, storage_update_name, update_username,
                  update_password, DatabaseOK, Database
    <3> QED BY <1>1, <2>2, <3>1 DEF handle_update_user
  <2>3. CASE \E c \in SeenConversations, t \in Texts, now \in Times :
               handle_send_text(cli, c, t, now)
    BY <1>0, <1>1, <2>3 DEF handle_send_text, storage_log_message, DatabaseOK, Database
  <2>4. CASE \/ \E c \in SeenConversations :
                  handle_req_history(cli, c) \/ handle_req_members(cli, c)
             \/ handle_req_conversations(cli) \/ handle_req_contacts(cli)
             \/ handle_get_requests(cli)
    BY <1>1, <2>4 DEF handle_req_history, handle_req_members, handle_req_conversations,
                      handle_req_contacts, handle_get_requests
  <2>5. CASE \E name \in Names, uids \in GroupInvitations(me) :
               handle_create_conv(cli, CONV_TYPE_GROUP, name, uids)
    BY <1>0, <2>1, <2>5, InvitedAreUids, CreationTold
  <2>6. CASE \E uids \in PrivateInvitations(me) :
               handle_create_conv(cli, CONV_TYPE_PRIVATE, PRIVATE_NAME, uids)
    <3>1. PICK uids \in PrivateInvitations(me) :
            handle_create_conv(cli, CONV_TYPE_PRIVATE, PRIVATE_NAME, uids)
      BY <2>6
    <3>2. PICK v \in Uids : uids = <<me, v>>
      BY <2>1, InvitedAreUids
    <3>3. participants_count(uids) = 2
      BY <3>2, PairFits, BoundsAreNaturals
      DEF PairFits, BoundsAreNaturals, participants_count
    <3>4. uids[1] \in Uids /\ uids[2] \in Uids
      BY <2>1, <3>2, OnlineClient
    <3>5. \A i \in 1..participants_count(uids) : uids[i] \in Uids
      BY <3>3, <3>4
    <3> QED BY <1>0, <2>1, <3>1, <3>5, CreationTold
  <2>7. CASE \E c \in SeenConversations :
               \/ \E name \in Names : handle_update_group(cli, c, name)
               \/ \E code \in TypedCodes : handle_add_member(cli, c, code)
    BY <1>0, <2>7, GroupTold DEF SeenConversations
  <2>8. CASE \E c \in SeenConversations, v \in Registered(db) : handle_kick_member(cli, c, v)
    BY <1>0, <2>8, KickTold DEF SeenConversations
  <2>9. CASE \E c \in SeenConversations : handle_delete_group(cli, c)
    BY <1>0, <2>9, DeleteTold DEF SeenConversations
  <2>10. CASE \E code \in TypedCodes : handle_add_by_code(cli, code)
    <3>1. \A a, b : /\ storage_add_request(db, a, b).participants = db.participants
                    /\ storage_add_request(db, a, b).conversations = db.conversations
      BY <1>0 DEF storage_add_request, DatabaseOK, Database
    <3> QED BY <1>1, <2>10, <3>1 DEF handle_add_by_code
  <2>11. CASE \E v \in OtherUsers(me), accepted \in BOOLEAN :
                handle_decide_request(cli, v, accepted)
    BY <1>0, <2>1, <2>11, DecisionTold DEF OtherUsers
  <2> QED BY <1>5, <2>2, <2>3, <2>4, <2>5, <2>6, <2>7, <2>8, <2>9, <2>10, <2>11
          DEF AfterLogin
<1> QED BY <1>2, <1>3, <1>4, <1>5 DEF Next

(* As long as no conversation outgrows that array, whoever is online learns*)
(* of every change of the conversations it is in, by whomsoever.           *)
THEOREM MembersAreTold == Spec /\ []RoomsFit(db) => MembershipChangesPushed
<1>1. /\ IInv /\ IInv' /\ OwnDescriptors(clients) /\ RoomsFit(db) /\ RoomsFit(db)'
      /\ [Next]_vars
      => [\A u \in Uids :
            \/ Membership(db, u) = Membership(db', u)
            \/ get_client_by_uid(u) = {}
            \/ clients' = <<>>
            \/ \E i \in DOMAIN clients : logged_in_as(i, u) /\
                 \E k \in DOMAIN sent'[clients[i].fd] :
                   sent'[clients[i].fd][k].type
                     \in {"MSG_RESP_CONVERSATIONS", "MSG_CONV_CREATED"}]_vars
  BY StepTold DEF KnowsOfChange, Told, ChangeTypes
<1> QED BY <1>1, SpecIInv, SpecDescriptors, PTL DEF Spec, MembershipChangesPushed
=============================================================================
