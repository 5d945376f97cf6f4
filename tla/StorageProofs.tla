--------------------------- MODULE StorageProofs ----------------------------
(***************************************************************************)
(* What each operator of Storage returns and preserves, for every value of *)
(* the constants, first what a row of each table is, then that the tables  *)
(* stay consistent with each other.  A handler is a composition of these   *)
(* operators, so the proofs about the server chain the lemmas of this      *)
(* module.                                                                 *)
(***************************************************************************)
EXTENDS Storage, TLAPS, FiniteSetTheorems, WellFoundedInduction

USE DEF NoRow, CONV_TYPE_PRIVATE, CONV_TYPE_GROUP, ROLE_MEMBER, ROLE_ADMIN

ConversationTable ==
  [ConvIds -> [type : {NoRow, CONV_TYPE_PRIVATE, CONV_TYPE_GROUP},
               name : Names \cup {PRIVATE_NAME}]]

ParticipantTable == [ConvIds -> [Uids -> {NoRow, ROLE_MEMBER, ROLE_ADMIN}]]

MessageRow == [id : MsgIds, conv_id : ConvIds, sender_id : Uids,
               text : [key : Keys, plain : Texts], timestamp : Times]

(* Replacing an element of a sequence keeps its length and its type.       *)
LEMMA ReplaceInSeq ==
  ASSUME NEW S, NEW s \in Seq(S), NEW i \in DOMAIN s, NEW x \in S
  PROVE  /\ [s EXCEPT ![i] = x] \in Seq(S)
         /\ Len([s EXCEPT ![i] = x]) = Len(s)
         /\ DOMAIN [s EXCEPT ![i] = x] = DOMAIN s
<1> DEFINE n == Len(s)
           t == [s EXCEPT ![i] = x]
<1>1. n \in Nat /\ s \in [1..n -> S] /\ DOMAIN s = 1..n
  OBVIOUS
<1>2. t \in [1..n -> S] /\ DOMAIN t = 1..n
  BY <1>1
<1>3. t \in Seq(S)
  BY <1>1, <1>2
<1>4. Len(t) = n
  BY <1>1, <1>2, <1>3
<1> QED BY <1>1, <1>2, <1>3, <1>4

(* The inductive form of the type of a database: the number of messages is *)
(* finite, so that positions in a history are numbers, and every message   *)
(* was sent by an account.                                                 *)
DatabaseOK(d) ==
  /\ d \in Database
  /\ Len(d.users) <= MaxUsers
  /\ IsFiniteSet(d.messages)
  /\ \A m \in d.messages : m.sender_id \in Registered(d)

(* The fields of a database have their types.                              *)
LEMMA DatabaseFields ==
  ASSUME NEW d, DatabaseOK(d)
  PROVE  /\ d.users \in Seq(UserRow)
         /\ Len(d.users) \in Nat
         /\ d.contacts \subseteq Uids \X Uids
         /\ d.requests \subseteq Uids \X Uids
         /\ d.conversations \in ConversationTable
         /\ d.participants \in ParticipantTable
         /\ d.conv_seq \in 0..MaxConvs
         /\ d.msg_seq \in 0..MaxMessages
         /\ d.messages \subseteq MessageRow
BY DEF DatabaseOK, Database, ConversationTable, ParticipantTable, MessageRow

(* uids are the positions of the users table, and within the bound.        *)
LEMMA RegisteredUids ==
  ASSUME NEW d, DatabaseOK(d)
  PROVE  /\ Registered(d) = 1..Len(d.users)
         /\ Registered(d) \subseteq Uids
         /\ \A u \in Registered(d) : d.users[u] \in UserRow
BY DatabaseFields, BoundsAreNaturals
DEF BoundsAreNaturals, Registered, DatabaseOK, Uids

(* storage_init makes a database.                                          *)
LEMMA EmptyDatabaseOK == DatabaseOK(EmptyDatabase)
<1>1. EmptyDatabase \in Database
  BY BoundsAreNaturals
  DEF BoundsAreNaturals, EmptyDatabase, Database, NoConversation
<1>2. /\ Len(EmptyDatabase.users) <= MaxUsers
      /\ EmptyDatabase.messages = {}
  BY BoundsAreNaturals DEF BoundsAreNaturals, EmptyDatabase
<1> QED BY <1>1, <1>2, FS_EmptySet DEF DatabaseOK

-----------------------------------------------------------------------------
(* Operators that change a database make a database, and keep its accounts.*)

Grows(d, e) == DatabaseOK(e) /\ Registered(d) \subseteq Registered(e)

(* storage_register_user appends at most one well-formed account.          *)
LEMMA RegisterType ==
  ASSUME NEW d, DatabaseOK(d), Len(d.users) < MaxUsers,
         NEW email \in Emails, NEW username \in Usernames,
         NEW password \in Passwords, NEW code \in Codes, NEW salt \in Salts
  PROVE  Grows(d, storage_register_user(d, email, username, password, code, salt))
<1> DEFINE row == [username |-> username, email |-> email,
                   password_hash |-> crypt(password, salt), friend_code |-> code]
           e == [d EXCEPT !.users = Append(@, row)]
<1>1. row \in UserRow
  BY DEF UserRow, crypt
<1>2. Append(d.users, row) \in Seq(UserRow) /\ Len(Append(d.users, row)) = Len(d.users) + 1
  BY <1>1, DatabaseFields
<1>3. e \in Database /\ e.users = Append(d.users, row) /\ e.messages = d.messages
  BY <1>2 DEF DatabaseOK, Database
<1>4. Registered(d) \subseteq Registered(e)
  BY <1>2, <1>3, DatabaseFields DEF Registered
<1> HIDE DEF e, row
<1>5. DatabaseOK(e)
  BY <1>2, <1>3, <1>4, DatabaseFields, BoundsAreNaturals DEF BoundsAreNaturals, DatabaseOK
<1> QED BY <1>4, <1>5 DEF Grows, storage_register_user, e, row

(* A rename, refused or not, keeps the accounts well formed.               *)
LEMMA UpdateNameType ==
  ASSUME NEW d, DatabaseOK(d), NEW uid \in Registered(d),
         NEW username \in Usernames \cup {Empty}
  PROVE  Grows(d, storage_update_name(d, uid, username))
<1> DEFINE e == [d EXCEPT !.users[uid].username = username]
<1>1. CASE username \in Usernames
  <2> DEFINE row == [d.users[uid] EXCEPT !.username = username]
  <2>0. row \in UserRow
    BY <1>1, RegisteredUids DEF UserRow
  <2>1. /\ [d.users EXCEPT ![uid] = row] \in Seq(UserRow)
        /\ Len([d.users EXCEPT ![uid] = row]) = Len(d.users)
        /\ DOMAIN [d.users EXCEPT ![uid] = row] = DOMAIN d.users
    BY <2>0, DatabaseFields, ReplaceInSeq DEF Registered
  <2>2. /\ e \in Database /\ e.messages = d.messages
        /\ e.users = [d.users EXCEPT ![uid] = row]
    BY <2>1 DEF DatabaseOK, Database
  <2>3. Registered(e) = Registered(d)
    BY <2>1, <2>2 DEF Registered
  <2>4. Grows(d, e)
    BY <2>1, <2>2, <2>3 DEF Grows, DatabaseOK
  <2> QED BY <2>4 DEF Grows, storage_update_name, update_username
<1>2. CASE username = Empty
  BY <1>2 DEF Grows, storage_update_name
<1> QED BY <1>1, <1>2

(* storage_update_user keeps every account and its row well formed.        *)
LEMMA UpdateUserType ==
  ASSUME NEW d, DatabaseOK(d), NEW uid \in Registered(d),
         NEW username \in Usernames \cup {Empty},
         NEW password \in Passwords \cup {Empty}, NEW salt \in Salts
  PROVE  Grows(d, storage_update_user(d, uid, username, password, salt))
<1> DEFINE n == storage_update_name(d, uid, username)
           hash == crypt(password, salt)
           e == [n EXCEPT !.users[uid].password_hash = hash]
<1>0. Grows(d, n)
  BY UpdateNameType
<1>1. CASE password \in Passwords
  <2>1. uid \in Registered(n) /\ DatabaseOK(n)
    BY <1>0 DEF Grows
  <2>2. hash \in [salt : Salts, password : Passwords]
    BY <1>1 DEF crypt
  <2> HIDE DEF n, hash
  <2> DEFINE row == [n.users[uid] EXCEPT !.password_hash = hash]
  <2>0. row \in UserRow
    BY <2>1, <2>2, RegisteredUids DEF UserRow
  <2>3. /\ [n.users EXCEPT ![uid] = row] \in Seq(UserRow)
        /\ Len([n.users EXCEPT ![uid] = row]) = Len(n.users)
        /\ DOMAIN [n.users EXCEPT ![uid] = row] = DOMAIN n.users
    BY <2>0, <2>1, DatabaseFields, ReplaceInSeq DEF Registered
  <2>4. /\ e \in Database /\ e.messages = n.messages
        /\ e.users = [n.users EXCEPT ![uid] = row]
    BY <2>1, <2>3 DEF DatabaseOK, Database
  <2>5. Registered(e) = Registered(n)
    BY <2>3, <2>4 DEF Registered
  <2>6. Grows(d, e)
    BY <1>0, <2>1, <2>3, <2>4, <2>5 DEF Grows, DatabaseOK
  <2> QED BY <1>0, <2>6 DEF storage_update_user, update_password, n, hash
<1>2. CASE password = Empty
  BY <1>0, <1>2 DEF storage_update_user
<1> QED BY <1>1, <1>2

(* An operator that leaves users alone and adds no message.                *)
LEMMA SameAccounts ==
  ASSUME NEW d, DatabaseOK(d), NEW e \in Database,
         e.users = d.users, e.messages \subseteq d.messages
  PROVE  Grows(d, e)
BY FS_Subset DEF Grows, DatabaseOK, Registered

(* storage_add_request adds a row between two uids.                        *)
LEMMA AddRequestType ==
  ASSUME NEW d, DatabaseOK(d), NEW a \in Uids, NEW b \in Uids
  PROVE  Grows(d, storage_add_request(d, a, b))
<1> DEFINE rows == d.requests \cup {<<a, b>>}
           e == storage_add_request(d, a, b)
<1>1. rows \in SUBSET (Uids \X Uids)
  BY DatabaseFields
<1>2. e = d \/ e = [d EXCEPT !.requests = rows]
  BY DEF storage_add_request
<1> HIDE DEF rows
<1>3. e \in Database /\ e.users = d.users /\ e.messages = d.messages
  BY <1>1, <1>2 DEF DatabaseOK, Database
<1> QED BY <1>3, SameAccounts

(* storage_remove_request only takes rows away.                            *)
LEMMA RemoveRequestType ==
  ASSUME NEW d, DatabaseOK(d), NEW a, NEW b
  PROVE  Grows(d, storage_remove_request(d, a, b))
<1> DEFINE e == storage_remove_request(d, a, b)
<1>1. e \in Database /\ e.users = d.users /\ e.messages = d.messages
  BY DEF DatabaseOK, Database, storage_remove_request
<1> QED BY <1>1, SameAccounts

(* storage_add_friendship adds rows between two uids.                      *)
LEMMA AddFriendshipType ==
  ASSUME NEW d, DatabaseOK(d), NEW a \in Uids, NEW b \in Uids
  PROVE  Grows(d, storage_add_friendship(d, a, b))
<1> DEFINE rows == d.contacts \cup {<<a, b>>, <<b, a>>}
           e == storage_add_friendship(d, a, b)
<1>1. rows \in SUBSET (Uids \X Uids)
  BY DatabaseFields
<1>2. e = d \/ e = [d EXCEPT !.contacts = rows]
  BY DEF storage_add_friendship
<1> HIDE DEF rows
<1>3. e \in Database /\ e.users = d.users /\ e.messages = d.messages
  BY <1>1, <1>2 DEF DatabaseOK, Database
<1> QED BY <1>3, SameAccounts

(* The rows storage_create_conversation writes, for n participants.        *)
CreatedRow(d, type, uids, n) ==
  [u \in Uids |->
     IF \E i \in 1..n : uids[i] = u
       THEN IF u = uids[1] /\ type = CONV_TYPE_GROUP THEN ROLE_ADMIN ELSE ROLE_MEMBER
       ELSE d.participants[d.conv_seq + 1][u]]

(* e is d with the conversation row and the first n participant rows in.   *)
Created(d, e, type, name, uids, n) ==
  LET c == d.conv_seq + 1
  IN  /\ e \in Database
      /\ c \in ConvIds
      /\ e.users = d.users /\ e.contacts = d.contacts
      /\ e.requests = d.requests /\ e.messages = d.messages
      /\ e.conv_seq = c
      /\ e.conversations = [d.conversations EXCEPT ![c] = [type |-> type, name |-> name]]
      /\ e.participants = [d.participants EXCEPT ![c] = CreatedRow(d, type, uids, n)]

(* What storage_create_conversation writes, and where, after n rows.       *)
LEMMA CreateConversationFields ==
  ASSUME NEW d, DatabaseOK(d), d.conv_seq < MaxConvs,
         NEW type \in {CONV_TYPE_PRIVATE, CONV_TYPE_GROUP},
         NEW name \in Names \cup {PRIVATE_NAME}, NEW uids, NEW n
  PROVE  Created(d, storage_create_conversation(d, type, name, uids, n),
                 type, name, uids, n)
<1> DEFINE c == d.conv_seq + 1
           convs == [d.conversations EXCEPT ![c] = [type |-> type, name |-> name]]
           parts == [d.participants EXCEPT ![c] = CreatedRow(d, type, uids, n)]
           e == storage_create_conversation(d, type, name, uids, n)
<1>0. c \in ConvIds /\ c \in 0..MaxConvs
  BY DatabaseFields, BoundsAreNaturals DEF BoundsAreNaturals, ConvIds
<1>1. convs \in ConversationTable
  BY <1>0, DatabaseFields DEF ConversationTable
<1>2. parts \in ParticipantTable
  BY <1>0, DatabaseFields DEF ParticipantTable, CreatedRow
<1>3. e = [d EXCEPT !.conv_seq = c, !.conversations = convs, !.participants = parts]
  BY DEF storage_create_conversation, next_conv_id, initial_role, CreatedRow, DatabaseOK, Database
<1> HIDE DEF convs, parts, e, c
<1>4. /\ e \in Database
      /\ e.users = d.users /\ e.contacts = d.contacts
      /\ e.requests = d.requests /\ e.messages = d.messages
      /\ e.conv_seq = c /\ e.conversations = convs /\ e.participants = parts
  BY <1>0, <1>1, <1>2, <1>3
  DEF DatabaseOK, Database, ConversationTable, ParticipantTable
<1> QED BY <1>0, <1>4 DEF convs, parts, e, c, Created

(* A conversation cut short after any row is still well formed.            *)
LEMMA CreateConversationType ==
  ASSUME NEW d, DatabaseOK(d), d.conv_seq < MaxConvs,
         NEW type \in {CONV_TYPE_PRIVATE, CONV_TYPE_GROUP},
         NEW name \in Names \cup {PRIVATE_NAME}, NEW uids, NEW n
  PROVE  Grows(d, storage_create_conversation(d, type, name, uids, n))
<1> DEFINE e == storage_create_conversation(d, type, name, uids, n)
<1>1. Created(d, e, type, name, uids, n)
  BY CreateConversationFields
<1> HIDE DEF e
<1>2. e \in Database /\ e.users = d.users /\ e.messages = d.messages
  BY <1>1 DEF Created
<1>3. Grows(d, e)
  BY <1>2, SameAccounts
<1> QED BY <1>3 DEF e

(* storage_update_group changes one name.                                  *)
LEMMA UpdateGroupType ==
  ASSUME NEW d, DatabaseOK(d), NEW c \in ConvIds, NEW name \in Names
  PROVE  Grows(d, storage_update_group(d, c, name))
<1> DEFINE convs == [d.conversations EXCEPT ![c].name = name]
           e == storage_update_group(d, c, name)
<1>1. convs \in ConversationTable
  BY DatabaseFields DEF ConversationTable
<1>2. e = d \/ e = [d EXCEPT !.conversations = convs]
  BY DEF storage_update_group, DatabaseOK, Database
<1> HIDE DEF convs
<1>3. e \in Database /\ e.users = d.users /\ e.messages = d.messages
  BY <1>1, <1>2 DEF DatabaseOK, Database, ConversationTable
<1> QED BY <1>3, SameAccounts

(* storage_add_participant changes one role.                               *)
LEMMA AddParticipantType ==
  ASSUME NEW d, DatabaseOK(d), NEW c \in ConvIds, NEW u \in Uids
  PROVE  Grows(d, storage_add_participant(d, c, u, ROLE_MEMBER))
<1> DEFINE parts == [d.participants EXCEPT ![c][u] = ROLE_MEMBER]
           e == storage_add_participant(d, c, u, ROLE_MEMBER)
<1>1. parts \in ParticipantTable
  BY DatabaseFields DEF ParticipantTable
<1>2. e = d \/ e = [d EXCEPT !.participants = parts]
  BY DEF storage_add_participant, DatabaseOK, Database
<1> HIDE DEF parts
<1>3. e \in Database /\ e.users = d.users /\ e.messages = d.messages
  BY <1>1, <1>2 DEF DatabaseOK, Database, ParticipantTable
<1> QED BY <1>3, SameAccounts

(* storage_remove_participant clears one role.                             *)
LEMMA RemoveParticipantType ==
  ASSUME NEW d, DatabaseOK(d), NEW c \in ConvIds, NEW u \in Uids
  PROVE  Grows(d, storage_remove_participant(d, c, u))
<1> DEFINE parts == [d.participants EXCEPT ![c][u] = NoRow]
           e == storage_remove_participant(d, c, u)
<1>1. parts \in ParticipantTable
  BY DatabaseFields DEF ParticipantTable
<1>2. e = [d EXCEPT !.participants = parts]
  BY DEF storage_remove_participant, DatabaseOK, Database
<1> HIDE DEF parts
<1>3. e \in Database /\ e.users = d.users /\ e.messages = d.messages
  BY <1>1, <1>2 DEF DatabaseOK, Database, ParticipantTable
<1> QED BY <1>3, SameAccounts

(* What each prefix of the three DELETE statements leaves.                 *)
LEMMA DeleteConversationFields ==
  ASSUME NEW d, DatabaseOK(d), NEW c \in ConvIds, NEW n \in 0..3
  PROVE  LET e == storage_delete_conversation(d, c, n)
         IN  /\ e \in Database
             /\ e.users = d.users /\ e.contacts = d.contacts
             /\ e.requests = d.requests /\ e.conv_seq = d.conv_seq
             /\ e.messages \subseteq d.messages
             /\ e.participants =
                  IF n >= 2 THEN [d.participants EXCEPT ![c] = [u \in Uids |-> NoRow]]
                            ELSE d.participants
             /\ e.conversations =
                  IF n >= 3 THEN [d.conversations EXCEPT ![c] = NoConversation]
                            ELSE d.conversations
<1> DEFINE msgs == IF n >= 1 THEN {m \in d.messages : m.conv_id # c} ELSE d.messages
           parts == IF n >= 2 THEN [d.participants EXCEPT ![c] = [u \in Uids |-> NoRow]]
                              ELSE d.participants
           convs == IF n >= 3 THEN [d.conversations EXCEPT ![c] = NoConversation]
                              ELSE d.conversations
           e == storage_delete_conversation(d, c, n)
<1>1. msgs \subseteq d.messages /\ msgs \subseteq MessageRow
  BY DatabaseFields
<1>2. parts \in ParticipantTable
  BY DatabaseFields DEF ParticipantTable
<1>3. convs \in ConversationTable
  BY DatabaseFields DEF ConversationTable, NoConversation
<1>4. d.participants = [d.participants EXCEPT ![c] = @]
  BY DatabaseFields DEF ParticipantTable
<1>5. d.conversations = [d.conversations EXCEPT ![c] = @]
  BY DatabaseFields DEF ConversationTable
<1>6. e = [d EXCEPT !.messages = msgs, !.participants = parts, !.conversations = convs]
  BY <1>4, <1>5 DEF storage_delete_conversation
<1> HIDE DEF msgs, parts, convs, e
<1>7. /\ e \in Database
      /\ e.users = d.users /\ e.contacts = d.contacts
      /\ e.requests = d.requests /\ e.conv_seq = d.conv_seq
      /\ e.messages = msgs /\ e.participants = parts /\ e.conversations = convs
  BY <1>1, <1>2, <1>3, <1>6
  DEF DatabaseOK, Database, ConversationTable, ParticipantTable, MessageRow
<1> QED BY <1>1, <1>7 DEF parts, convs, e

(* A deletion cut short after any statement is still well formed.          *)
LEMMA DeleteConversationType ==
  ASSUME NEW d, DatabaseOK(d), NEW c \in ConvIds, NEW n \in 0..3
  PROVE  Grows(d, storage_delete_conversation(d, c, n))
<1> DEFINE e == storage_delete_conversation(d, c, n)
<1>1. e \in Database /\ e.users = d.users /\ e.messages \subseteq d.messages
  BY DeleteConversationFields
<1> QED BY <1>1, SameAccounts

(* storage_log_message adds one row sent by an account.                    *)
LEMMA LogMessageType ==
  ASSUME NEW d, DatabaseOK(d), d.msg_seq < MaxMessages, NEW key \in Keys,
         NEW c \in ConvIds, NEW uid \in Registered(d), NEW text \in Texts,
         NEW now \in Times
  PROVE  Grows(d, storage_log_message(d, key, c, uid, text, now))
<1> DEFINE row == [id |-> d.msg_seq + 1, conv_id |-> c, sender_id |-> uid,
                   text |-> crypto_encrypt(key, text), timestamp |-> now]
           e == storage_log_message(d, key, c, uid, text, now)
<1>1. d.msg_seq + 1 \in MsgIds /\ d.msg_seq + 1 \in 0..MaxMessages
  BY DatabaseFields, BoundsAreNaturals DEF BoundsAreNaturals, MsgIds
<1>2. row \in MessageRow /\ row.sender_id = uid
  BY <1>1, RegisteredUids DEF MessageRow, crypto_encrypt
<1>3. e = [d EXCEPT !.msg_seq = @ + 1, !.messages = @ \cup {row}]
  BY DEF storage_log_message
<1> HIDE DEF row, e
<1>4. /\ e \in Database /\ e.users = d.users
      /\ e.messages = d.messages \cup {row}
  BY <1>1, <1>2, <1>3 DEF DatabaseOK, Database, MessageRow
<1>5. IsFiniteSet(e.messages)
  BY <1>4, FS_AddElement DEF DatabaseOK
<1>6. Registered(e) = Registered(d) /\ Len(e.users) <= MaxUsers
  BY <1>4 DEF Registered, DatabaseOK
<1>7. \A m \in e.messages : m.sender_id \in Registered(e)
  BY <1>2, <1>4, <1>6 DEF DatabaseOK
<1>8. DatabaseOK(e)
  BY <1>4, <1>5, <1>6, <1>7 DEF DatabaseOK
<1> QED BY <1>6, <1>8 DEF Grows, e

-----------------------------------------------------------------------------
(* Queries return rows of the shape their packets carry.                   *)

(* A set of naturals has a least element, so Min chooses one of its own.   *)
LEMMA MinIsMember ==
  ASSUME NEW S, S \subseteq Nat, S # {}
  PROVE  Min(S) \in S
<1>1. \E x \in S : \A y \in S : ~(<<y, x>> \in OpToRel(<, Nat))
  BY NatLessThanWellFounded, WFMin
<1>2. \A x, y \in Nat : <<y, x>> \notin OpToRel(<, Nat) => x <= y
  BY DEF OpToRel
<1>3. \E x \in S : \A y \in S : x <= y
  BY <1>1, <1>2
<1> QED BY <1>3 DEF Min

(* A row of a contact or request list.                                     *)
LEMMA SummaryType ==
  ASSUME NEW d, DatabaseOK(d), NEW u \in Registered(d)
  PROVE  summary(d, u) \in ContactSummary
BY RegisteredUids DEF summary, ContactSummary, UserRow

(* The contact and request lists hold summaries of accounts.               *)
LEMMA ContactsType ==
  ASSUME NEW d, DatabaseOK(d), NEW uid
  PROVE  /\ storage_get_contacts_data(d, uid) \in SUBSET ContactSummary
         /\ storage_get_requests_data(d, uid) \in SUBSET ContactSummary
BY SummaryType DEF storage_get_contacts_data, storage_get_requests_data, FirstRows

(* 0 is returned exactly when no private chat is shared.                   *)
LEMMA FindPrivateType ==
  ASSUME NEW d, NEW a, NEW b
  PROVE  /\ storage_find_private_conversation(d, a, b) \in ConvIds \cup {0}
         /\ storage_find_private_conversation(d, a, b) = 0
              <=> PrivateConversations(d, a, b) = {}
<1> DEFINE found == PrivateConversations(d, a, b)
<1>1. found \subseteq ConvIds /\ ConvIds \subseteq Nat /\ 0 \notin ConvIds
  BY BoundsAreNaturals DEF BoundsAreNaturals, PrivateConversations, ConvIds
<1>2. found # {} => Min(found) \in found
  BY <1>1, MinIsMember
<1> QED BY <1>1, <1>2 DEF storage_find_private_conversation

(* The title shown for a conversation is one the clients know.             *)
LEMMA TitleType ==
  ASSUME NEW d, DatabaseOK(d), NEW c \in ConvIds, NEW uid
  PROVE  conversation_title(d, c, uid) \in Title
<1> DEFINE others == {u \in Registered(d) : u # uid /\ IsParticipant(d, c, u)}
<1>1. others \subseteq Registered(d) /\ Registered(d) \subseteq Nat
  BY RegisteredUids, BoundsAreNaturals DEF BoundsAreNaturals, Uids
<1>2. others # {} => Min(others) \in Registered(d)
  BY <1>1, MinIsMember
<1> HIDE DEF others
<1>3. others # {} => d.users[Min(others)].username \in Usernames
  BY <1>2, RegisteredUids DEF UserRow
<1>4. d.conversations[c].name \in Names \cup {PRIVATE_NAME}
  BY DatabaseFields DEF ConversationTable
<1>5. conversation_title(d, c, uid)
        = IF d.conversations[c].type # CONV_TYPE_PRIVATE
            THEN <<"group", d.conversations[c].name>>
          ELSE IF others # {} THEN <<"Private with", d.users[Min(others)].username>>
          ELSE <<"Private Chat", Empty>>
  BY DEF conversation_title, others
<1>6. \A n \in Names \cup {PRIVATE_NAME} : <<"group", n>> \in Title
  BY DEF Title
<1>7. \A n \in Usernames : <<"Private with", n>> \in Title
  BY DEF Title
<1>8. <<"Private Chat", Empty>> \in Title
  BY DEF Title
<1> QED BY <1>3, <1>4, <1>5, <1>6, <1>7, <1>8

(* The conversation list holds summaries of conversations.                 *)
LEMMA ConversationsType ==
  ASSUME NEW d, DatabaseOK(d), NEW uid \in Uids
  PROVE  storage_get_user_conversations(d, uid) \in SUBSET ConversationSummary
<1> SUFFICES ASSUME NEW c \in ConvIds, Exists(d, c), IsParticipant(d, c, uid)
             PROVE  [conv_id |-> c, type |-> d.conversations[c].type,
                     name |-> conversation_title(d, c, uid),
                     my_role |-> d.participants[c][uid]] \in ConversationSummary
  BY DEF storage_get_user_conversations, conversations_of, FirstRows
<1>1. conversation_title(d, c, uid) \in Title
  BY TitleType
<1>2. d.conversations[c].type \in {CONV_TYPE_PRIVATE, CONV_TYPE_GROUP}
  BY DatabaseFields DEF ConversationTable, Exists
<1>3. d.participants[c][uid] \in {ROLE_MEMBER, ROLE_ADMIN}
  BY DatabaseFields DEF ParticipantTable, IsParticipant
<1> QED BY <1>1, <1>2, <1>3 DEF ConversationSummary

(* The member list holds summaries of accounts.                            *)
LEMMA MembersType ==
  ASSUME NEW d, DatabaseOK(d), NEW c \in ConvIds
  PROVE  storage_get_group_members(d, c) \in SUBSET GroupMemberSummary
<1> SUFFICES ASSUME NEW u \in Registered(d), IsParticipant(d, c, u)
             PROVE  [uid |-> u, username |-> d.users[u].username,
                     role |-> d.participants[c][u]] \in GroupMemberSummary
  BY DEF storage_get_group_members, FirstRows
<1>1. u \in Uids /\ d.users[u].username \in Usernames
  BY RegisteredUids DEF UserRow
<1>2. d.participants[c][u] \in {ROLE_MEMBER, ROLE_ADMIN}
  BY <1>1, DatabaseFields DEF ParticipantTable, IsParticipant
<1> QED BY <1>1, <1>2 DEF GroupMemberSummary

(* A history holds numbered lines by accounts.                             *)
LEMMA HistoryType ==
  ASSUME NEW d, DatabaseOK(d), NEW key, NEW c
  PROVE  storage_get_history(d, key, c) \in SUBSET HistoryLine
<1> SUFFICES ASSUME NEW m \in d.messages
             PROVE  [line |-> position(d, m), id |-> m.id,
                     username |-> d.users[m.sender_id].username,
                     text |-> crypto_decrypt(key, m.text)] \in HistoryLine
  BY DEF storage_get_history, messages_of
<1>1. m \in MessageRow /\ m.sender_id \in Registered(d)
  BY DatabaseFields DEF DatabaseOK
<1>2. d.users[m.sender_id].username \in Usernames
  BY <1>1, RegisteredUids DEF UserRow
<1>3. position(d, m) \in Nat
  <2> DEFINE earlier == {x \in messages_of(d, m.conv_id) : Before(x, m)}
  <2>1. earlier \in SUBSET d.messages
    BY DEF messages_of
  <2>2. IsFiniteSet(earlier)
    BY <2>1, FS_Subset DEF DatabaseOK
  <2> QED BY <2>2, FS_CardinalityType DEF position
<1>4. crypto_decrypt(key, m.text) \in Texts \cup {UNREADABLE}
  BY <1>1 DEF crypto_decrypt, MessageRow
<1> QED BY <1>1, <1>2, <1>3, <1>4 DEF HistoryLine, MessageRow

-----------------------------------------------------------------------------
(* Integrity.  Every single SQL statement of storage.c, and every prefix   *)
(* of the ones that run several, keeps the database consistent.  This is   *)
(* what makes a crash between two statements harmless.                     *)

(* Ids above the AUTOINCREMENT counter are not in use.  The counter is what*)
(* the next conversation is built on, so this has to be carried along.     *)
UnusedIdsFree(d) == \A c \in ConvIds : c > d.conv_seq => ~Exists(d, c)

ChatsOK(d) ==
  /\ UniquePrivateChats(d)
  /\ ClosedPrivateChats(d)
  /\ OneAdmin(d)
  /\ RowsHaveConversation(d)
  /\ UnusedIdsFree(d)

Integrity(d) == MutualContacts(d) /\ UniqueUsers(d) /\ ChatsOK(d)

USE DEF Exists, IsParticipant, storage_is_admin

(* Statements on other tables do not disturb the conversations.            *)
LEMMA SameChats ==
  ASSUME NEW d, ChatsOK(d), NEW e, e.conversations = d.conversations,
         e.participants = d.participants, e.conv_seq = d.conv_seq
  PROVE  ChatsOK(e)
BY DEF ChatsOK, UniquePrivateChats, ClosedPrivateChats, OneAdmin,
       RowsHaveConversation, UnusedIdsFree, PrivateConversations

(* storage_init                                                            *)
LEMMA EmptyDatabaseIntegrity == Integrity(EmptyDatabase)
<1>1. \A c \in ConvIds : /\ EmptyDatabase.conversations[c].type = NoRow
                         /\ \A u \in Uids : EmptyDatabase.participants[c][u] = NoRow
  BY DEF EmptyDatabase, NoConversation
<1>2. EmptyDatabase.contacts = {} /\ Registered(EmptyDatabase) = {}
  BY DEF EmptyDatabase, Registered
<1>3. ChatsOK(EmptyDatabase)
  BY <1>1 DEF ChatsOK, UniquePrivateChats, ClosedPrivateChats, OneAdmin,
              RowsHaveConversation, UnusedIdsFree, PrivateConversations
<1>4. MutualContacts(EmptyDatabase) /\ UniqueUsers(EmptyDatabase)
  BY <1>2 DEF MutualContacts, UniqueUsers
<1> QED BY <1>3, <1>4 DEF Integrity

-----------------------------------------------------------------------------
(* Creating a conversation, up to any number n of participant rows.        *)

(* The new row belongs to nobody before, and only the new id changes.      *)
LEMMA CreatedParts ==
  ASSUME NEW d, DatabaseOK(d), ChatsOK(d), NEW e, NEW type, NEW name, NEW uids, NEW n,
         Created(d, e, type, name, uids, n)
  PROVE  LET c == d.conv_seq + 1
         IN  /\ c \in ConvIds
             /\ \A x \in ConvIds : x # c =>
                  /\ e.conversations[x] = d.conversations[x]
                  /\ e.participants[x] = d.participants[x]
             /\ e.conversations[c].type = type
             /\ \A u \in Uids :
                  /\ IsParticipant(e, c, u) <=> \E i \in 1..n : uids[i] = u
                  /\ storage_is_admin(e, c, u) <=>
                       /\ \E i \in 1..n : uids[i] = u
                       /\ u = uids[1] /\ type = CONV_TYPE_GROUP
             /\ e.conv_seq = c
<1> DEFINE c == d.conv_seq + 1
<1>1. d.conv_seq \in Nat /\ c > d.conv_seq
  BY DatabaseFields
<1>2. c \in ConvIds /\ e.conv_seq = c
  BY DEF Created
<1>3. \A u \in Uids : d.participants[c][u] = NoRow
  BY <1>1, <1>2 DEF ChatsOK, RowsHaveConversation, UnusedIdsFree
<1>4. e.participants = [d.participants EXCEPT ![c] = CreatedRow(d, type, uids, n)]
  BY DEF Created
<1>5. e.conversations = [d.conversations EXCEPT ![c] = [type |-> type, name |-> name]]
  BY DEF Created
<1>6. /\ c \in DOMAIN d.participants /\ c \in DOMAIN d.conversations
  BY <1>2, DatabaseFields DEF ParticipantTable, ConversationTable
<1>7. \A u \in Uids : e.participants[c][u] = CreatedRow(d, type, uids, n)[u]
  BY <1>4, <1>6
<1>8. \A u \in Uids :
        /\ IsParticipant(e, c, u) <=> \E i \in 1..n : uids[i] = u
        /\ storage_is_admin(e, c, u) <=>
             /\ \E i \in 1..n : uids[i] = u
             /\ u = uids[1] /\ type = CONV_TYPE_GROUP
  BY <1>3, <1>7 DEF CreatedRow
<1>9. /\ \A x \in ConvIds : x # c =>
           /\ e.conversations[x] = d.conversations[x]
           /\ e.participants[x] = d.participants[x]
      /\ e.conversations[c].type = type
  BY <1>4, <1>5, <1>6, DatabaseFields DEF ParticipantTable, ConversationTable
<1> QED BY <1>2, <1>8, <1>9

(* A group is inserted with its creator, the admin, first.                 *)
LEMMA CreateGroupChats ==
  ASSUME NEW d, DatabaseOK(d), ChatsOK(d), NEW e, NEW name, NEW uids, NEW n \in Nat,
         uids[1] \in Uids, Created(d, e, CONV_TYPE_GROUP, name, uids, n)
  PROVE  ChatsOK(e)
<1> DEFINE c == d.conv_seq + 1
<1>1. /\ c \in ConvIds /\ e.conv_seq = c /\ d.conv_seq \in Nat
      /\ \A x \in ConvIds : x # c =>
           /\ e.conversations[x] = d.conversations[x]
           /\ e.participants[x] = d.participants[x]
      /\ e.conversations[c].type = CONV_TYPE_GROUP
      /\ \A u \in Uids :
           /\ IsParticipant(e, c, u) <=> \E i \in 1..n : uids[i] = u
           /\ storage_is_admin(e, c, u) <=>
                (\E i \in 1..n : uids[i] = u) /\ u = uids[1]
  BY CreatedParts, DatabaseFields
<1> HIDE DEF c
<1>2. UniquePrivateChats(e)
  BY <1>1 DEF ChatsOK, UniquePrivateChats, PrivateConversations
<1>3. ClosedPrivateChats(e)
  <2> SUFFICES ASSUME NEW x \in ConvIds, e.conversations[x].type = CONV_TYPE_PRIVATE
               PROVE  /\ \E p, q \in Uids : \A u \in Uids :
                           IsParticipant(e, x, u) => u \in {p, q}
                      /\ \A u \in Uids : ~storage_is_admin(e, x, u)
    BY DEF ClosedPrivateChats
  <2>1. /\ x # c /\ e.participants[x] = d.participants[x]
        /\ d.conversations[x].type = CONV_TYPE_PRIVATE
    BY <1>1
  <2> QED BY <2>1 DEF ChatsOK, ClosedPrivateChats
<1>4. RowsHaveConversation(e)
  BY <1>1 DEF ChatsOK, RowsHaveConversation
<1>5. UnusedIdsFree(e)
  BY <1>1, BoundsAreNaturals DEF BoundsAreNaturals, ChatsOK, UnusedIdsFree, ConvIds, c
<1>6. OneAdmin(e)
  <2> SUFFICES ASSUME NEW x \in ConvIds, NEW u \in Uids,
                      e.conversations[x].type = CONV_TYPE_GROUP, IsParticipant(e, x, u)
               PROVE  \E a \in Uids : \A v \in Uids : storage_is_admin(e, x, v) <=> (v = a)
    BY DEF OneAdmin
  <2>1. CASE x # c
    BY <1>1, <2>1 DEF ChatsOK, OneAdmin
  <2>2. CASE x = c
    <3>1. \E i \in 1..n : uids[i] = uids[1]
      BY <1>1, <2>2
    <3> QED BY <1>1, <2>2, <3>1
  <2> QED BY <2>1, <2>2
<1> QED BY <1>2, <1>3, <1>4, <1>5, <1>6 DEF ChatsOK

(* A private chat is inserted only for two users who share none.           *)
LEMMA CreatePrivateChats ==
  ASSUME NEW d, DatabaseOK(d), ChatsOK(d), NEW e, NEW name,
         NEW a \in Uids, NEW b \in Uids, NEW n \in 0..2,
         PrivateConversations(d, a, b) = {},
         Created(d, e, CONV_TYPE_PRIVATE, name, <<a, b>>, n)
  PROVE  ChatsOK(e)
<1> DEFINE c == d.conv_seq + 1
           uids == <<a, b>>
<1>1. /\ c \in ConvIds /\ e.conv_seq = c /\ d.conv_seq \in Nat
      /\ \A x \in ConvIds : x # c =>
           /\ e.conversations[x] = d.conversations[x]
           /\ e.participants[x] = d.participants[x]
      /\ e.conversations[c].type = CONV_TYPE_PRIVATE
      /\ \A u \in Uids :
           /\ IsParticipant(e, c, u) <=> \E i \in 1..n : uids[i] = u
           /\ ~storage_is_admin(e, c, u)
  BY CreatedParts, DatabaseFields
<1>2. \A u \in Uids : IsParticipant(e, c, u) => u \in {a, b}
  BY <1>1
<1> HIDE DEF c
<1>3. UniquePrivateChats(e)
  <2> SUFFICES ASSUME NEW u \in Uids, NEW v \in Uids, u # v,
                      NEW x \in PrivateConversations(e, u, v),
                      NEW y \in PrivateConversations(e, u, v), x # y
               PROVE  FALSE
    BY DEF UniquePrivateChats
  <2>1. \A z \in PrivateConversations(e, u, v) :
          z # c => z \in PrivateConversations(d, u, v)
    BY <1>1 DEF PrivateConversations
  <2>2. CASE x # c /\ y # c
    BY <2>1, <2>2 DEF ChatsOK, UniquePrivateChats
  <2>3. CASE x = c \/ y = c
    <3>1. {u, v} = {a, b}
      BY <1>2, <2>3 DEF PrivateConversations
    <3>2. PrivateConversations(d, u, v) = {}
      BY <3>1 DEF PrivateConversations
    <3> QED BY <2>1, <2>3, <3>2
  <2> QED BY <2>2, <2>3
<1>4. ClosedPrivateChats(e)
  <2> SUFFICES ASSUME NEW x \in ConvIds, e.conversations[x].type = CONV_TYPE_PRIVATE
               PROVE  /\ \E p, q \in Uids : \A u \in Uids :
                           IsParticipant(e, x, u) => u \in {p, q}
                      /\ \A u \in Uids : ~storage_is_admin(e, x, u)
    BY DEF ClosedPrivateChats
  <2>1. CASE x = c
    BY <1>1, <1>2, <2>1
  <2>2. CASE x # c
    <3>1. /\ e.participants[x] = d.participants[x]
          /\ d.conversations[x].type = CONV_TYPE_PRIVATE
      BY <1>1, <2>2
    <3> QED BY <3>1 DEF ChatsOK, ClosedPrivateChats
  <2> QED BY <2>1, <2>2
<1>5. RowsHaveConversation(e)
  BY <1>1 DEF ChatsOK, RowsHaveConversation
<1>6. UnusedIdsFree(e)
  BY <1>1, BoundsAreNaturals DEF BoundsAreNaturals, ChatsOK, UnusedIdsFree, ConvIds, c
<1>7. OneAdmin(e)
  BY <1>1 DEF ChatsOK, OneAdmin
<1> QED BY <1>3, <1>4, <1>5, <1>6, <1>7 DEF ChatsOK

-----------------------------------------------------------------------------
(* Statements on the rows of one existing conversation.                    *)

(* storage_update_group keeps type and participants.                       *)
LEMMA UpdateGroupChats ==
  ASSUME NEW d, DatabaseOK(d), ChatsOK(d), NEW c \in ConvIds, NEW name \in Names
  PROVE  ChatsOK(storage_update_group(d, c, name))
<1> DEFINE e == storage_update_group(d, c, name)
<1>1. d.conversations \in ConversationTable
  BY DatabaseFields
<1>2. /\ e.participants = d.participants /\ e.conv_seq = d.conv_seq
      /\ e.conversations = d.conversations
           \/ e.conversations = [d.conversations EXCEPT ![c].name = name]
  BY DEF storage_update_group, DatabaseOK, Database
<1> HIDE DEF e
<1>3. \A x \in ConvIds : e.conversations[x].type = d.conversations[x].type
  BY <1>1, <1>2 DEF ConversationTable
<1>4. ChatsOK(e)
  BY <1>2, <1>3 DEF ChatsOK, UniquePrivateChats, ClosedPrivateChats, OneAdmin,
       RowsHaveConversation, UnusedIdsFree, PrivateConversations
<1> QED BY <1>4 DEF e

(* Only an admin adds or removes members, so the conversation is a group   *)
(* that exists and this admin is its only one.                             *)
LEMMA AdminRunsGroup ==
  ASSUME NEW d, DatabaseOK(d), ChatsOK(d), NEW c \in ConvIds, NEW me \in Uids,
         storage_is_admin(d, c, me)
  PROVE  /\ d.conversations[c].type = CONV_TYPE_GROUP
         /\ \A v \in Uids : storage_is_admin(d, c, v) <=> (v = me)
<1>1. d.conversations[c].type \in {NoRow, CONV_TYPE_PRIVATE, CONV_TYPE_GROUP}
  BY DatabaseFields DEF ConversationTable
<1>2. d.conversations[c].type = CONV_TYPE_GROUP
  BY <1>1 DEF ChatsOK, ClosedPrivateChats, RowsHaveConversation
<1>3. \E a \in Uids : \A v \in Uids : storage_is_admin(d, c, v) <=> (v = a)
  BY <1>2 DEF ChatsOK, OneAdmin
<1> QED BY <1>2, <1>3

(* e differs from d in rows of c that are not the admin's.                 *)
OnlyMemberRows(d, e, c) ==
  /\ e.conversations = d.conversations /\ e.conv_seq = d.conv_seq
  /\ \A x \in ConvIds : x # c => e.participants[x] = d.participants[x]
  /\ \A u \in Uids : storage_is_admin(e, c, u) <=> storage_is_admin(d, c, u)

(* Changing member rows of a group keeps the conversations in order.       *)
LEMMA MemberRowChats ==
  ASSUME NEW d, DatabaseOK(d), ChatsOK(d), NEW c \in ConvIds, NEW me \in Uids,
         storage_is_admin(d, c, me), NEW e, OnlyMemberRows(d, e, c)
  PROVE  ChatsOK(e)
<1>0. /\ e.conversations = d.conversations /\ e.conv_seq = d.conv_seq
      /\ \A x \in ConvIds : x # c => e.participants[x] = d.participants[x]
      /\ \A u \in Uids : storage_is_admin(e, c, u) <=> storage_is_admin(d, c, u)
  BY DEF OnlyMemberRows
<1>1. /\ d.conversations[c].type = CONV_TYPE_GROUP
      /\ \A v \in Uids : storage_is_admin(e, c, v) <=> (v = me)
  BY <1>0, AdminRunsGroup
<1>2. UniquePrivateChats(e)
  BY <1>0, <1>1 DEF ChatsOK, UniquePrivateChats, PrivateConversations
<1>3. ClosedPrivateChats(e)
  <2> SUFFICES ASSUME NEW x \in ConvIds, e.conversations[x].type = CONV_TYPE_PRIVATE
               PROVE  /\ \E p, q \in Uids : \A u \in Uids :
                           IsParticipant(e, x, u) => u \in {p, q}
                      /\ \A u \in Uids : ~storage_is_admin(e, x, u)
    BY DEF ClosedPrivateChats
  <2>1. e.participants[x] = d.participants[x]
    BY <1>0, <1>1
  <2> QED BY <1>0, <2>1 DEF ChatsOK, ClosedPrivateChats
<1>4. RowsHaveConversation(e)
  BY <1>0, <1>1 DEF ChatsOK, RowsHaveConversation
<1>5. UnusedIdsFree(e)
  BY <1>0 DEF ChatsOK, UnusedIdsFree
<1>6. OneAdmin(e)
  <2> SUFFICES ASSUME NEW x \in ConvIds, NEW u \in Uids,
                      e.conversations[x].type = CONV_TYPE_GROUP, IsParticipant(e, x, u)
               PROVE  \E a \in Uids : \A v \in Uids : storage_is_admin(e, x, v) <=> (v = a)
    BY DEF OneAdmin
  <2>1. CASE x # c
    <3>1. e.participants[x] = d.participants[x]
      BY <1>0, <2>1
    <3> QED BY <1>0, <3>1 DEF ChatsOK, OneAdmin
  <2>2. CASE x = c
    BY <1>1, <2>2
  <2> QED BY <2>1, <2>2
<1> QED BY <1>2, <1>3, <1>4, <1>5, <1>6 DEF ChatsOK

(* Adding a member keeps the conversations in order.                       *)
LEMMA AddParticipantChats ==
  ASSUME NEW d, DatabaseOK(d), ChatsOK(d), NEW c \in ConvIds, NEW me \in Uids,
         storage_is_admin(d, c, me), NEW u \in Uids
  PROVE  ChatsOK(storage_add_participant(d, c, u, ROLE_MEMBER))
<1> DEFINE e == storage_add_participant(d, c, u, ROLE_MEMBER)
<1>1. CASE IsParticipant(d, c, u)
  BY <1>1 DEF storage_add_participant
<1>2. CASE ~IsParticipant(d, c, u)
  <2>1. /\ e.conversations = d.conversations /\ e.conv_seq = d.conv_seq
        /\ e.participants = [d.participants EXCEPT ![c][u] = ROLE_MEMBER]
    BY <1>2 DEF storage_add_participant, DatabaseOK, Database
  <2> HIDE DEF e
  <2>2. /\ \A x \in ConvIds : x # c => e.participants[x] = d.participants[x]
        /\ \A v \in Uids : storage_is_admin(e, c, v) <=> storage_is_admin(d, c, v)
    BY <1>2, <2>1, DatabaseFields DEF ParticipantTable
  <2>3. OnlyMemberRows(d, e, c)
    BY <2>1, <2>2 DEF OnlyMemberRows
  <2>4. ChatsOK(e)
    BY <2>3, MemberRowChats
  <2> QED BY <2>4 DEF e
<1> QED BY <1>1, <1>2

(* Removing somebody else than the admin keeps them in order.              *)
LEMMA RemoveParticipantChats ==
  ASSUME NEW d, DatabaseOK(d), ChatsOK(d), NEW c \in ConvIds, NEW me \in Uids,
         storage_is_admin(d, c, me), NEW u \in Uids, u # me
  PROVE  ChatsOK(storage_remove_participant(d, c, u))
<1> DEFINE e == storage_remove_participant(d, c, u)
<1>1. /\ e.conversations = d.conversations /\ e.conv_seq = d.conv_seq
      /\ e.participants = [d.participants EXCEPT ![c][u] = NoRow]
  BY DEF storage_remove_participant, DatabaseOK, Database
<1> HIDE DEF e
<1>2. ~storage_is_admin(d, c, u)
  BY AdminRunsGroup
<1>3. /\ \A x \in ConvIds : x # c => e.participants[x] = d.participants[x]
      /\ \A v \in Uids : storage_is_admin(e, c, v) <=> storage_is_admin(d, c, v)
  BY <1>1, <1>2, DatabaseFields DEF ParticipantTable
<1>4. OnlyMemberRows(d, e, c)
  BY <1>1, <1>3 DEF OnlyMemberRows
<1>5. ChatsOK(e)
  BY <1>4, MemberRowChats
<1> QED BY <1>5 DEF e

(* Deleting a conversation, up to any statement: the rows go before the    *)
(* conversation they belong to.                                            *)
LEMMA DeleteConversationChats ==
  ASSUME NEW d, DatabaseOK(d), ChatsOK(d), NEW c \in ConvIds, NEW n \in 0..3
  PROVE  ChatsOK(storage_delete_conversation(d, c, n))
<1> DEFINE e == storage_delete_conversation(d, c, n)
<1>1. /\ e.conv_seq = d.conv_seq
      /\ e.participants =
           IF n >= 2 THEN [d.participants EXCEPT ![c] = [u \in Uids |-> NoRow]]
                     ELSE d.participants
      /\ e.conversations =
           IF n >= 3 THEN [d.conversations EXCEPT ![c] = NoConversation]
                     ELSE d.conversations
  BY DeleteConversationFields
<1>2. d.participants \in ParticipantTable /\ d.conversations \in ConversationTable
  BY DatabaseFields
<1> HIDE DEF e
<1>3. \A x \in ConvIds : x # c =>
        e.participants[x] = d.participants[x] /\ e.conversations[x] = d.conversations[x]
  BY <1>1, <1>2 DEF ParticipantTable, ConversationTable
<1>4. CASE n < 2
  <2>1. e.participants = d.participants /\ e.conversations = d.conversations
    BY <1>1, <1>4
  <2>2. ChatsOK(e)
    BY <1>1, <2>1, SameChats
  <2> QED BY <2>2 DEF e
<1>5. CASE n >= 2
  <2>1. \A u \in Uids : e.participants[c][u] = NoRow
    BY <1>1, <1>2, <1>5 DEF ParticipantTable
  <2>2. \/ e.conversations[c] = d.conversations[c]
        \/ e.conversations[c].type = NoRow
    BY <1>1, <1>2, <1>5 DEF ConversationTable, NoConversation
  <2>3. UniquePrivateChats(e)
    BY <1>3, <2>1 DEF ChatsOK, UniquePrivateChats, PrivateConversations
  <2>4. ClosedPrivateChats(e)
    <3> SUFFICES ASSUME NEW x \in ConvIds, e.conversations[x].type = CONV_TYPE_PRIVATE
                 PROVE  /\ \E p, q \in Uids : \A u \in Uids :
                             IsParticipant(e, x, u) => u \in {p, q}
                        /\ \A u \in Uids : ~storage_is_admin(e, x, u)
      BY DEF ClosedPrivateChats
    <3>1. CASE x # c
      <4>1. /\ e.participants[x] = d.participants[x]
            /\ d.conversations[x].type = CONV_TYPE_PRIVATE
        BY <1>3, <3>1
      <4> QED BY <4>1 DEF ChatsOK, ClosedPrivateChats
    <3>2. CASE x = c
      <4>1. d.conversations[c].type = CONV_TYPE_PRIVATE
        BY <2>2, <3>2
      <4>2. PICK p \in Uids : TRUE
        BY <4>1 DEF ChatsOK, ClosedPrivateChats
      <4>3. \A u \in Uids : ~IsParticipant(e, x, u) /\ ~storage_is_admin(e, x, u)
        BY <2>1, <3>2
      <4>4. \A u \in Uids : IsParticipant(e, x, u) => u \in {p, p}
        BY <4>3
      <4> QED BY <4>2, <4>3, <4>4
    <3> QED BY <3>1, <3>2
  <2>5. OneAdmin(e)
    <3> SUFFICES ASSUME NEW x \in ConvIds, NEW u \in Uids,
                        e.conversations[x].type = CONV_TYPE_GROUP, IsParticipant(e, x, u)
                 PROVE  \E a \in Uids : \A v \in Uids : storage_is_admin(e, x, v) <=> (v = a)
      BY DEF OneAdmin
    <3>1. /\ x # c /\ e.participants[x] = d.participants[x]
          /\ e.conversations[x] = d.conversations[x]
      BY <1>3, <2>1
    <3> QED BY <3>1 DEF ChatsOK, OneAdmin
  <2>6. RowsHaveConversation(e)
    BY <1>3, <2>1 DEF ChatsOK, RowsHaveConversation
  <2>7. UnusedIdsFree(e)
    BY <1>1, <1>3, <2>2 DEF ChatsOK, UnusedIdsFree
  <2>8. ChatsOK(e)
    BY <2>3, <2>4, <2>5, <2>6, <2>7 DEF ChatsOK
  <2> QED BY <2>8 DEF e
<1> QED BY <1>4, <1>5

-----------------------------------------------------------------------------
(* The other tables.                                                       *)

(* Both rows of a friendship go in together or not at all.                 *)
LEMMA AddFriendshipIntegrity ==
  ASSUME NEW d, DatabaseOK(d), Integrity(d), NEW a \in Uids, NEW b \in Uids
  PROVE  Integrity(storage_add_friendship(d, a, b))
<1> DEFINE e == storage_add_friendship(d, a, b)
<1>1. /\ e.users = d.users /\ e.conv_seq = d.conv_seq
      /\ e.conversations = d.conversations /\ e.participants = d.participants
      /\ \/ e.contacts = d.contacts
         \/ a # b /\ e.contacts = d.contacts \cup {<<a, b>>, <<b, a>>}
  BY DEF storage_add_friendship, DatabaseOK, Database
<1> HIDE DEF e
<1>2. MutualContacts(e)
  BY <1>1 DEF Integrity, MutualContacts
<1>3. UniqueUsers(e)
  BY <1>1 DEF Integrity, UniqueUsers, Registered
<1>4. ChatsOK(e)
  BY <1>1, SameChats DEF Integrity
<1>5. Integrity(e)
  BY <1>2, <1>3, <1>4 DEF Integrity
<1> QED BY <1>5 DEF e

(* What only changes requests or messages.                                 *)
LEMMA SameTablesIntegrity ==
  ASSUME NEW d, Integrity(d), NEW e, e.users = d.users, e.contacts = d.contacts,
         e.conversations = d.conversations, e.participants = d.participants,
         e.conv_seq = d.conv_seq
  PROVE  Integrity(e)
<1>1. MutualContacts(e) /\ UniqueUsers(e)
  BY DEF Integrity, MutualContacts, UniqueUsers, Registered
<1>2. ChatsOK(e)
  BY SameChats DEF Integrity
<1> QED BY <1>1, <1>2 DEF Integrity

(* Friend requests are not part of what other tables rely on.              *)
LEMMA RequestsIntegrity ==
  ASSUME NEW d, DatabaseOK(d), Integrity(d), NEW a, NEW b
  PROVE  /\ Integrity(storage_add_request(d, a, b))
         /\ Integrity(storage_remove_request(d, a, b))
<1> DEFINE e == storage_add_request(d, a, b)
           f == storage_remove_request(d, a, b)
<1>1. /\ e.users = d.users /\ e.contacts = d.contacts
      /\ e.conversations = d.conversations /\ e.participants = d.participants
      /\ e.conv_seq = d.conv_seq
  BY DEF storage_add_request, DatabaseOK, Database
<1>2. /\ f.users = d.users /\ f.contacts = d.contacts
      /\ f.conversations = d.conversations /\ f.participants = d.participants
      /\ f.conv_seq = d.conv_seq
  BY DEF storage_remove_request, DatabaseOK, Database
<1> HIDE DEF e, f
<1>3. Integrity(e) /\ Integrity(f)
  BY <1>1, <1>2, SameTablesIntegrity
<1> QED BY <1>3 DEF e, f

(* Neither are messages.                                                   *)
LEMMA LogMessageIntegrity ==
  ASSUME NEW d, DatabaseOK(d), Integrity(d), NEW key, NEW c, NEW uid, NEW text, NEW now
  PROVE  Integrity(storage_log_message(d, key, c, uid, text, now))
<1> DEFINE e == storage_log_message(d, key, c, uid, text, now)
<1>1. /\ e.users = d.users /\ e.contacts = d.contacts
      /\ e.conversations = d.conversations /\ e.participants = d.participants
      /\ e.conv_seq = d.conv_seq
  BY DEF storage_log_message, DatabaseOK, Database
<1> HIDE DEF e
<1>2. Integrity(e)
  BY <1>1, SameTablesIntegrity
<1> QED BY <1>2 DEF e

(* A new account differs from all others in the three UNIQUE columns.      *)
LEMMA RegisterIntegrity ==
  ASSUME NEW d, DatabaseOK(d), Integrity(d),
         NEW email \in Emails, NEW username \in Usernames,
         NEW password \in Passwords, NEW code \in Codes, NEW salt \in Salts
  PROVE  Integrity(storage_register_user(d, email, username, password, code, salt))
<1> DEFINE row == [username |-> username, email |-> email,
                   password_hash |-> crypt(password, salt), friend_code |-> code]
           e == [d EXCEPT !.users = Append(@, row)]
<1>1. CASE UserRowIsUnique(d, email, username, code)
  <2>1. /\ e.users = Append(d.users, row) /\ e.contacts = d.contacts
        /\ e.conversations = d.conversations /\ e.participants = d.participants
        /\ e.conv_seq = d.conv_seq
    BY DEF DatabaseOK, Database
  <2>2. row \in UserRow /\ row.username = username /\ row.email = email
        /\ row.friend_code = code
    BY DEF UserRow, crypt
  <2> HIDE DEF e, row
  <2>3. /\ Registered(d) = 1..Len(d.users) /\ Len(d.users) \in Nat
        /\ Registered(e) = 1..(Len(d.users) + 1)
        /\ \A u \in Registered(d) : e.users[u] = d.users[u]
        /\ e.users[Len(d.users) + 1] = row
    BY <2>1, <2>2, DatabaseFields DEF Registered
  <2>4. \A u \in Registered(d) : /\ d.users[u].email # email
                                 /\ d.users[u].username # username
                                 /\ d.users[u].friend_code # code
    BY <1>1 DEF UserRowIsUnique
  <2>5. UniqueUsers(e)
    <3> SUFFICES ASSUME NEW u \in Registered(e), NEW v \in Registered(e), u # v
                 PROVE  /\ e.users[u].username # e.users[v].username
                        /\ e.users[u].email # e.users[v].email
                        /\ e.users[u].friend_code # e.users[v].friend_code
      BY DEF UniqueUsers
    <3>1. CASE u \in Registered(d) /\ v \in Registered(d)
      BY <2>3, <3>1 DEF Integrity, UniqueUsers
    <3>2. CASE u \in Registered(d) /\ v = Len(d.users) + 1
      BY <2>2, <2>3, <2>4, <3>2
    <3>3. CASE v \in Registered(d) /\ u = Len(d.users) + 1
      BY <2>2, <2>3, <2>4, <3>3
    <3> QED BY <2>3, <3>1, <3>2, <3>3
  <2>6. MutualContacts(e)
    BY <2>1 DEF Integrity, MutualContacts
  <2>7. ChatsOK(e)
    BY <2>1, SameChats DEF Integrity
  <2>8. Integrity(e)
    BY <2>5, <2>6, <2>7 DEF Integrity
  <2> QED BY <1>1, <2>8 DEF storage_register_user, e, row
<1>2. CASE ~UserRowIsUnique(d, email, username, code)
  BY <1>2 DEF storage_register_user
<1> QED BY <1>1, <1>2

(* A rename never takes the name of another account.                       *)
LEMMA UpdateNameIntegrity ==
  ASSUME NEW d, DatabaseOK(d), Integrity(d), NEW uid \in Registered(d), NEW username
  PROVE  Integrity(storage_update_name(d, uid, username))
<1> DEFINE e == [d EXCEPT !.users[uid].username = username]
<1>1. CASE /\ username # Empty
           /\ \A u \in Registered(d) \ {uid} : d.users[u].username # username
  <2> DEFINE row == [d.users[uid] EXCEPT !.username = username]
  <2>1. /\ e.users = [d.users EXCEPT ![uid] = row] /\ e.contacts = d.contacts
        /\ e.conversations = d.conversations /\ e.participants = d.participants
        /\ e.conv_seq = d.conv_seq
    BY DEF DatabaseOK, Database
  <2>2. row.username = username /\ row.email = d.users[uid].email
        /\ row.friend_code = d.users[uid].friend_code
    BY RegisteredUids DEF UserRow
  <2> HIDE DEF e, row
  <2>3. /\ Registered(e) = Registered(d) /\ e.users[uid] = row
        /\ \A u \in Registered(d) \ {uid} : e.users[u] = d.users[u]
    BY <2>1 DEF Registered
  <2>4. UniqueUsers(e)
    <3> SUFFICES ASSUME NEW u \in Registered(d), NEW v \in Registered(d), u # v
                 PROVE  /\ e.users[u].username # e.users[v].username
                        /\ e.users[u].email # e.users[v].email
                        /\ e.users[u].friend_code # e.users[v].friend_code
      BY <2>3 DEF UniqueUsers
    <3>1. /\ d.users[u].username # d.users[v].username
          /\ d.users[u].email # d.users[v].email
          /\ d.users[u].friend_code # d.users[v].friend_code
      BY DEF Integrity, UniqueUsers
    <3>2. CASE u # uid /\ v # uid
      BY <2>3, <3>1, <3>2
    <3>3. CASE u = uid
      BY <1>1, <2>2, <2>3, <3>1, <3>3
    <3>4. CASE v = uid
      BY <1>1, <2>2, <2>3, <3>1, <3>4
    <3> QED BY <3>2, <3>3, <3>4
  <2>5. MutualContacts(e)
    BY <2>1 DEF Integrity, MutualContacts
  <2>6. ChatsOK(e)
    BY <2>1, SameChats DEF Integrity
  <2>7. Integrity(e)
    BY <2>4, <2>5, <2>6 DEF Integrity
  <2> QED BY <1>1, <2>7 DEF storage_update_name, update_username, e
<1>2. CASE \/ username = Empty
           \/ ~\A u \in Registered(d) \ {uid} : d.users[u].username # username
  BY <1>2 DEF storage_update_name, update_username
<1> QED BY <1>1, <1>2

(* Nor does a rename with a change of password.                            *)
LEMMA UpdateUserIntegrity ==
  ASSUME NEW d, DatabaseOK(d), Integrity(d), NEW uid \in Registered(d),
         NEW username \in Usernames \cup {Empty}, NEW password, NEW salt
  PROVE  Integrity(storage_update_user(d, uid, username, password, salt))
<1> DEFINE n == storage_update_name(d, uid, username)
           hash == crypt(password, salt)
           row == [n.users[uid] EXCEPT !.password_hash = hash]
           e == [n EXCEPT !.users[uid].password_hash = hash]
<1>1. DatabaseOK(n) /\ uid \in Registered(n) /\ Integrity(n)
  BY UpdateNameType, UpdateNameIntegrity DEF Grows
<1> HIDE DEF n, hash
<1>2. /\ e.users = [n.users EXCEPT ![uid] = row] /\ e.contacts = n.contacts
      /\ e.conversations = n.conversations /\ e.participants = n.participants
      /\ e.conv_seq = n.conv_seq
  BY <1>1 DEF DatabaseOK, Database
<1>3. row.username = n.users[uid].username /\ row.email = n.users[uid].email
      /\ row.friend_code = n.users[uid].friend_code
  BY <1>1, RegisteredUids DEF UserRow
<1> HIDE DEF e, row
<1>4. /\ Registered(e) = Registered(n) /\ e.users[uid] = row
      /\ \A u \in Registered(n) \ {uid} : e.users[u] = n.users[u]
  BY <1>1, <1>2 DEF Registered
<1>5. \A u \in Registered(n) : /\ e.users[u].username = n.users[u].username
                               /\ e.users[u].email = n.users[u].email
                               /\ e.users[u].friend_code = n.users[u].friend_code
  BY <1>3, <1>4
<1>6. UniqueUsers(e)
  BY <1>1, <1>4, <1>5 DEF Integrity, UniqueUsers
<1>7. MutualContacts(e)
  BY <1>1, <1>2 DEF Integrity, MutualContacts
<1>8. ChatsOK(e)
  BY <1>1, <1>2, SameChats DEF Integrity
<1>9. Integrity(e)
  BY <1>6, <1>7, <1>8 DEF Integrity
<1> QED BY <1>1, <1>9 DEF storage_update_user, update_password, e, n, hash
=============================================================================
