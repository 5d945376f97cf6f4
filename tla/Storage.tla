------------------------------ MODULE Storage -------------------------------
(***************************************************************************)
(* src/server/storage.c: the SQLite database.                              *)
(*                                                                         *)
(* db is the content of the file.  Each storage_* function of the source   *)
(* is an operator from a database value to the next one, so that a handler *)
(* is a composition of them, and a query made after a write reads the      *)
(* value the write produced.  SQLite runs in autocommit mode: the database *)
(* a crash leaves is the value after some prefix of a handler's statements.*)
(***************************************************************************)
EXTENDS Protocol, FiniteSetsExt

CONSTANTS Salts, Keys

VARIABLES
  db,       \* the tables
  db_key    \* g_master_key of crypto.c, set once when the server starts

NoRow == -1

(* crypt(3): a hash carries its salt, and equal hashes mean equal inputs.  *)
crypt(password, salt) == [salt |-> salt, password |-> password]

UserRow ==
  [username : Usernames, email : Emails,
   password_hash : [salt : Salts, password : Passwords], friend_code : Codes]

(* participants[c][u] is the role column of row (c, u), NoRow if absent.   *)
Database ==
  [users : Seq(UserRow),
   contacts : SUBSET (Uids \X Uids),
   requests : SUBSET (Uids \X Uids),
   conversations : [ConvIds ->
      [type : {NoRow, CONV_TYPE_PRIVATE, CONV_TYPE_GROUP},
       name : Names \cup {PRIVATE_NAME}]],
   conv_seq : 0..MaxConvs,
   participants : [ConvIds -> [Uids -> {NoRow, ROLE_MEMBER, ROLE_ADMIN}]],
   messages : SUBSET [id : MsgIds, conv_id : ConvIds, sender_id : Uids,
                      text : [key : Keys, plain : Texts], timestamp : Times],
   msg_seq : 0..MaxMessages]

Registered(d) == DOMAIN d.users

Exists(d, conv) == d.conversations[conv].type # NoRow

IsParticipant(d, conv, uid) == d.participants[conv][uid] # NoRow

(* The rows a list keeps: SQLite walks an index on uid or conv_id upwards, *)
(* and the caller stops after max_count rows.                              *)
FirstRows(S, max_count) ==
  {x \in S : Cardinality({y \in S : y < x}) < max_count}

-----------------------------------------------------------------------------
(* storage_init on a file that does not exist.                             *)
NoConversation == [type |-> NoRow, name |-> PRIVATE_NAME]

EmptyDatabase ==
  [users |-> <<>>, contacts |-> {}, requests |-> {},
   conversations |-> [c \in ConvIds |-> NoConversation], conv_seq |-> 0,
   participants |-> [c \in ConvIds |-> [u \in Uids |-> NoRow]],
   messages |-> {}, msg_seq |-> 0]

-----------------------------------------------------------------------------
(* Users                                                                   *)

UserRowIsUnique(d, email, username, code) ==
  \A u \in Registered(d) : /\ d.users[u].email # email
                           /\ d.users[u].username # username
                           /\ d.users[u].friend_code # code

(* The code and the salt are drawn with rand(); a draw that collides with  *)
(* an existing friend code makes the whole INSERT fail.                    *)
storage_register_user(d, email, username, password, code, salt) ==
  IF UserRowIsUnique(d, email, username, code)
    THEN [d EXCEPT !.users = Append(@,
            [username |-> username, email |-> email,
             password_hash |-> crypt(password, salt), friend_code |-> code])]
    ELSE d

(* The uid whose credentials match, as a set of at most one element.       *)
storage_check_credentials(d, email, password) ==
  {u \in Registered(d) :
     /\ d.users[u].email = email
     /\ crypt(password, d.users[u].password_hash.salt)
          = d.users[u].password_hash}

(* Mutant: the username column without its UNIQUE constraint.              *)
UncheckedRename(d, uid, username) == [d EXCEPT !.users[uid].username = username]

(* UPDATE users SET username: a UNIQUE violation leaves the row as it is   *)
(* and is not reported.                                                    *)
update_username(d, uid, username) ==
  IF \A u \in Registered(d) \ {uid} : d.users[u].username # username
    THEN [d EXCEPT !.users[uid].username = username]
    ELSE d

update_password(d, uid, password, salt) ==
  [d EXCEPT !.users[uid].password_hash = crypt(password, salt)]

(* The first statement of storage_update_user, then both.                  *)
storage_update_name(d, uid, new_username) ==
  IF new_username = Empty THEN d ELSE update_username(d, uid, new_username)

storage_update_user(d, uid, new_username, new_password, salt) ==
  LET named == storage_update_name(d, uid, new_username)
  IN  IF new_password = Empty THEN named
                              ELSE update_password(named, uid, new_password, salt)

storage_get_uid_by_code(d, code) ==
  {u \in Registered(d) : d.users[u].friend_code = code}

-----------------------------------------------------------------------------
(* Contacts                                                                *)

CanAddRequest(d, from_uid, to_uid) ==
  /\ from_uid # to_uid
  /\ <<from_uid, to_uid>> \notin d.requests

storage_add_request(d, from_uid, to_uid) ==
  IF CanAddRequest(d, from_uid, to_uid)
    THEN [d EXCEPT !.requests = @ \cup {<<from_uid, to_uid>>}]
    ELSE d

storage_remove_request(d, from_uid, to_uid) ==
  [d EXCEPT !.requests = @ \ {<<from_uid, to_uid>>}]

(* Mutant: the row of one direction only.                                  *)
OneSidedFriendship(d, uid_a, uid_b) ==
  [d EXCEPT !.contacts = @ \cup {<<uid_a, uid_b>>}]

(* One INSERT of two rows: either row in conflict with the primary key     *)
(* undoes both, and the result is not looked at.                           *)
storage_add_friendship(d, uid_a, uid_b) ==
  IF \/ uid_a = uid_b
     \/ <<uid_a, uid_b>> \in d.contacts
     \/ <<uid_b, uid_a>> \in d.contacts
    THEN d
    ELSE [d EXCEPT !.contacts = @ \cup {<<uid_a, uid_b>>, <<uid_b, uid_a>>}]

summary(d, uid) == [uid |-> uid, username |-> d.users[uid].username]

storage_get_contacts_data(d, uid) ==
  {summary(d, u) :
     u \in FirstRows({c \in Registered(d) : <<uid, c>> \in d.contacts}, MAX_LIST)}

storage_get_requests_data(d, uid) ==
  {summary(d, u) :
     u \in FirstRows({s \in Registered(d) : <<s, uid>> \in d.requests}, MAX_LIST)}

-----------------------------------------------------------------------------
(* Conversations                                                           *)

PrivateConversations(d, uid_a, uid_b) ==
  {c \in ConvIds : /\ d.conversations[c].type = CONV_TYPE_PRIVATE
                   /\ IsParticipant(d, c, uid_a)
                   /\ IsParticipant(d, c, uid_b)}

(* 0 when there is none.                                                   *)
storage_find_private_conversation(d, uid_a, uid_b) ==
  LET found == PrivateConversations(d, uid_a, uid_b)
  IN  IF found = {} THEN 0 ELSE Min(found)

(* Mutant: without AUTOINCREMENT the id of a deleted conversation returns. *)
ReusedId(d) == 1 + Max({0} \cup {c \in ConvIds : Exists(d, c)})

(* AUTOINCREMENT: one more than any id given out so far.                   *)
next_conv_id(d) == d.conv_seq + 1

initial_role(type, uids, u) ==
  IF u = uids[1] /\ type = CONV_TYPE_GROUP THEN ROLE_ADMIN ELSE ROLE_MEMBER

(* The conversation row, then the first n of the participant rows.  The    *)
(* whole call is n = Len(uids).                                            *)
storage_create_conversation(d, type, name, uids, n) ==
  LET conv_id == next_conv_id(d)
  IN  [d EXCEPT
         !.conv_seq = conv_id,
         !.conversations[conv_id] = [type |-> type, name |-> name],
         !.participants[conv_id] =
            [u \in Uids |-> IF \E i \in 1..n : uids[i] = u
                              THEN initial_role(type, uids, u) ELSE @[u]]]

conversation_title(d, conv, uid) ==
  LET others == {u \in Registered(d) : u # uid /\ IsParticipant(d, conv, u)}
  IN  IF d.conversations[conv].type # CONV_TYPE_PRIVATE
        THEN <<"group", d.conversations[conv].name>>
      ELSE IF others # {}
        THEN <<"Private with", d.users[Min(others)].username>>
      ELSE <<"Private Chat", Empty>>

conversations_of(d, uid) ==
  {c \in ConvIds : Exists(d, c) /\ IsParticipant(d, c, uid)}

storage_get_user_conversations(d, uid) ==
  {[conv_id |-> c, type |-> d.conversations[c].type,
    name |-> conversation_title(d, c, uid), my_role |-> d.participants[c][uid]] :
     c \in FirstRows(conversations_of(d, uid), MAX_LIST)}

(* Mutants: one row short, and without the WHERE clause.                   *)
OneParticipantShort(d, conv) ==
  FirstRows({u \in Uids : IsParticipant(d, conv, u)}, MAX_PARTICIPANTS - 1)
AnyParticipants(d, conv) ==
  FirstRows({u \in Uids : \E c \in ConvIds : IsParticipant(d, c, u)}, MAX_PARTICIPANTS)

storage_get_conv_participants(d, conv) ==
  FirstRows({u \in Uids : IsParticipant(d, conv, u)}, MAX_PARTICIPANTS)

storage_is_admin(d, conv, uid) == d.participants[conv][uid] = ROLE_ADMIN

storage_update_group(d, conv, name) ==
  IF Exists(d, conv) THEN [d EXCEPT !.conversations[conv].name = name] ELSE d

(* Mutant: INSERT OR REPLACE.                                              *)
ReplaceParticipant(d, conv, uid, role) == [d EXCEPT !.participants[conv][uid] = role]

(* INSERT OR IGNORE                                                        *)
storage_add_participant(d, conv, uid, role) ==
  IF IsParticipant(d, conv, uid) THEN d
                                 ELSE [d EXCEPT !.participants[conv][uid] = role]

storage_get_group_members(d, conv) ==
  {[uid |-> u, username |-> d.users[u].username, role |-> d.participants[conv][u]] :
     u \in FirstRows({v \in Registered(d) : IsParticipant(d, conv, v)}, MAX_MEMBERS)}

storage_remove_participant(d, conv, uid) ==
  [d EXCEPT !.participants[conv][uid] = NoRow]

(* Mutant: the conversation goes before its participants.                  *)
ConversationDeletedFirst(d, conv, n) ==
  [d EXCEPT
     !.messages = IF n >= 1 THEN {m \in @ : m.conv_id # conv} ELSE @,
     !.conversations[conv] = IF n >= 2 THEN NoConversation ELSE @,
     !.participants[conv] = IF n >= 3 THEN [u \in Uids |-> NoRow] ELSE @]

(* The first n of the three DELETE statements; the whole call is n = 3.    *)
storage_delete_conversation(d, conv, n) ==
  [d EXCEPT
     !.messages = IF n >= 1 THEN {m \in @ : m.conv_id # conv} ELSE @,
     !.participants[conv] = IF n >= 2 THEN [u \in Uids |-> NoRow] ELSE @,
     !.conversations[conv] = IF n >= 3 THEN NoConversation ELSE @]

-----------------------------------------------------------------------------
(* Messages                                                                *)

crypto_encrypt(key, text) == [key |-> key, plain |-> text]

(* Under another key the padding check of the last block fails.            *)
crypto_decrypt(key, stored) ==
  IF stored.key = key THEN stored.plain ELSE UNREADABLE

storage_log_message(d, key, conv, sender_uid, text, now) ==
  LET row == [id |-> d.msg_seq + 1, conv_id |-> conv, sender_id |-> sender_uid,
              text |-> crypto_encrypt(key, text), timestamp |-> now]
  IN  [d EXCEPT !.msg_seq = @ + 1, !.messages = @ \cup {row}]

messages_of(d, conv) == {m \in d.messages : m.conv_id = conv}

(* ORDER BY timestamp ASC; rows of the same second come in rowid order.    *)
Before(m, n) == \/ m.timestamp < n.timestamp
                \/ m.timestamp = n.timestamp /\ m.id < n.id

position(d, m) == Cardinality({x \in messages_of(d, m.conv_id) : Before(x, m)})

(* The buffer, line by line.                                               *)
storage_get_history(d, key, conv) ==
  {[line |-> position(d, m), id |-> m.id,
    username |-> d.users[m.sender_id].username,
    text |-> crypto_decrypt(key, m.text)] :
     m \in {x \in messages_of(d, conv) : position(d, x) < HISTORY_LIMIT}}

(* line_len counts the NUL that sprintf puts after a line, so the next line*)
(* is written behind it: read as a C string, the buffer is its first line. *)
as_string(buffer) == {l \in buffer : l.line = 0}

-----------------------------------------------------------------------------
(* What the schema does not enforce but every reader of the tables relies  *)
(* on.  Server states these of db; a crash exposes them to every prefix of *)
(* a handler's statements.                                                 *)

MutualContacts(d) ==
  \A a, b \in Uids : <<a, b>> \in d.contacts =>
    a # b /\ <<b, a>> \in d.contacts

UniquePrivateChats(d) ==
  \A a, b \in Uids : a # b =>
    \A c1, c2 \in PrivateConversations(d, a, b) : c1 = c2

ClosedPrivateChats(d) ==
  \A c \in ConvIds : d.conversations[c].type = CONV_TYPE_PRIVATE =>
    /\ \E a, b \in Uids : \A u \in Uids : IsParticipant(d, c, u) => u \in {a, b}
    /\ \A u \in Uids : ~storage_is_admin(d, c, u)

OneAdmin(d) ==
  \A c \in ConvIds, u \in Uids :
    d.conversations[c].type = CONV_TYPE_GROUP /\ IsParticipant(d, c, u) =>
      \E a \in Uids : \A v \in Uids : storage_is_admin(d, c, v) <=> (v = a)

RowsHaveConversation(d) ==
  \A c \in ConvIds, u \in Uids : IsParticipant(d, c, u) => Exists(d, c)

UniqueUsers(d) ==
  \A u, v \in Registered(d) : u # v =>
    /\ d.users[u].username # d.users[v].username
    /\ d.users[u].email # d.users[v].email
    /\ d.users[u].friend_code # d.users[v].friend_code

StorageTypeOK == db \in Database /\ Len(db.users) <= MaxUsers /\ db_key \in Keys
=============================================================================
