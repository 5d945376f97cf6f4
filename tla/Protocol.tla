------------------------------ MODULE Protocol ------------------------------
(***************************************************************************)
(* The message vocabulary of include/system/protocol.h, and the packets    *)
(* that one turn of the server's event loop writes to its connections.     *)
(*                                                                         *)
(* Data is abstracted to what the server tells apart: a name, an email, a  *)
(* password, a friend code or a text is a member of a small set.  A group's*)
(* name and description travel together and are one value of Names.        *)
(***************************************************************************)
EXTENDS Integers, Sequences, FiniteSets

CONSTANTS
  Fds,               \* descriptors of client sockets
  Usernames, Emails, Passwords, Codes,
  NewUsernames, NewPasswords,   \* what users type in the Settings form
  TypedCodes,                   \* the friend codes users type
  Names,             \* group name + description
  Texts,             \* message texts
  Times,             \* values time(NULL) can take, in seconds
  MAX_PARTICIPANTS,  \* protocol.h:29 (10)
  MAX_MEMBERS,       \* protocol.h:30 (50)
  MAX_LIST,          \* the [50] arrays the handlers declare for lists
  HISTORY_LIMIT,     \* the LIMIT 50 of storage_get_history
  MaxUsers, MaxConvs, MaxMessages   \* bounds of the model

ASSUME BoundsAreNaturals ==
  /\ MaxUsers \in Nat /\ MaxConvs \in Nat /\ MaxMessages \in Nat
  /\ MAX_PARTICIPANTS \in Nat /\ MAX_MEMBERS \in Nat
  /\ MAX_LIST \in Nat /\ HISTORY_LIMIT \in Nat
  /\ Times \subseteq Nat

(* A private chat fits in the array of participants.                       *)
ASSUME PairFits == MAX_PARTICIPANTS >= 2

ASSUME InputsAreValues ==
  /\ NewUsernames \subseteq Usernames
  /\ NewPasswords \subseteq Passwords

Uids == 1..MaxUsers
ConvIds == 1..MaxConvs
MsgIds == 1..MaxMessages

CONV_TYPE_PRIVATE == 0
CONV_TYPE_GROUP == 1
ROLE_MEMBER == 0
ROLE_ADMIN == 1

(* An empty char[] field: a username not set yet, a field left as it is.   *)
Empty == ""

(* The name column of a private chat; no list ever shows it.               *)
PRIVATE_NAME == "Private Chat"

(* What crypto_decrypt returns for a text stored under another key.        *)
UNREADABLE == "[Unreadable Encrypted Message]"

-----------------------------------------------------------------------------
(* Payloads of the packets the server sends.                               *)

ContactSummary == [uid : Uids, username : Usernames]

(* The name field of a ConversationSummary: the stored name of a group, or *)
(* a title made from the other participant of a private chat.              *)
Title ==
  ({"group"} \X (Names \cup {PRIVATE_NAME}))
    \cup ({"Private with"} \X Usernames) \cup {<<"Private Chat", Empty>>}

ConversationSummary ==
  [conv_id : ConvIds, type : {CONV_TYPE_PRIVATE, CONV_TYPE_GROUP},
   name : Title, my_role : {ROLE_MEMBER, ROLE_ADMIN}]

GroupMemberSummary ==
  [uid : Uids, username : Usernames, role : {ROLE_MEMBER, ROLE_ADMIN}]

(* One line of a history: its place, who wrote it, and the decrypted text. *)
HistoryLine ==
  [line : Nat, id : MsgIds, username : Usernames,
   text : Texts \cup {UNREADABLE}]

EmptyPacket ==
  [type : {"MSG_REGISTER_SUCCESS", "MSG_REGISTER_FAIL", "MSG_LOGIN_FAIL",
           "MSG_UPDATE_SUCCESS", "MSG_ADD_REQ_SENT", "MSG_ADD_FAIL",
           "MSG_MEMBER_ADDED"}]

Packet ==
  EmptyPacket
    \cup [type : {"MSG_LOGIN_SUCCESS"}, uid : Uids, username : Usernames,
          email : Emails, friend_code : Codes]
    \cup [type : {"MSG_RESP_CONTACTS", "MSG_RESP_REQUESTS"},
          list : SUBSET ContactSummary]
    \cup [type : {"MSG_CONV_CREATED"}, conv_id : ConvIds]
    \cup [type : {"MSG_RESP_CONVERSATIONS"}, list : SUBSET ConversationSummary]
    \cup [type : {"MSG_RESP_MEMBERS"}, list : SUBSET GroupMemberSummary]
    \cup [type : {"MSG_RTE_TEXT"}, conv_id : ConvIds, sender_uid : Uids,
          sender_username : Usernames, text : Texts]
    \cup [type : {"MSG_RESP_HISTORY"}, list : SUBSET HistoryLine]

-----------------------------------------------------------------------------
(* The packets the latest step of the server wrote, per connection.        *)
VARIABLE sent

NoPackets == [f \in Fds |-> <<>>]

(* The packets of a, then those of b.                                      *)
Then(a, b) == [f \in Fds |-> a[f] \o b[f]]

send_packet(fd, packet) ==
  [f \in Fds |-> IF f = fd THEN <<packet>> ELSE <<>>]

SentTypeOK == sent \in [Fds -> Seq(Packet)]
=============================================================================
