---------------------------- MODULE GroupHandler ----------------------------
(***************************************************************************)
(* src/server/handlers/group_handler.c.                                    *)
(***************************************************************************)
EXTENDS ClientManager

(* Mutant: the lists are read before the write.                            *)
StaleLists(d, conv, exclude_uid) ==
  push_conversations(db, storage_get_conv_participants(d, conv) \ {exclude_uid})

(* exclude_uid is 0, nobody, in every call of the source.                  *)
notify_group_update(d, conv, exclude_uid) ==
  push_conversations(d, storage_get_conv_participants(d, conv) \ {exclude_uid})

-----------------------------------------------------------------------------
(* Mutants: an off-by-one on the count, and -1 for "not found".            *)
PairNeverLookedUp(d, type, uids, count) ==
  IF type = CONV_TYPE_PRIVATE /\ count > 2
    THEN storage_find_private_conversation(d, uids[1], uids[2]) ELSE 0
MissingIsMinusOne(d, type, uids, count) ==
  IF type = CONV_TYPE_PRIVATE /\ count = 2
    THEN storage_find_private_conversation(d, uids[1], uids[2]) ELSE -1

(* The private chat the two first participants already share, or 0.        *)
existing_conversation(d, type, uids, count) ==
  IF type = CONV_TYPE_PRIVATE /\ count = 2
    THEN storage_find_private_conversation(d, uids[1], uids[2]) ELSE 0

(* participants_count, clamped to the length of the array it indexes.      *)
participants_count(uids) ==
  IF Len(uids) > MAX_PARTICIPANTS THEN MAX_PARTICIPANTS ELSE Len(uids)

handle_create_conv(cli, type, name, uids) ==
  LET count == participants_count(uids)
      found == existing_conversation(db, type, uids, count)
      others == {uids[i] : i \in 1..count} \ {clients[cli].uid}
      answer(id) == send_packet(clients[cli].fd,
                                [type |-> "MSG_CONV_CREATED", conv_id |-> id])
  IN  /\ \/ /\ found # 0
            /\ sent' = answer(found)
            /\ UNCHANGED db
         \/ /\ found = 0
            /\ db.conv_seq < MaxConvs
            /\ db' = storage_create_conversation(db, type, name, uids, count)
            /\ sent' = Then(answer(next_conv_id(db)), push_conversations(db', others))
      /\ UNCHANGED <<clients, db_key>>

(* What the database can hold if the server dies inside the handler.       *)
create_conv_prefixes(type, name, uids) ==
  LET count == participants_count(uids)
  IN  IF existing_conversation(db, type, uids, count) # 0 THEN {db}
      ELSE {storage_create_conversation(db, type, name, uids, n) : n \in 0..count}

handle_req_conversations(cli) ==
  /\ sent' = send_packet(clients[cli].fd,
                         conversations_packet(db, clients[cli].uid))
  /\ UNCHANGED <<db, clients, db_key>>

handle_update_group(cli, conv, name) ==
  /\ IF storage_is_admin(db, conv, clients[cli].uid)
       THEN /\ db' = storage_update_group(db, conv, name)
            /\ sent' = notify_group_update(db', conv, 0)
       ELSE /\ sent' = NoPackets
            /\ UNCHANGED db
  /\ UNCHANGED <<clients, db_key>>

(* Mutant: whoever asks may add, to any conversation.                      *)
AddedByAnyone(cli, conv, target_friend_code) ==
  LET targets == storage_get_uid_by_code(db, target_friend_code)
  IN  /\ \E target_uid \in targets :
           db' = storage_add_participant(db, conv, target_uid, ROLE_MEMBER)
      /\ sent' = Then(send_packet(clients[cli].fd, [type |-> "MSG_MEMBER_ADDED"]),
                      notify_group_update(db', conv, 0))
      /\ UNCHANGED <<clients, db_key>>

handle_add_member(cli, conv, target_friend_code) ==
  LET targets == storage_get_uid_by_code(db, target_friend_code)
  IN  /\ \/ /\ storage_is_admin(db, conv, clients[cli].uid)
            /\ \E target_uid \in targets :
                 db' = storage_add_participant(db, conv, target_uid, ROLE_MEMBER)
            /\ sent' = Then(send_packet(clients[cli].fd, [type |-> "MSG_MEMBER_ADDED"]),
                            notify_group_update(db', conv, 0))
         \/ /\ ~storage_is_admin(db, conv, clients[cli].uid) \/ targets = {}
            /\ sent' = NoPackets
            /\ UNCHANGED db
      /\ UNCHANGED <<clients, db_key>>

handle_req_members(cli, conv) ==
  /\ sent' = send_packet(clients[cli].fd,
               [type |-> "MSG_RESP_MEMBERS",
                list |-> storage_get_group_members(db, conv)])
  /\ UNCHANGED <<db, clients, db_key>>

(* Mutant: the admin may remove itself.                                    *)
AdminMayKickItself(d, me, conv, target) == storage_is_admin(d, conv, me)

MayKick(d, me, conv, target) == storage_is_admin(d, conv, me) /\ target # me

(* Mutant: only the remaining members are told.                            *)
KickWithoutRefresh(cli, conv, target) ==
  /\ IF MayKick(db, clients[cli].uid, conv, target)
       THEN /\ db' = storage_remove_participant(db, conv, target)
            /\ sent' = notify_group_update(db', conv, 0)
       ELSE /\ sent' = NoPackets
            /\ UNCHANGED db
  /\ UNCHANGED <<clients, db_key>>

handle_kick_member(cli, conv, target) ==
  /\ IF MayKick(db, clients[cli].uid, conv, target)
       THEN /\ db' = storage_remove_participant(db, conv, target)
            /\ sent' = Then(notify_group_update(db', conv, 0),
                            push_conversations(db', {target}))
       ELSE /\ sent' = NoPackets
            /\ UNCHANGED db
  /\ UNCHANGED <<clients, db_key>>

(* The members are read before the rows go.                                *)
handle_delete_group(cli, conv) ==
  /\ IF storage_is_admin(db, conv, clients[cli].uid)
       THEN /\ db' = storage_delete_conversation(db, conv, 3)
            /\ sent' = push_conversations(db', storage_get_conv_participants(db, conv))
       ELSE /\ sent' = NoPackets
            /\ UNCHANGED db
  /\ UNCHANGED <<clients, db_key>>

(* What the database can hold if the server dies inside the handler.       *)
delete_group_prefixes(cli, conv) ==
  IF storage_is_admin(db, conv, clients[cli].uid)
    THEN {storage_delete_conversation(db, conv, n) : n \in 1..2}
    ELSE {db}
=============================================================================
