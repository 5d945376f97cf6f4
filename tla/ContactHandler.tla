--------------------------- MODULE ContactHandler ---------------------------
(***************************************************************************)
(* src/server/handlers/contact_handler.c.                                  *)
(***************************************************************************)
EXTENDS ClientManager

contacts_packet(d, uid) ==
  [type |-> "MSG_RESP_CONTACTS", list |-> storage_get_contacts_data(d, uid)]

requests_packet(d, uid) ==
  [type |-> "MSG_RESP_REQUESTS", list |-> storage_get_requests_data(d, uid)]

push_contacts(d, uids) == push([u \in uids |-> contacts_packet(d, u)])
push_requests(d, uids) == push([u \in uids |-> requests_packet(d, u)])

handle_req_contacts(cli) ==
  /\ sent' = send_packet(clients[cli].fd, contacts_packet(db, clients[cli].uid))
  /\ UNCHANGED <<db, clients, db_key>>

handle_get_requests(cli) ==
  /\ sent' = send_packet(clients[cli].fd, requests_packet(db, clients[cli].uid))
  /\ UNCHANGED <<db, clients, db_key>>

handle_add_by_code(cli, friend_code) ==
  LET me == clients[cli].uid
      fd == clients[cli].fd
      targets == storage_get_uid_by_code(db, friend_code)
  IN  /\ \/ \E target_uid \in targets :
              /\ CanAddRequest(db, me, target_uid)
              /\ db' = storage_add_request(db, me, target_uid)
              /\ sent' = Then(send_packet(fd, [type |-> "MSG_ADD_REQ_SENT"]),
                              push_requests(db', {target_uid}))
         \/ /\ \A target_uid \in targets : ~CanAddRequest(db, me, target_uid)
            /\ sent' = send_packet(fd, [type |-> "MSG_ADD_FAIL"])
            /\ UNCHANGED db
      /\ UNCHANGED <<clients, db_key>>

-----------------------------------------------------------------------------
(* handle_decide_request writes in this order: the friendship, the private *)
(* chat unless there is one, and last the removal of the request.          *)

MustCreateChat(d, me, target) == PrivateConversations(d, me, target) = {}

befriended(d, me, target) == storage_add_friendship(d, me, target)

(* n participant rows of the chat are in.                                  *)
chat_created(d, me, target, n) ==
  LET f == befriended(d, me, target)
  IN  IF MustCreateChat(f, me, target)
        THEN storage_create_conversation(f, CONV_TYPE_PRIVATE, PRIVATE_NAME,
                                         <<me, target>>, n)
        ELSE f

decided(d, me, target, accepted) ==
  storage_remove_request(IF accepted THEN chat_created(d, me, target, 2) ELSE d,
                         target, me)

(* Mutant: the request is removed as soon as the friendship is stored.     *)
RequestRemovedFirst(cli, target) ==
  LET me == clients[cli].uid
  IN  {storage_remove_request(befriended(db, me, target), target, me)}

(* What the database can hold if the server dies inside the handler.       *)
decide_request_prefixes(cli, target) ==
  LET me == clients[cli].uid
  IN  {befriended(db, me, target)}
        \cup {chat_created(db, me, target, n) : n \in 0..2}

handle_decide_request(cli, target, accepted) ==
  LET me == clients[cli].uid
      fd == clients[cli].fd
      created == accepted /\ MustCreateChat(befriended(db, me, target), me, target)
      chat == chat_created(db, me, target, 2)
  IN  /\ created => db.conv_seq < MaxConvs
      /\ db' = decided(db, me, target, accepted)
      /\ sent' = Then(Then(IF created
                             THEN Then(send_packet(fd, conversations_packet(chat, me)),
                                       push_conversations(chat, {target}))
                             ELSE NoPackets,
                           Then(send_packet(fd, contacts_packet(db', me)),
                                send_packet(fd, requests_packet(db', me)))),
                      IF accepted THEN push_contacts(db', {target}) ELSE NoPackets)
      /\ UNCHANGED <<clients, db_key>>
=============================================================================
