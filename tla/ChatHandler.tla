---------------------------- MODULE ChatHandler -----------------------------
(***************************************************************************)
(* src/server/handlers/chat_handler.c.                                     *)
(***************************************************************************)
EXTENDS ClientManager

routed_text(cli, conv, text) ==
  [type |-> "MSG_RTE_TEXT", conv_id |-> conv, sender_uid |-> clients[cli].uid,
   sender_username |-> clients[cli].username, text |-> text]

(* Stored first, then routed to the participants as the table has them:    *)
(* nothing asks whether the conversation still exists or the sender is     *)
(* still one of its participants.                                          *)
handle_send_text(cli, conv, text, now) ==
  LET others == storage_get_conv_participants(db', conv) \ {clients[cli].uid}
  IN  /\ db.msg_seq < MaxMessages
      /\ db' = storage_log_message(db, db_key, conv, clients[cli].uid, text, now)
      /\ sent' = push([u \in others |-> routed_text(cli, conv, text)])
      /\ UNCHANGED <<clients, db_key>>

(* strlen(hist) bytes are sent.                                            *)
handle_req_history(cli, conv) ==
  /\ sent' = send_packet(clients[cli].fd,
               [type |-> "MSG_RESP_HISTORY",
                list |-> as_string(storage_get_history(db, db_key, conv))])
  /\ UNCHANGED <<db, clients, db_key>>
=============================================================================
