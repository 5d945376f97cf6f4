---------------------------- MODULE AuthHandler -----------------------------
(***************************************************************************)
(* src/server/handlers/auth_handler.c.  cli is a position in clients.      *)
(***************************************************************************)
EXTENDS ClientManager

handle_register(cli, email, username, password, code, salt) ==
  /\ Len(db.users) < MaxUsers
  /\ db' = storage_register_user(db, email, username, password, code, salt)
  /\ sent' = send_packet(clients[cli].fd,
               [type |-> IF UserRowIsUnique(db, email, username, code)
                           THEN "MSG_REGISTER_SUCCESS" ELSE "MSG_REGISTER_FAIL"])
  /\ UNCHANGED <<clients, db_key>>

login_success(u) ==
  [type |-> "MSG_LOGIN_SUCCESS", uid |-> u, username |-> db.users[u].username,
   email |-> db.users[u].email, friend_code |-> db.users[u].friend_code]

handle_login(cli, email, password) ==
  /\ \/ \E u \in storage_check_credentials(db, email, password) :
          /\ clients' = [clients EXCEPT
                           ![cli] = [fd |-> @.fd, uid |-> u,
                                     username |-> db.users[u].username,
                                     is_online |-> TRUE]]
          /\ sent' = send_packet(clients[cli].fd, login_success(u))
     \/ /\ storage_check_credentials(db, email, password) = {}
        /\ sent' = send_packet(clients[cli].fd, [type |-> "MSG_LOGIN_FAIL"])
        /\ UNCHANGED clients
  /\ UNCHANGED <<db, db_key>>

(* The name kept for the connection changes whether or not the table did.  *)
handle_update_user(cli, new_username, new_password, salt) ==
  /\ db' = storage_update_user(db, clients[cli].uid,
                               new_username, new_password, salt)
  /\ clients' = IF new_username = Empty THEN clients
                  ELSE [clients EXCEPT ![cli].username = new_username]
  /\ sent' = send_packet(clients[cli].fd, [type |-> "MSG_UPDATE_SUCCESS"])
  /\ UNCHANGED db_key

(* What the database can hold if the server dies inside the handler.       *)
update_user_prefixes(cli, new_username) ==
  {storage_update_name(db, clients[cli].uid, new_username)}
=============================================================================
