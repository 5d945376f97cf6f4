--------------------------- MODULE ClientManager ----------------------------
(***************************************************************************)
(* src/server/client_manager.c: the list of connections, newest first, as  *)
(* add_client links a node in front of head.  A Client is the struct of    *)
(* include/infrastructure/client_manager.h without its SSL pointer, which  *)
(* lives and dies with the node.                                           *)
(***************************************************************************)
EXTENDS Storage, SequencesExt

VARIABLE clients

Client == [fd : Fds, uid : Uids \cup {0},
           username : Usernames \cup {Empty}, is_online : BOOLEAN]

init_clients == <<>>

connected_fds == {clients[i].fd : i \in DOMAIN clients}

add_client(fd) ==
  Cons([fd |-> fd, uid |-> 0, username |-> Empty, is_online |-> FALSE], clients)

(* The node at position i is the first one with its descriptor.            *)
remove_client(i) == RemoveAt(clients, i)

logged_in_as(i, uid) == clients[i].uid = uid /\ clients[i].is_online

(* The descriptor of the newest connection logged in as uid, as a set of   *)
(* at most one element.                                                    *)
get_client_by_uid(uid) ==
  {clients[i].fd : i \in {j \in DOMAIN clients :
                            /\ logged_in_as(j, uid)
                            /\ \A k \in 1..(j - 1) : ~logged_in_as(k, uid)}}

(* packets maps uids to packets: each goes to its user, if online.         *)
push(packets) ==
  [f \in Fds |->
     IF \E u \in DOMAIN packets : f \in get_client_by_uid(u)
       THEN <<packets[CHOOSE u \in DOMAIN packets : f \in get_client_by_uid(u)]>>
       ELSE <<>>]

conversations_packet(d, uid) ==
  [type |-> "MSG_RESP_CONVERSATIONS",
   list |-> storage_get_user_conversations(d, uid)]

(* Its conversation list to each of the users, as d has it.                *)
push_conversations(d, uids) == push([u \in uids |-> conversations_packet(d, u)])

ClientsTypeOK == clients \in Seq(Client)
=============================================================================
