--------------------------- MODULE NetworkThread ----------------------------
(***************************************************************************)
(* network_thread of src/client/main.c: receive a packet, and if it has a  *)
(* payload to store, wait for state_lock and store it.                     *)
(***************************************************************************)
EXTENDS ClientContext

(* An array of no elements arrives with a NULL payload.                    *)
has_payload(packet) == packet.list # <<>>

(* The cases that need nothing from the lock.                              *)
handled_at_once(packet) ==
  \/ packet.type \in DOMAIN ListTypes \cup {"MSG_RESP_HISTORY"} /\ ~has_payload(packet)
  \/ packet.type \in {"MSG_CONV_CREATED", "MSG_ADD_REQ_SENT", "MSG_ADD_FAIL",
                      "MSG_UPDATE_SUCCESS"}

sets_needs_redraw(packet) ==
  packet.type \in {"MSG_RESP_CONVERSATIONS", "MSG_CONV_CREATED", "MSG_ADD_REQ_SENT"}

(* Mutant: a conversation just created is not asked for.                   *)
CreatedIsIgnored(packet) == nothing_sent

answered(packet) ==
  IF packet.type = "MSG_CONV_CREATED"
    THEN send_packets(<<service_req_conversations>>)
    ELSE nothing_sent

Receive ==
  LET packet == Head(inbox)
  IN  /\ net.pc = "recv"
      /\ inbox # <<>>
      /\ inbox' = Tail(inbox)
      /\ IF handled_at_once(packet)
           THEN /\ answered(packet)
                /\ app' = [app EXCEPT !.needs_redraw = @ \/ sets_needs_redraw(packet)]
                /\ UNCHANGED net
           ELSE /\ net' = [pc |-> "lock", packet |-> packet]
                /\ nothing_sent
                /\ UNCHANGED app
      /\ UNCHANGED <<state_lock, ui>>

(* recv_packet returns 0 or less: the thread ends, nobody is told.         *)
EndOfStream ==
  /\ net.pc = "recv"
  /\ conn = "reset" \/ (conn = "down" /\ inbox = <<>>)
  /\ net' = [net EXCEPT !.pc = "ended"]
  /\ inbox' = <<>>
  /\ UNCHANGED <<app, state_lock, ui, outbox, conn>>

LockForUpdate ==
  /\ net.pc = "lock"
  /\ state_lock = "free"
  /\ state_lock' = "net"
  /\ net' = [net EXCEPT !.pc = "update"]
  /\ UNCHANGED <<app, ui, inbox, outbox, conn>>

(* Mutant: any chat will do.                                               *)
InAnyChat(packet) == app.current_state = "CHAT"

in_open_chat(packet) ==
  app.current_state = "CHAT" /\ app.current_conv_id = packet.text.conv_id

routed(packet) ==
  IF in_open_chat(packet) THEN app_append_history(app, packet.text)
  ELSE IF listed(app.conversations, packet.text.conv_id)
    THEN [app EXCEPT !.unread = @ \cup {packet.text.conv_id}]
    ELSE app

(* Mutant: the answer is added to what is there.                           *)
HistoryAdded(packet) == [app EXCEPT !.chat_history = @ \o packet.list]

history_replaced(packet) == [app EXCEPT !.chat_history = packet.list]

(* The server sends every list with unread_count 0.                        *)
list_replaced(packet) ==
  LET a == [app EXCEPT ![ListTypes[packet.type]] = packet.list]
  IN  IF packet.type = "MSG_RESP_CONVERSATIONS" THEN [a EXCEPT !.unread = {}] ELSE a

stored(packet) ==
  CASE packet.type = "MSG_RTE_TEXT" -> routed(packet)
    [] packet.type = "MSG_RESP_HISTORY" -> history_replaced(packet)
    [] OTHER -> list_replaced(packet)

Update ==
  LET packet == net.packet
  IN  /\ net.pc = "update"
      /\ app' = [stored(packet) EXCEPT !.needs_redraw = TRUE]
      /\ state_lock' = "free"
      /\ net' = [pc |-> "recv", packet |-> NoPacket]
      /\ UNCHANGED <<ui, inbox, outbox, conn>>

(* After app_cleanup every pointer is dangling: the thread frees one of    *)
(* them again, and the process may be aborted for it.                      *)
DoubleFree ==
  /\ net.pc = "update"
  /\ ui.pc = "close"
  /\ conn' = "closed"
  /\ UNCHANGED <<app, state_lock, ui, net, inbox, outbox>>

NetworkThreadNext == Receive \/ EndOfStream \/ LockForUpdate \/ Update
=============================================================================
