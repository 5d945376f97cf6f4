------------------------------- MODULE Client -------------------------------
(***************************************************************************)
(* The client of src/client: its two threads, its connection, and what the *)
(* server does with it.                                                    *)
(*                                                                         *)
(* The server is reduced to what it keeps for this user and the packets    *)
(* its handlers (src/server/handlers) send: a list it sends is the list it *)
(* has, and whoever changes the lists of this user sends them, which is    *)
(* what ListsShowFinalState and MembershipChangesPushed of module Server   *)
(* say.  Its handlers are single steps, its answers come in the order of   *)
(* the requests, and pushes come between them.                             *)
(***************************************************************************)
EXTENDS NetworkThread, UILoop

CONSTANTS
  MembersAtStart, \* the members of each group when the client logs in
  Sessions        \* the sessions a run looks into: what the server has for
                  \* this user at the login, the conversations there can be,
                  \* the keys the user presses, and how many texts and changes
                  \* of lists come from others

(* talkative: the conversations that have a message at the login; ids:     *)
(* those there can be.                                                     *)
IsSession(s) ==
  /\ s.conversations \cup s.talkative \subseteq s.ids /\ s.ids \subseteq Convs
  /\ s.contacts \cup s.requests \subseteq Friends
  /\ s.keys \subseteq STRING
  /\ s.texts \in Nat /\ s.changes \in Nat

ASSUME ServerConstants ==
  /\ MembersAtStart \in [Groups -> SUBSET (Friends \cup {Me})]
  /\ \A s \in Sessions : IsSession(s)

VARIABLE server

vars == <<app, state_lock, ui, net, outbox, inbox, conn, server>>

ServerInit(s) ==
  server = [conversations |-> s.conversations, contacts |-> s.contacts,
            requests |-> s.requests,
            members |-> MembersAtStart,
            log |-> [c \in Convs |-> IF c \in s.talkative THEN <<[conv_id |-> c, id |-> 0]>>
                                     ELSE <<>>],
            ids |-> s.ids, texts |-> s.texts, changes |-> s.changes]

conversations_packet(s) ==
  [type |-> "MSG_RESP_CONVERSATIONS", list |-> in_order(s.conversations)]
contacts_packet(s) == [type |-> "MSG_RESP_CONTACTS", list |-> in_order(s.contacts)]
requests_packet(s) == [type |-> "MSG_RESP_REQUESTS", list |-> in_order(s.requests)]

members_packet(s, c) ==
  [type |-> "MSG_RESP_MEMBERS",
   list |-> IF c \in Groups THEN in_order(s.members[c]) ELSE <<>>]

(* storage_get_history: the first line, or nothing (see Server!as_string). *)
history_packet(s, c) ==
  [type |-> "MSG_RESP_HISTORY",
   list |-> IF c = UNKNOWN \/ s.log[c] = <<>> THEN <<>> ELSE <<s.log[c][1]>>]

message(type) == [type |-> type]

(* The group, its members and its messages are deleted.                    *)
without_group(s, c) ==
  [s EXCEPT !.conversations = @ \ {c}, !.members[c] = {}, !.log[c] = <<>>]

(* New conversations take ids that are not in use.                         *)
Unused(s) == {c \in s.ids : c \notin s.conversations /\ s.log[c] = <<>> /\
                            (c \in Groups => s.members[c] = MembersAtStart[c])}

with_conversation(s, c) == [s EXCEPT !.conversations = @ \cup {c}]

-----------------------------------------------------------------------------
(* Each handler: the next state of the server, and the packets to this     *)
(* user.                                                                   *)

Answer(s, packets) ==
  /\ server' = s
  /\ Len(inbox) + Len(packets) <= MaxInbox
  /\ inbox' = inbox \o packets

AnswerList(r) ==
  Answer(server,
         CASE r.type = "MSG_REQ_CONVERSATIONS" -> <<conversations_packet(server)>>
           [] r.type = "MSG_REQ_CONTACTS" -> <<contacts_packet(server)>>
           [] r.type = "MSG_GET_REQUESTS" -> <<requests_packet(server)>>
           [] r.type = "MSG_REQ_MEMBERS" ->
                <<members_packet(server, r.conv_id)>>
           [] r.type = "MSG_REQ_HISTORY" ->
                <<history_packet(server, r.conv_id)>>)

AnswerSendText(r) ==
  LET c == r.text.conv_id
  IN  Answer(IF c = UNKNOWN THEN server
             ELSE [server EXCEPT !.log[c] = Append(@, r.text)], <<>>)

(* A group, a private chat that is new, or one that there is already.      *)
AnswerCreate(r) ==
  \/ \E c \in Unused(server) :
       /\ (c \in Groups) = r.group
       /\ Answer(with_conversation(server, c), <<message("MSG_CONV_CREATED")>>)
  \/ /\ ~r.group
     /\ Answer(server, <<message("MSG_CONV_CREATED")>>)

(* Accepting makes a friend and, unless there is one, a private chat, whose*)
(* list goes out first.                                                    *)
AnswerDecide(r) ==
  LET u == r.target_uid
      decided(s) == [s EXCEPT !.requests = @ \ {u}]
      lists(s) == <<contacts_packet(s), requests_packet(s)>>
      friends == IF r.accepted
                   THEN [server EXCEPT !.contacts = @ \cup ({u} \cap Friends)] ELSE server
  IN  \/ Answer(decided(friends), lists(decided(friends)))
      \/ /\ r.accepted
         /\ \E c \in Unused(server) \ Groups :
              LET chat == with_conversation(friends, c)
              IN  Answer(decided(chat), <<conversations_packet(chat)>> \o lists(decided(chat)))

AnswerKick(r) ==
  LET c == r.conv_id
      kicked == [server EXCEPT !.members[c] = @ \ {r.target_uid}]
  IN  IF c \in AdminOf \cap server.conversations
        THEN Answer(kicked, <<conversations_packet(kicked)>>) ELSE Answer(server, <<>>)

AnswerDelete(r) ==
  LET c == r.conv_id
  IN  IF c \in AdminOf \cap server.conversations
        THEN Answer(without_group(server, c), <<conversations_packet(without_group(server, c))>>)
        ELSE Answer(server, <<>>)

Handle ==
  LET r == Head(outbox)
  IN  /\ outbox # <<>>
      /\ outbox' = Tail(outbox)
      /\ CASE r.type = "MSG_SEND_TEXT" -> AnswerSendText(r)
           [] r.type = "MSG_CREATE_CONV" -> AnswerCreate(r)
           [] r.type = "MSG_DECIDE_REQUEST" -> AnswerDecide(r)
           [] r.type = "MSG_KICK_MEMBER" -> AnswerKick(r)
           [] r.type = "MSG_DELETE_GROUP" -> AnswerDelete(r)
           [] r.type = "MSG_ADD_BY_CODE" ->
                \E m \in {"MSG_ADD_REQ_SENT", "MSG_ADD_FAIL"} : Answer(server, <<message(m)>>)
           [] r.type = "MSG_UPDATE_USER" -> Answer(server, <<message("MSG_UPDATE_SUCCESS")>>)
           [] OTHER -> AnswerList(r)

(* What other users do: they write, make this user a friend, ask to be one,*)
(* take it into a conversation, remove it, or delete the group.            *)
OthersWrite ==
  \E c \in server.conversations :
    LET text == [conv_id |-> c, id |-> server.texts]
    IN  /\ server.texts > 0
        /\ Answer([server EXCEPT !.log[c] = Append(@, text), !.texts = @ - 1],
                  <<[type |-> "MSG_RTE_TEXT", text |-> text]>>)

OthersChange ==
  LET counted(s) == [s EXCEPT !.changes = @ - 1]
  IN  /\ server.changes > 0
      /\ \/ \E u \in Friends \ server.requests :
              LET s == [server EXCEPT !.requests = @ \cup {u}]
              IN  Answer(counted(s), <<requests_packet(s)>>)
         \/ \E u \in Friends \ server.contacts :
              LET s == [server EXCEPT !.contacts = @ \cup {u}]
              IN  Answer(counted(s), <<contacts_packet(s)>>)
         \/ \E c \in Unused(server) :
              LET s == with_conversation(server, c)
              IN  Answer(counted(s), <<conversations_packet(s)>>)
         \/ \E c \in server.conversations \cap (Groups \ AdminOf) :
              \/ LET s == [server EXCEPT !.conversations = @ \ {c}, !.members[c] = @ \ {Me}]
                 IN  Answer(counted(s), <<conversations_packet(s)>>)
              \/ LET s == without_group(server, c)
                 IN  Answer(counted(s), <<conversations_packet(s)>>)
              \/ \E u \in server.members[c] \ {Me} :
                   LET s == [server EXCEPT !.members[c] = @ \ {u}]
                   IN  Answer(counted(s), <<conversations_packet(s)>>)

(* The server dies, or drops the connection: what it had sent may be lost  *)
(* from some packet on.                                                    *)
ServerGone ==
  /\ conn' = "down"
  /\ outbox' = <<>>
  /\ \E n \in 0..Len(inbox) : inbox' = SubSeq(inbox, 1, n)
  /\ UNCHANGED server

ServerNext ==
  /\ conn = "up"
  /\ \/ Handle /\ UNCHANGED conn
     \/ (OthersWrite \/ OthersChange) /\ UNCHANGED <<outbox, conn>>
     \/ ServerGone
  /\ UNCHANGED <<app, state_lock, ui, net>>

-----------------------------------------------------------------------------
Alive == conn # "closed"

NetThread == NetworkThreadNext /\ UNCHANGED server

UIThread == UIThreadNext /\ UNCHANGED server

(* What undefined behaviour may do, and nothing makes it do.               *)
Abort == (StrayAccess \/ DoubleFree) /\ UNCHANGED server

Init == \E s \in Sessions : ContextInit(s.keys) /\ ServerInit(s)

Next == Alive /\ (NetThread \/ UIThread \/ ServerNext \/ Abort)

(* Both threads are scheduled, getch returns after 100 ms, and the server  *)
(* answers what arrives.  No key need ever be pressed, nor need others do  *)
(* anything.                                                               *)
Fairness ==
  /\ WF_vars(Alive /\ NetThread)
  /\ WF_vars(Alive /\ UIThread)
  /\ WF_vars(conn = "up" /\ Handle /\ UNCHANGED <<app, state_lock, ui, net, conn>>)

Spec == Init /\ [][Next]_vars

FairSpec == Spec /\ Fairness

-----------------------------------------------------------------------------
(* Properties                                                              *)

ServerTypeOK ==
  /\ server.conversations \subseteq Convs
  /\ server.contacts \subseteq Friends /\ server.requests \subseteq Friends
  /\ server.members \in [Groups -> SUBSET (Friends \cup {Me})]
  /\ server.log \in [Convs -> Seq(Line)]
  /\ server.ids \subseteq Convs /\ server.texts \in Nat /\ server.changes \in Nat

(* The two threads, the packets under way and the server have the shapes   *)
(* the declarations give them.                                             *)
TypeOK == ContextTypeOK /\ ServerTypeOK

(* Connected, and nothing under way: every request has been answered, every*)
(* packet handled, every key acted on.                                     *)
Settled ==
  /\ conn = "up"
  /\ outbox = <<>> /\ inbox = <<>>
  /\ net.pc = "recv"
  /\ ui.pc \in {"render", "clear_flag", "input"}

(* The line 0 of a chat was there at the login.                            *)
HadMessages ==
  {c \in Convs : server.log[c] # <<>> /\ Head(server.log[c]).id = 0}

(* However the answers for several chats, texts and own texts overlap, the *)
(* open chat ends up with lines of its own conversation, provided that has *)
(* messages.                                                               *)
HistoryBelongsToChat ==
  Settled /\ app.current_conv_id \in HadMessages =>
    \A i \in DOMAIN app.chat_history :
      app.chat_history[i].conv_id = app.current_conv_id

(* A text is on the screen once: not as an own line or a pushed line and   *)
(* again as a line of the history that was asked for.                      *)
NoTextTwice == IsInjective(app.chat_history)

CacheCurrent(list, set) == set # {} => app[list] = in_order(set)

(* Whatever others did, and whichever answers and pushes crossed: once all *)
(* of it has arrived, the conversations and friends shown are those of the *)
(* server, unless it has none.                                             *)
ConversationsCurrent ==
  Settled => /\ CacheCurrent("conversations", server.conversations)
             /\ CacheCurrent("contacts", server.contacts)

(* The members shown, and offered for a kick, are members of the group on  *)
(* the screen, not those of a group looked at earlier.                     *)
MembersOfGroup ==
  Settled /\ app.current_state = "MANAGE_MEMBERS" /\ app.current_conv_id \in Groups =>
    \/ server.members[app.current_conv_id] = {}
    \/ \A i \in DOMAIN app.current_group_members :
         app.current_group_members[i] \in MembersAtStart[app.current_conv_id]

(* Quitting or logging out ends in closing the connection (auth_service.c: *)
(* "the main loop will close socket").                                     *)
LogoutClosesSocket == ui.pc = "cleanup" ~> ~Alive
=============================================================================
