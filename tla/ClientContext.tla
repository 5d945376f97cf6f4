--------------------------- MODULE ClientContext ----------------------------
(***************************************************************************)
(* client_context.h and client_context.c: the AppState that the UI thread  *)
(* and the network thread of the client share, its mutex, and what each    *)
(* thread keeps for itself; the service_... functions, which write packets *)
(* to the one connection both threads use.                                 *)
(*                                                                         *)
(* Sizes: a list is a sequence of ids (its length is the ..._count field), *)
(* chat_history the sequence of its lines, and what is typed in a chat is  *)
(* either nothing or a text, of which only the chat it was typed in counts.*)
(***************************************************************************)
EXTENDS Integers, Sequences, FiniteSets, SequencesExt

CONSTANTS
  Convs,        \* ids of conversations the server may list for this user
  Groups,       \* those with type CONV_TYPE_GROUP
  AdminOf,      \* those the server lists with my_role 1
  Friends,      \* uids of other users
  Me,           \* app.my_info.uid
  MAX_PARTICIPANTS,
  TornReads,    \* bound: the lists whose unlocked reads a run looks into
  MaxTexts,     \* bound: texts this user writes, and texts others write
  MaxInbox, MaxOutbox   \* bounds: packets under way in each direction

ASSUME ClientConstants ==
  /\ AdminOf \subseteq Groups /\ Groups \subseteq Convs
  /\ Convs \subseteq Nat \ {0} /\ Friends \subseteq Nat \ {0}
  /\ IsFiniteSet(Convs) /\ IsFiniteSet(Friends)
  /\ Me \in Nat \ (Friends \cup {0})
  /\ TornReads \subseteq {"conversations", "contacts", "requests",
                    "current_group_members"}
  /\ MAX_PARTICIPANTS \in Nat /\ MaxTexts \in Nat
  /\ MaxInbox \in Nat /\ MaxOutbox \in Nat \ (0..2)

VARIABLES
  app,         \* the AppState
  state_lock,  \* the owner of app.state_lock: "ui", "net" or "free"
  ui,          \* the UI thread: where it is, the locals of main, and the keys
               \* its user presses
  net,         \* the network thread: where it is, and the packet it holds
  outbox, inbox,  \* packets to the server, and from it
  conn         \* "up"; "down": the server is gone; "reset": and a write has
               \* told us so; "closed": this process has ended

(* What an index outside an array, or a list freed meanwhile, can read as. *)
UNKNOWN == 0
AnyConv == Convs \cup {UNKNOWN}
AnyUser == Friends \cup {Me, UNKNOWN}

(* Lines of a chat.  Each text written has an id of its own, this user's   *)
(* from -1 down.                                                           *)
Line == [conv_id : AnyConv, id : Int]

(* The pointer the network thread replaces when an answer of that type     *)
(* brings a list, and what a stray read of it can return.                  *)
ListTypes == [MSG_RESP_CONVERSATIONS |-> "conversations",
              MSG_RESP_CONTACTS |-> "contacts",
              MSG_RESP_REQUESTS |-> "requests",
              MSG_RESP_MEMBERS |-> "current_group_members"]

Screens == {"HOME", "CREATE_GROUP", "CHAT", "SETTINGS", "FRIENDS", "REQUESTS",
            "GROUP_SETTINGS", "MANAGE_MEMBERS"}

AppState ==
  [current_state : Screens, needs_redraw : BOOLEAN,
   contacts : Seq(AnyUser), requests : Seq(AnyUser), conversations : Seq(AnyConv),
   unread : SUBSET Convs,
   current_group_members : Seq(AnyUser), member_selection_idx : Nat,
   current_conv_id : AnyConv, chat_history : Seq(Line),
   chat_input_buffer : SUBSET AnyConv]

(* main has logged in, sets the first screen and asks for the lists.       *)
app_init ==
  [current_state |-> "HOME", needs_redraw |-> TRUE,
   contacts |-> <<>>, requests |-> <<>>, conversations |-> <<>>, unread |-> {},
   current_group_members |-> <<>>, member_selection_idx |-> 0,
   current_conv_id |-> UNKNOWN, chat_history |-> <<>>, chat_input_buffer |-> {}]

NoPacket == [type |-> "none"]

ContextInit(keys) ==
  /\ app = app_init
  /\ state_lock = "free"
  /\ ui = [pc |-> "render", selection |-> 0, group_selection_idx |-> 0,
           group_members_selected |-> {}, written |-> 0, keys |-> keys]
  /\ net = [pc |-> "recv", packet |-> NoPacket]
  /\ outbox = <<[type |-> "MSG_REQ_CONTACTS"], [type |-> "MSG_GET_REQUESTS"],
                [type |-> "MSG_REQ_CONVERSATIONS"]>>
  /\ inbox = <<>>
  /\ conn = "up"

ContextTypeOK ==
  /\ app \in AppState
  /\ state_lock \in {"free", "ui", "net"}
  /\ ui.pc \in {"render", "clear_flag", "input", "open", "show", "append", "remove",
                "edit", "cleanup", "close"}
  /\ ui.selection \in Nat /\ ui.group_selection_idx \in Nat
  /\ ui.group_members_selected \subseteq Nat /\ ui.written \in 0..MaxTexts
  /\ net.pc \in {"recv", "lock", "update", "ended"}
  /\ Len(outbox) <= MaxOutbox /\ Len(inbox) <= MaxInbox
  /\ conn \in {"up", "down", "reset", "closed"}

-----------------------------------------------------------------------------
(* Operators on the state                                                  *)

app_append_history(a, text) == [a EXCEPT !.chat_history = Append(@, text)]

app_remove_request(a, index) ==
  IF index + 1 \in DOMAIN a.requests
    THEN [a EXCEPT !.requests = RemoveAt(@, index + 1)] ELSE a

(* A set of ids as a list sorted by id: the k-th has k - 1 below it.       *)
in_order(S) ==
  [k \in 1..Cardinality(S) |-> CHOOSE x \in S : Cardinality({y \in S : y < x}) = k - 1]

listed(list, id) == \E i \in DOMAIN list : list[i] = id

(* The network thread is freeing the list and setting its new pointer and  *)
(* count.                                                                  *)
being_replaced(list) ==
  /\ net.pc = "update"
  /\ net.packet.type \in DOMAIN ListTypes
  /\ ListTypes[net.packet.type] = list

(* What the UI thread, which reads without the lock, can see of a list: it *)
(* is undefined while the list is being replaced.                          *)
reads(list, garbage) ==
  {app[list]} \cup
    IF list \in TornReads /\ being_replaced(list) THEN {net.packet.list, <<>>, <<garbage>>} ELSE {}

(* list[index], and anything when the index is not in the list.            *)
at(list, index, anything) ==
  IF index + 1 \in DOMAIN list THEN {list[index + 1]} ELSE anything

-----------------------------------------------------------------------------
(* The services: each builds a request and hands it to send_packet.  The   *)
(* process does not ignore SIGPIPE: it survives the first write after the  *)
(* server is gone, and dies of a write once that one has been refused.     *)

send_packets(packets) ==
  \/ /\ conn = "up"
     /\ Len(outbox) + Len(packets) <= MaxOutbox
     /\ outbox' = outbox \o packets
     /\ UNCHANGED conn
  \/ /\ conn = "down"
     /\ conn' \in {"down", "reset"}
     /\ UNCHANGED outbox
  \/ /\ conn = "reset"
     /\ conn' = "closed"
     /\ UNCHANGED outbox

nothing_sent == UNCHANGED <<outbox, conn>>

plain(type) == [type |-> type]

service_refresh_contacts == plain("MSG_REQ_CONTACTS")
service_refresh_requests == plain("MSG_GET_REQUESTS")
service_req_conversations == plain("MSG_REQ_CONVERSATIONS")
service_add_contact == plain("MSG_ADD_BY_CODE")
service_update_user == plain("MSG_UPDATE_USER")
service_req_history(conv) == [type |-> "MSG_REQ_HISTORY", conv_id |-> conv]
service_req_members(conv) == [type |-> "MSG_REQ_MEMBERS", conv_id |-> conv]
service_delete_group(conv) == [type |-> "MSG_DELETE_GROUP", conv_id |-> conv]
service_send_text(text) == [type |-> "MSG_SEND_TEXT", text |-> text]
service_decide_request(uid, accepted) ==
  [type |-> "MSG_DECIDE_REQUEST", target_uid |-> uid, accepted |-> accepted]
service_kick_member(conv, uid) ==
  [type |-> "MSG_KICK_MEMBER", conv_id |-> conv, target_uid |-> uid]

(* This user first, then as many of the others as fit.                     *)
service_create_group(uids) ==
  LET all == <<Me>> \o uids
  IN  [type |-> "MSG_CREATE_CONV", group |-> TRUE,
       participant_uids |-> SubSeq(all, 1, Min({Len(all), MAX_PARTICIPANTS}))]
service_create_private(uid) ==
  [type |-> "MSG_CREATE_CONV", group |-> FALSE, participant_uids |-> <<Me, uid>>]
=============================================================================
