------------------------------- MODULE UILoop -------------------------------
(***************************************************************************)
(* The loop of main in src/client/main.c: draw the screen if needs_redraw, *)
(* wait for a key for 100 ms, act on it.  Only the steps written with      *)
(* state_lock wait for it.                                                 *)
(***************************************************************************)
EXTENDS ClientContext

at_pc(pc) == [ui EXCEPT !.pc = pc]

(* A conversation of the list whose fields main looks up by id: what       *)
(* it sees of the list decides.                                            *)
admin_here == {listed(convs, app.current_conv_id) /\ app.current_conv_id \in AdminOf :
                 convs \in reads("conversations", UNKNOWN)}

listed_here == {listed(convs, app.current_conv_id) :
                 convs \in reads("conversations", UNKNOWN)}

-----------------------------------------------------------------------------
(* Rendering                                                               *)

Render ==
  /\ ui.pc = "render"
  /\ IF ~app.needs_redraw
       THEN /\ ui' = at_pc("input")
            /\ UNCHANGED <<app>>
       ELSE /\ ui' = at_pc("clear_flag")
            /\ \/ /\ app.current_state = "GROUP_SETTINGS" => TRUE \in listed_here
                  /\ UNCHANGED app
               \/ /\ app.current_state = "GROUP_SETTINGS" /\ FALSE \in listed_here
                  /\ app' = [app EXCEPT !.current_state = "HOME"]
  /\ UNCHANGED <<state_lock, net, inbox, outbox, conn>>

(* Whatever has been set since it was read.                                *)
ClearFlag ==
  /\ ui.pc = "clear_flag"
  /\ app' = [app EXCEPT !.needs_redraw = FALSE]
  /\ ui' = at_pc("input")
  /\ UNCHANGED <<state_lock, net, inbox, outbox, conn>>

NoKey ==
  /\ ui.pc = "input"
  /\ ui' = at_pc("render")
  /\ UNCHANGED <<app, state_lock, net, inbox, outbox, conn>>

-----------------------------------------------------------------------------
(* Keys.  getch has returned one, and needs_redraw is set.                 *)

pressed(key, screen) == key \in ui.keys /\ app.current_state = screen

redrawn == [app EXCEPT !.needs_redraw = TRUE]

goto(screen) == [redrawn EXCEPT !.current_state = screen]

(* The key is dealt with: the app and the locals as given, these packets   *)
(* sent.                                                                   *)
done(a, u, packets) ==
  /\ app' = a
  /\ ui' = [u EXCEPT !.pc = "render"]
  /\ IF packets = <<>> THEN nothing_sent ELSE send_packets(packets)

(* The rest of its handling follows in steps of their own.                 *)
continue(a, pc) ==
  /\ app' = a
  /\ ui' = at_pc(pc)
  /\ nothing_sent

(* Mutant: the up key is not stopped at the first line.                    *)
UpWithoutBound(index, list) ==
  {i \in {index - 1, index + 1} :
     \/ i = index - 1 /\ "up" \in ui.keys
     \/ i = index + 1 /\ i < Len(list) /\ "down" \in ui.keys}

(* The down and up keys on a list.                                         *)
moved(index, list) ==
  {i \in {index - 1, index + 1} :
     \/ i = index - 1 /\ index > 0 /\ "up" \in ui.keys
     \/ i = index + 1 /\ i < Len(list) /\ "down" \in ui.keys}

MoveSelection(list) ==
  \E convs \in reads(list, UNKNOWN) : \E i \in moved(ui.selection, convs) :
    done(redrawn, [ui EXCEPT !.selection = i], <<>>)

-----------------------------------------------------------------------------
HomeKey ==
  \/ pressed("q", "HOME") /\ continue(redrawn, "cleanup")
  \/ app.current_state = "HOME" /\ MoveSelection("conversations")
  \/ /\ pressed("g", "HOME")
     /\ done(goto("CREATE_GROUP"),
             [ui EXCEPT !.group_selection_idx = 0, !.group_members_selected = {}], <<>>)
  \/ /\ pressed("f", "HOME")
     /\ done(goto("FRIENDS"), [ui EXCEPT !.selection = 0],
             <<service_refresh_contacts, service_refresh_requests>>)
  \/ pressed("s", "HOME") /\ done(goto("SETTINGS"), ui, <<>>)
  \/ /\ pressed("enter", "HOME")
     /\ \E convs \in reads("conversations", UNKNOWN) :
          /\ convs # <<>>
          /\ \E conv \in at(convs, ui.selection, AnyConv) :
               continue([redrawn EXCEPT !.current_conv_id = conv], "open")

(* Opening a chat: the history of the last one is freed under the lock.    *)
Open ==
  /\ ui.pc = "open"
  /\ state_lock = "free"
  /\ app' = [app EXCEPT !.chat_history = <<>>]
  /\ ui' = at_pc("show")
  /\ UNCHANGED <<state_lock, net, inbox, outbox, conn>>

(* conversations[selection] is read once more to reset its unread count.   *)
Show ==
  /\ ui.pc = "show"
  /\ \E convs \in reads("conversations", UNKNOWN) :
       \E read \in at(convs, ui.selection, {UNKNOWN}) :
         app' = [app EXCEPT !.unread = @ \ {read}, !.current_state = "CHAT"]
  /\ ui' = at_pc("render")
  /\ send_packets(<<service_req_history(app.current_conv_id)>>)
  /\ UNCHANGED <<state_lock, net, inbox>>

(* A write or a read outside the array, or of freed memory, can end the    *)
(* process.                                                                *)
StrayAccess ==
  /\ ui.pc \in {"open", "show"}
  /\ being_replaced("conversations") \/ ui.selection >= Len(app.conversations)
  /\ conn' = "closed"
  /\ UNCHANGED <<app, state_lock, ui, net, inbox, outbox>>

own_text(n) == [conv_id |-> app.current_conv_id, id |-> -n]

ChatKey ==
  \/ /\ pressed("esc", "CHAT")
     /\ done([goto("HOME") EXCEPT !.chat_input_buffer = {}], ui,
             <<service_req_conversations>>)
  \/ /\ pressed("type", "CHAT")
     /\ done([redrawn EXCEPT !.chat_input_buffer =
                IF @ = {} THEN {app.current_conv_id} ELSE @], ui, <<>>)
  \/ /\ pressed("backspace", "CHAT")
     /\ done([redrawn EXCEPT !.chat_input_buffer = {}], ui, <<>>)
  \/ /\ pressed("enter", "CHAT")
     /\ app.chat_input_buffer # {}
     /\ ui.written < MaxTexts
     /\ app' = redrawn
     /\ ui' = [at_pc("append") EXCEPT !.written = @ + 1]
     /\ send_packets(<<service_send_text(own_text(ui.written + 1))>>)
  \/ /\ pressed("F1", "CHAT")
     /\ TRUE \in listed_here
     /\ app.current_conv_id \in Groups
     /\ done(goto("GROUP_SETTINGS"), ui, <<>>)

(* "Me: ..." goes below what is on the screen.                             *)
AppendOwnText ==
  /\ ui.pc = "append"
  /\ state_lock = "free"
  /\ app' = [app_append_history(app, own_text(ui.written)) EXCEPT !.chat_input_buffer = {}]
  /\ ui' = at_pc("render")
  /\ UNCHANGED <<state_lock, net, inbox, outbox, conn>>

(* The contacts at the ticked positions, in list order.                    *)
selected_uids(contacts) ==
  LET ticked == in_order({i \in DOMAIN contacts : i - 1 \in ui.group_members_selected})
  IN  [k \in DOMAIN ticked |-> contacts[ticked[k]]]

CreateGroupKey ==
  \/ pressed("esc", "CREATE_GROUP") /\ done(goto("HOME"), ui, <<>>)
  \/ /\ app.current_state = "CREATE_GROUP"
     /\ \E contacts \in reads("contacts", UNKNOWN) :
          \E i \in moved(ui.group_selection_idx, contacts) :
            done(redrawn, [ui EXCEPT !.group_selection_idx = i], <<>>)
  \/ /\ pressed("space", "CREATE_GROUP")
     /\ done(redrawn, [ui EXCEPT !.group_members_selected =
               SymDiff(@, {ui.group_selection_idx})], <<>>)
  \/ /\ pressed("enter", "CREATE_GROUP")
     /\ \E contacts \in reads("contacts", UNKNOWN) :
          /\ selected_uids(contacts) # <<>>
          /\ done(goto("HOME"), ui, <<service_create_group(selected_uids(contacts))>>)

FriendsKey ==
  \/ pressed("back", "FRIENDS") /\ done(goto("HOME"), [ui EXCEPT !.selection = 0], <<>>)
  \/ app.current_state = "FRIENDS" /\ MoveSelection("contacts")
  \/ pressed("a", "FRIENDS") /\ done(redrawn, ui, <<service_add_contact>>)
  \/ pressed("r", "FRIENDS") /\ done(goto("REQUESTS"), [ui EXCEPT !.selection = 0], <<>>)
  \/ /\ pressed("enter", "FRIENDS")
     /\ \E contacts \in reads("contacts", UNKNOWN) :
          /\ contacts # <<>>
          /\ \E uid \in at(contacts, ui.selection, AnyUser) :
               done(goto("HOME"), ui, <<service_create_private(uid)>>)

(* service_logout clears the session file and leaves the loop; closing the *)
(* connection is left to the end of main.                                  *)
SettingsKey ==
  \/ pressed("l", "SETTINGS") /\ continue(redrawn, "cleanup")
  \/ pressed("e", "SETTINGS") /\ continue(redrawn, "edit")
  \/ pressed("back", "SETTINGS") /\ done(goto("HOME"), ui, <<>>)

(* The lock is taken for the form, and not given back.                     *)
EditProfile ==
  /\ ui.pc = "edit"
  /\ state_lock = "free"
  /\ state_lock' = "ui"
  /\ ui' = at_pc("render")
  /\ nothing_sent \/ send_packets(<<service_update_user>>)
  /\ UNCHANGED <<app, net, inbox>>

RequestsKey ==
  \/ pressed("back", "REQUESTS") /\ done(goto("FRIENDS"), [ui EXCEPT !.selection = 0], <<>>)
  \/ \E key \in {"enter", "d"} :
       /\ pressed(key, "REQUESTS")
       /\ \E requests \in reads("requests", UNKNOWN) :
            /\ requests # <<>>
            /\ \E uid \in at(requests, ui.selection, AnyUser) :
                 send_packets(<<service_decide_request(uid, key = "enter")>>)
       /\ app' = redrawn
       /\ ui' = at_pc("remove")

RemoveRequest ==
  /\ ui.pc = "remove"
  /\ state_lock = "free"
  /\ app' = app_remove_request(app, ui.selection)
  /\ ui' = at_pc("render")
  /\ UNCHANGED <<state_lock, net, inbox, outbox, conn>>

(* Mutant: only the admin's client asks for the members.                   *)
AdminAsksForMembers(is_admin) ==
  IF is_admin THEN <<service_req_members(app.current_conv_id)>> ELSE <<>>

members_request(is_admin) == <<service_req_members(app.current_conv_id)>>

GroupSettingsKey ==
  \/ pressed("esc", "GROUP_SETTINGS") /\ done(goto("CHAT"), ui, <<>>)
  \/ /\ pressed("del", "GROUP_SETTINGS")
     /\ TRUE \in admin_here
     /\ done(goto("HOME"), ui, <<service_delete_group(app.current_conv_id)>>)
  \/ /\ pressed("m", "GROUP_SETTINGS")
     /\ \E is_admin \in admin_here :
          done([goto("MANAGE_MEMBERS") EXCEPT
                  !.member_selection_idx = IF is_admin THEN 0 ELSE @],
               ui, members_request(is_admin))

ManageMembersKey ==
  \/ pressed("esc", "MANAGE_MEMBERS") /\ done(goto("GROUP_SETTINGS"), ui, <<>>)
  \/ /\ app.current_state = "MANAGE_MEMBERS"
     /\ \E members \in reads("current_group_members", UNKNOWN) :
          \E i \in moved(app.member_selection_idx, members) :
            done([redrawn EXCEPT !.member_selection_idx = i], ui, <<>>)
  \/ /\ pressed("k", "MANAGE_MEMBERS")
     /\ TRUE \in admin_here
     /\ \E members \in reads("current_group_members", UNKNOWN) :
          /\ members # <<>>
          /\ \E target \in at(members, app.member_selection_idx, AnyUser) \ {Me} :
               done(redrawn, ui, <<service_kick_member(app.current_conv_id, target),
                                   service_req_members(app.current_conv_id)>>)

(* A key without a meaning on this screen.                                 *)
OtherKey == done(redrawn, ui, <<>>)

KeyPressed ==
  /\ ui.pc = "input"
  /\ \/ HomeKey \/ ChatKey \/ CreateGroupKey \/ FriendsKey \/ SettingsKey
     \/ RequestsKey \/ GroupSettingsKey \/ ManageMembersKey \/ OtherKey
  /\ UNCHANGED <<state_lock, net, inbox>>

-----------------------------------------------------------------------------
(* The end of main                                                         *)

(* app_cleanup: frees the lists under the lock.                            *)
Cleanup ==
  /\ ui.pc = "cleanup"
  /\ state_lock = "free"
  /\ ui' = at_pc("close")
  /\ UNCHANGED <<app, state_lock, net, inbox, outbox, conn>>

Close ==
  /\ ui.pc = "close"
  /\ conn' = "closed"
  /\ UNCHANGED <<app, state_lock, ui, net, inbox, outbox>>

UIThreadNext ==
  \/ Render \/ ClearFlag \/ NoKey \/ KeyPressed
  \/ Open \/ Show \/ AppendOwnText \/ EditProfile \/ RemoveRequest
  \/ Cleanup \/ Close
=============================================================================
