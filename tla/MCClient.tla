------------------------------ MODULE MCClient ------------------------------
(***************************************************************************)
(* Instances of Client: six sessions, which between them press every key  *)
(* of every screen, and one that ends with the profile form.               *)
(***************************************************************************)
EXTENDS Client

(* Two friends, 7 and 8, and this user, 1.  The groups have different      *)
(* members.                                                                *)
Members == (2 :> {1, 7}) @@ (3 :> {1, 8})

(* Moving between two chats while others write.                            *)
TwoChats ==
  [conversations |-> {1, 2}, contacts |-> {7}, requests |-> {}, talkative |-> {1},
   ids |-> {1, 2}, keys |-> {"down", "enter", "esc", "type"}, texts |-> 1, changes |-> 0]

(* Chats are created here and elsewhere, friends come and go.              *)
ListsChange ==
  [conversations |-> {1}, contacts |-> {7}, requests |-> {}, talkative |-> {},
   ids |-> {1, 2}, keys |-> {"enter", "esc", "f", "back", "up"},
   texts |-> 0, changes |-> 1]

(* A group is created here while others change the lists.                  *)
GroupForm ==
  [conversations |-> {1}, contacts |-> {7}, requests |-> {}, talkative |-> {},
   ids |-> {1, 2}, keys |-> {"g", "space", "enter", "esc"},
   texts |-> 0, changes |-> 1]

(* The settings and the members of two groups, one of them this user's.    *)
TwoGroups ==
  [conversations |-> {2, 3}, contacts |-> {}, requests |-> {}, talkative |-> {},
   ids |-> {2, 3}, keys |-> {"down", "enter", "esc", "F1", "m", "k"},
   texts |-> 0, changes |-> 0]

(* This user's group is deleted, the other by its admin.                   *)
GroupsDeleted ==
  [conversations |-> {2, 3}, contacts |-> {}, requests |-> {}, talkative |-> {2},
   ids |-> {2, 3}, keys |-> {"down", "enter", "F1", "del"},
   texts |-> 0, changes |-> 1]

(* A friend request, the settings, the end.                                *)
OtherScreens ==
  [conversations |-> {}, contacts |-> {}, requests |-> {7}, talkative |-> {},
   ids |-> {1}, keys |-> {"f", "r", "a", "enter", "d", "back", "up", "s", "e", "l", "q",
                          "backspace"},
   texts |-> 0, changes |-> 0]

EverySession ==
  {TwoChats, ListsChange, GroupForm, TwoGroups, GroupsDeleted, OtherScreens}

(* The profile form, then logging out.                                     *)
ProfileForm ==
  [conversations |-> {1}, contacts |-> {}, requests |-> {}, talkative |-> {},
   ids |-> {1}, keys |-> {"s", "e", "l"}, texts |-> 0, changes |-> 0]

OnlyProfileForm == {ProfileForm}
=============================================================================
