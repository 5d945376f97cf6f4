-------------------------- MODULE ServerRefinement --------------------------
(***************************************************************************)
(* The tables of the server as an implementation of Conversations.         *)
(***************************************************************************)
EXTENDS Server

participants_of(d, c) == {u \in Uids : IsParticipant(d, c, u)}

(* A row of conversations that no row of participants refers to is as good *)
(* as none: no query reaches it and nobody is its admin.                   *)
room_of(d, c) ==
  LET members == participants_of(d, c)
  IN  [status |-> IF c > d.conv_seq THEN "unborn"
                  ELSE IF members = {} THEN "gone"
                  ELSE IF d.conversations[c].type = CONV_TYPE_GROUP THEN "group"
                  ELSE "private",
       admins |-> {u \in members : storage_is_admin(d, c, u)},
       members |-> members]

Promise == INSTANCE Conversations WITH room <- [c \in ConvIds |-> room_of(db, c)]

(* Every handler, crash and restart is a step of Conversations or changes  *)
(* nothing it speaks of: one conversation at a time is opened, joined, left*)
(* or closed, a group never exists without its one admin, the admin is the *)
(* last to go, and neither a private chat nor an id comes back as another. *)
ImplementsConversations == Promise!Spec
=============================================================================
