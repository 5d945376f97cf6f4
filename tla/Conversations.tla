--------------------------- MODULE Conversations ----------------------------
(***************************************************************************)
(* What the server promises about the life of a conversation, whoever asks *)
(* for what and wherever a crash cuts a handler short: an id is used once; *)
(* a private chat has its one or two participants for ever; a group has    *)
(* one admin from its first moment to its last, around whom members come   *)
(* and go; what is gone stays gone.                                        *)
(***************************************************************************)
CONSTANTS ConvIds, Uids

VARIABLE room

Unborn == [status |-> "unborn", admins |-> {}, members |-> {}]
Gone == [status |-> "gone", admins |-> {}, members |-> {}]
Private(a, b) == [status |-> "private", admins |-> {}, members |-> {a, b}]
Group(admin, members) == [status |-> "group", admins |-> {admin}, members |-> members]

Groups == {Group(a, S \cup {a}) : a \in Uids, S \in SUBSET Uids}
PrivateChats == {Private(a, b) : a, b \in Uids}

Rooms == {Unborn, Gone} \cup Groups \cup PrivateChats

Share(a, b) == {c \in ConvIds : room[c].status = "private" /\ {a, b} \subseteq room[c].members}

(* A server starts with the conversations it finds.                        *)
Init ==
  /\ room \in [ConvIds -> Rooms]
  /\ \A a, b \in Uids : a # b => \A c, e \in Share(a, b) : c = e

OpenGroup(c) == room[c] = Unborn /\ room'[c] \in Groups

(* With one participant: the server died before the second was inserted.   *)
OpenPrivate(c) ==
  /\ room[c] = Unborn
  /\ room'[c] \in PrivateChats
  /\ \A a, b \in room'[c].members : a # b => Share(a, b) = {}

(* The server died before the first participant was inserted.              *)
Stillborn(c) == room[c] = Unborn /\ room'[c] = Gone

Join(c) ==
  /\ room[c].status = "group"
  /\ \E u \in Uids : room'[c] = [room[c] EXCEPT !.members = @ \cup {u}]

Leave(c) ==
  /\ room[c].status = "group"
  /\ \E u \in Uids \ room[c].admins : room'[c] = [room[c] EXCEPT !.members = @ \ {u}]

Close(c) == room[c].status = "group" /\ room'[c] = Gone

Next ==
  /\ room' # room
  /\ \E c \in ConvIds :
       /\ room' = [room EXCEPT ![c] = room'[c]]
       /\ OpenGroup(c) \/ OpenPrivate(c) \/ Stillborn(c) \/ Join(c) \/ Leave(c) \/ Close(c)

Spec == Init /\ [][Next]_room
=============================================================================
