----------------------------- MODULE MCServer ------------------------------
(***************************************************************************)
(* Instances of Server.  Registering the first users in every possible     *)
(* order only permutes uids, so most runs start from a database in which   *)
(* accounts exist; each of these databases is one the server reaches.      *)
(***************************************************************************)
EXTENDS ServerRefinement

Row(name, code) ==
  [username |-> name, email |-> name, friend_code |-> code,
   password_hash |-> crypt("pw", "s")]

TwoUsers == <<Row("ann", "A"), Row("bob", "B")>>
ThreeUsers == Append(TwoUsers, Row("cyd", "C"))

StartFrom(d) ==
  /\ db = d
  /\ db_key \in Keys
  /\ clients = init_clients
  /\ sent = NoPackets

(* Three accounts, nothing else.                                           *)
ThreeAccounts == [EmptyDatabase EXCEPT !.users = ThreeUsers]

(* ann has accepted bob and cyd.                                           *)
ThreeFriends == decided(decided(ThreeAccounts, 1, 2, TRUE), 1, 3, TRUE)
GroupsSpec == StartFrom(ThreeFriends) /\ [][Next]_vars

TwoAccounts == [EmptyDatabase EXCEPT !.users = TwoUsers]
TwoAccountsSpec == StartFrom(TwoAccounts) /\ [][Next]_vars

(* ann and bob are friends with a private chat.                            *)
TwoFriends == decided(TwoAccounts, 1, 2, TRUE)
ChatSpec == StartFrom(TwoFriends) /\ [][Next]_vars
=============================================================================
