---------------------------- MODULE LoginSession ----------------------------
(***************************************************************************)
(* A client from its start to the end of its session: the second part of   *)
(* main in src/client/main.c, auth_service.c, and the login remembered     *)
(* from one start to the next in the file of session.c.                    *)
(*                                                                         *)
(* The thread waits for the answer to each request, so there is one answer *)
(* under way at most, and it is that of the request: until the login has   *)
(* succeeded nothing is pushed to this connection.  What the user does     *)
(* after the login is in module Client; here, what touches the login.      *)
(***************************************************************************)
EXTENDS Sequences

CONSTANTS Emails, Passwords

NoAccount == "none"

ASSUME NoAccountIsNoPassword == NoAccount \notin Passwords

VARIABLES
  session_file,  \* at most one login; without a complete one, it has none
  accounts,      \* the password of each account on the server
  client,        \* where main is, and the login it uses
  link,          \* "up"; "down": the server is gone; "reset": and a write
                 \* has told us so
  remembered     \* the account of which the user last wanted its login kept

vars == <<session_file, accounts, client, link, remembered>>

Login == [email : Emails, password : Passwords]

NotRunning == [pc |-> "off", login |-> <<>>, remember |-> FALSE]

at(pc) == client' = [client EXCEPT !.pc = pc]
exit == client' = NotRunning

Init ==
  /\ session_file = <<>>
  /\ accounts \in [Emails -> Passwords \cup {NoAccount}]
  /\ client = NotRunning
  /\ link = "down"
  /\ remembered = <<>>

-----------------------------------------------------------------------------
(* A request written to the connection; main then waits at pc.  The process*)
(* does not ignore SIGPIPE.                                                *)
request(pc, login, remember) ==
  /\ \/ link = "up" /\ UNCHANGED link
     \/ link = "down" /\ link' \in {"down", "reset"}
     \/ link = "reset" /\ UNCHANGED link
  /\ IF link = "reset" THEN exit
     ELSE client' = [pc |-> pc, login |-> <<login>>, remember |-> remember]

accepted == link = "up" /\ accounts[client.login[1].email] = client.login[1].password

(* fopen(.., "wb"), then the write; fopen may fail.                        *)
save_session ==
  \/ session_file' = <<>> /\ at("saving")
  \/ UNCHANGED session_file /\ at("running")

clear_session == session_file' = <<>>

-----------------------------------------------------------------------------
(* Start                                                                   *)

Connected ==
  /\ client.pc = "off"
  /\ at("connected")
  /\ link' = "up"
  /\ UNCHANGED <<session_file, accounts, remembered>>

load_session ==
  /\ client.pc = "connected"
  /\ \/ session_file = <<>> /\ at("menu") /\ UNCHANGED link
     \/ session_file # <<>> /\ request("auto", session_file[1], FALSE)
  /\ UNCHANGED <<session_file, accounts, remembered>>

(* Mutant: the remembered login is tried until it works.                   *)
TriedAgain == at("connected") /\ UNCHANGED session_file

auto_login_failed == at("menu") /\ clear_session

AutoLogin ==
  /\ client.pc = "auto"
  /\ \/ accepted /\ at("running") /\ UNCHANGED session_file
     \/ ~accepted /\ auto_login_failed
  /\ UNCHANGED <<accounts, link, remembered>>

-----------------------------------------------------------------------------
(* The start menu                                                          *)

Quit ==
  /\ client.pc \in {"menu", "running"}
  /\ exit
  /\ UNCHANGED <<session_file, accounts, link, remembered>>

RegisterForm ==
  /\ client.pc = "menu"
  /\ \E login \in Login : request("register", login, FALSE)
  /\ UNCHANGED <<session_file, accounts, remembered>>

(* The result is not looked at.  Usernames are left out: refused for one   *)
(* that is taken, the account is as if nobody had registered.              *)
service_register ==
  /\ client.pc = "register"
  /\ LET new == client.login[1]
     IN  \/ /\ link = "up" /\ accounts[new.email] = NoAccount
            /\ accounts' = [accounts EXCEPT ![new.email] = new.password]
         \/ /\ link = "up" => accounts[new.email] # NoAccount
            /\ UNCHANGED accounts
  /\ at("menu")
  /\ UNCHANGED <<session_file, link, remembered>>

LoginForm ==
  /\ client.pc = "menu"
  /\ \E login \in Login, remember \in BOOLEAN : request("login", login, remember)
  /\ UNCHANGED <<session_file, accounts, remembered>>

service_login ==
  /\ client.pc = "login"
  /\ \/ /\ ~accepted
        /\ at("menu")
        /\ UNCHANGED <<session_file, remembered>>
     \/ /\ accepted /\ client.remember
        /\ remembered' = <<client.login[1].email>>
        /\ save_session
     \/ /\ accepted /\ ~client.remember
        /\ remembered' = <<>>
        /\ clear_session
        /\ at("running")
  /\ UNCHANGED <<accounts, link>>

Saved ==
  /\ client.pc = "saving"
  /\ session_file' = client.login
  /\ at("running")
  /\ UNCHANGED <<accounts, link, remembered>>

-----------------------------------------------------------------------------
(* After the login.  Once the profile form has kept state_lock, the end of *)
(* main waits for ever (module Client), with the file as it is here.       *)

(* Mutant: the file stays.                                                 *)
LoggedOutOnly == UNCHANGED session_file

service_logout == clear_session

Logout ==
  /\ client.pc = "running"
  /\ service_logout
  /\ remembered' = <<>>
  /\ exit
  /\ UNCHANGED <<accounts, link>>

(* The new password goes to the server, not to the file.                   *)
service_update_user ==
  /\ client.pc = "running" /\ link = "up"
  /\ \E p \in Passwords :
       accounts' = [accounts EXCEPT ![client.login[1].email] = p]
  /\ UNCHANGED <<session_file, client, link, remembered>>

-----------------------------------------------------------------------------
(* Around the client                                                       *)

Killed ==
  /\ client.pc # "off"
  /\ exit
  /\ UNCHANGED <<session_file, accounts, link, remembered>>

ServerGone ==
  /\ client.pc # "off"
  /\ link = "up"
  /\ link' = "down"
  /\ UNCHANGED <<session_file, accounts, client, remembered>>

(* The user is logged in from another machine too.                         *)
ElsewhereUpdated ==
  /\ \E e \in Emails, p \in Passwords :
       accounts[e] # NoAccount /\ accounts' = [accounts EXCEPT ![e] = p]
  /\ UNCHANGED <<session_file, client, link, remembered>>

(* What main does of itself, the server answering or being gone.           *)
MainStep == load_session \/ AutoLogin \/ service_register \/ service_login \/ Saved

UserStep ==
  \/ Connected \/ Quit \/ RegisterForm \/ LoginForm
  \/ Logout \/ service_update_user

Next == MainStep \/ UserStep \/ Killed \/ ServerGone \/ ElsewhereUpdated

Spec == Init /\ [][Next]_vars

(* The server answers a request or its end is noticed; the process runs.   *)
FairSpec == Spec /\ WF_vars(MainStep)

-----------------------------------------------------------------------------
(* Properties                                                              *)

(* What the file holds, and the next start logs in with, is a login of the *)
(* account the user last asked to be remembered and has not logged out of  *)
(* since, whatever kills, refusals and lost connections there were.        *)
OnlyRememberedLogins ==
  session_file # <<>> => remembered = <<session_file[1].email>>

(* A start gets to the menu or into the program, with a remembered password*)
(* changed since or the server lost on the way.                            *)
StartGetsThrough == client.pc = "connected" ~> client.pc \in {"menu", "running", "off"}
=============================================================================
