------------------------- MODULE LoginSessionProofs -------------------------
(***************************************************************************)
(* What the file of session.c holds: the safety property of LoginSession,  *)
(* for all accounts, passwords and starts.                                 *)
(***************************************************************************)
EXTENDS LoginSession, Integers, TLAPS

Places ==
  {"off", "connected", "auto", "menu", "register", "login", "saving", "running"}

(* main has a login at hand while it waits for the answer to one, and from *)
(* then on.                                                                *)
LoginAtHand ==
  /\ accounts \in [Emails -> Passwords \cup {NoAccount}]
  /\ session_file \in Seq(Login) /\ Len(session_file) <= 1
  /\ client \in [pc : Places, login : Seq(Login), remember : BOOLEAN]
  /\ client.pc \in {"auto", "register", "login", "saving", "running"} =>
       Len(client.login) = 1

(* The menu is reached with an empty file only, and so is the write of a   *)
(* new one: fopen may fail in service_login, what it leaves is no login of *)
(* another account.                                                        *)
EmptyInMenu ==
  /\ client.pc \in {"menu", "register", "login", "saving"} => session_file = <<>>
  /\ client.pc = "saving" => remembered = <<client.login[1].email>>

Inv == LoginAtHand /\ EmptyInMenu /\ OnlyRememberedLogins

-----------------------------------------------------------------------------

(* Of a sequence with one login, the first is that login.                  *)
LEMMA TheLogin ==
  ASSUME NEW s \in Seq(Login), Len(s) = 1
  PROVE  s[1] \in Login /\ s # <<>> /\ s = <<s[1]>>
OBVIOUS

LEMMA InitInv == Init => Inv
BY DEF Init, Inv, LoginAtHand, EmptyInMenu, OnlyRememberedLogins, NotRunning, Places

(* A request leaves the file alone: main waits with the login it sent, or  *)
(* the process has ended.                                                  *)
LEMMA RequestMade ==
  ASSUME Inv, NEW login \in Login, NEW remember \in BOOLEAN,
         NEW pc \in {"auto", "register", "login"}, request(pc, login, remember),
         UNCHANGED <<session_file, accounts, remembered>>,
         pc # "auto" => session_file = <<>>
  PROVE  Inv'
<1>1. <<login>> \in Seq(Login) /\ Len(<<login>>) = 1
  OBVIOUS
<1>2. \/ client' = NotRunning
      \/ client' = [pc |-> pc, login |-> <<login>>, remember |-> remember]
  BY DEF request, exit
<1>3. LoginAtHand'
  <2>1. /\ client' \in [pc : Places, login : Seq(Login), remember : BOOLEAN]
        /\ client'.pc = "off" \/ Len(client'.login) = 1
    <3>1. CASE client' = NotRunning
      BY <3>1 DEF NotRunning, Places
    <3>2. CASE client' = [pc |-> pc, login |-> <<login>>, remember |-> remember]
      <4> DEFINE s == <<login>>
      <4>1. s \in Seq(Login) /\ Len(s) = 1 /\ client'.login = s
        BY <1>1, <3>2
      <4>2. client' = [pc |-> pc, login |-> s, remember |-> remember] /\ pc \in Places
        BY <3>2 DEF Places
      <4> HIDE DEF s
      <4> QED BY <4>1, <4>2
    <3> QED BY <1>2, <3>1, <3>2
  <2> QED BY <2>1 DEF Inv, LoginAtHand
<1>4. EmptyInMenu'
  BY <1>2 DEF Inv, EmptyInMenu, NotRunning
<1>5. OnlyRememberedLogins'
  BY DEF Inv, OnlyRememberedLogins
<1> QED BY <1>3, <1>4, <1>5 DEF Inv

LEMMA InvStep == Inv /\ [Next]_vars => Inv'
<1> SUFFICES ASSUME Inv, [Next]_vars PROVE Inv'
  OBVIOUS
<1> USE DEF Inv, Places
<1>a. ASSUME NEW pc \in Places, at(pc)
      PROVE  /\ client' \in [pc : Places, login : Seq(Login), remember : BOOLEAN]
             /\ client'.pc = pc /\ client'.login = client.login
  BY <1>a DEF at, LoginAtHand
<1>b. ASSUME exit
      PROVE  /\ client' \in [pc : Places, login : Seq(Login), remember : BOOLEAN]
             /\ client'.pc = "off"
  BY <1>b DEF exit, NotRunning
<1>1. CASE Connected
  <2>1. at("connected") /\ UNCHANGED <<session_file, accounts, remembered>>
    BY <1>1 DEF Connected
  <2> QED BY <1>a, <2>1 DEF LoginAtHand, EmptyInMenu, OnlyRememberedLogins
<1>2. CASE load_session
  <2>1. UNCHANGED <<session_file, accounts, remembered>>
    BY <1>2 DEF load_session
  <2>2. CASE session_file = <<>> /\ at("menu")
    BY <1>a, <2>1, <2>2 DEF LoginAtHand, EmptyInMenu, OnlyRememberedLogins
  <2>3. CASE session_file # <<>> /\ request("auto", session_file[1], FALSE)
    <3>1. session_file[1] \in Login
      BY <2>3, TheLogin DEF LoginAtHand
    <3> QED BY <2>1, <2>3, <3>1, RequestMade
  <2> QED BY <1>2, <2>2, <2>3 DEF load_session
<1>3. CASE AutoLogin
  <2>1. client.pc = "auto" /\ UNCHANGED <<accounts, link, remembered>>
    BY <1>3 DEF AutoLogin
  <2>2. CASE at("running") /\ UNCHANGED session_file
    BY <1>a, <2>1, <2>2 DEF LoginAtHand, EmptyInMenu, OnlyRememberedLogins
  <2>3. CASE at("menu") /\ session_file' = <<>>
    BY <1>a, <2>1, <2>3 DEF LoginAtHand, EmptyInMenu, OnlyRememberedLogins
  <2> QED BY <1>3, <2>2, <2>3 DEF AutoLogin, auto_login_failed, clear_session
<1>4. CASE service_register
  <2>1. /\ client.pc = "register" /\ at("menu")
        /\ UNCHANGED <<session_file, link, remembered>>
    BY <1>4 DEF service_register
  <2>2. client.login[1] \in Login
    BY <2>1, TheLogin DEF LoginAtHand
  <2>3. accounts' \in [Emails -> Passwords \cup {NoAccount}]
    BY <1>4, <2>2 DEF service_register, LoginAtHand, Login
  <2> QED BY <1>a, <2>1, <2>3 DEF LoginAtHand, EmptyInMenu, OnlyRememberedLogins
<1>5. CASE service_login
  <2>1. /\ client.pc = "login" /\ session_file = <<>> /\ Len(client.login) = 1
        /\ UNCHANGED <<accounts, link>>
    BY <1>5 DEF service_login, LoginAtHand, EmptyInMenu
  <2>2. CASE at("menu") /\ UNCHANGED <<session_file, remembered>>
    BY <1>a, <2>1, <2>2 DEF LoginAtHand, EmptyInMenu, OnlyRememberedLogins
  <2>3. CASE remembered' = <<client.login[1].email>> /\ save_session
    <3>1. session_file' = <<>> /\ (at("saving") \/ at("running"))
      BY <2>1, <2>3 DEF save_session
    <3> QED BY <1>a, <2>1, <2>3, <3>1 DEF LoginAtHand, EmptyInMenu, OnlyRememberedLogins
  <2>4. CASE clear_session /\ at("running")
    BY <1>a, <2>1, <2>4
       DEF LoginAtHand, EmptyInMenu, OnlyRememberedLogins, clear_session
  <2> QED BY <1>5, <2>2, <2>3, <2>4 DEF service_login
<1>6. CASE Saved
  <2>1. /\ client.pc = "saving" /\ Len(client.login) = 1
        /\ remembered = <<client.login[1].email>>
        /\ session_file' = client.login /\ at("running")
        /\ UNCHANGED <<accounts, link, remembered>>
    BY <1>6 DEF Saved, LoginAtHand, EmptyInMenu
  <2>2. LoginAtHand'
    <3>1. client.login \in Seq(Login) /\ accounts \in [Emails -> Passwords \cup {NoAccount}]
      BY DEF LoginAtHand
    <3>2. session_file' \in Seq(Login) /\ Len(session_file') = 1
      BY <2>1, <3>1
    <3>3. /\ client' \in [pc : Places, login : Seq(Login), remember : BOOLEAN]
          /\ Len(client'.login) = 1
      BY <1>a, <2>1
    <3>4. accounts' \in [Emails -> Passwords \cup {NoAccount}]
      BY <2>1, <3>1
    <3> QED BY <3>2, <3>3, <3>4 DEF LoginAtHand
  <2>3. EmptyInMenu'
    BY <1>a, <2>1 DEF EmptyInMenu
  <2>4. OnlyRememberedLogins'
    BY <2>1 DEF OnlyRememberedLogins
  <2> QED BY <2>2, <2>3, <2>4
<1>7. CASE Quit
  <2>1. exit /\ UNCHANGED <<session_file, accounts, link, remembered>>
    BY <1>7 DEF Quit
  <2> QED BY <1>b, <2>1 DEF LoginAtHand, EmptyInMenu, OnlyRememberedLogins
<1>8. CASE RegisterForm
  BY <1>8, RequestMade DEF RegisterForm, EmptyInMenu
<1>9. CASE LoginForm
  BY <1>9, RequestMade DEF LoginForm, EmptyInMenu
<1>10. CASE Logout
  <2>1. exit /\ session_file' = <<>> /\ UNCHANGED <<accounts, link>>
    BY <1>10 DEF Logout, service_logout, clear_session
  <2> QED BY <1>b, <2>1 DEF LoginAtHand, EmptyInMenu, OnlyRememberedLogins
<1>11. CASE service_update_user
  <2>1. PICK p \in Passwords :
          accounts' = [accounts EXCEPT ![client.login[1].email] = p]
    BY <1>11 DEF service_update_user
  <2>2. accounts' \in [Emails -> Passwords \cup {NoAccount}]
    BY <2>1 DEF LoginAtHand
  <2>3. UNCHANGED <<session_file, client, link, remembered>>
    BY <1>11 DEF service_update_user
  <2> QED BY <2>2, <2>3 DEF LoginAtHand, EmptyInMenu, OnlyRememberedLogins
<1>12. CASE Killed
  <2>1. exit /\ UNCHANGED <<session_file, accounts, link, remembered>>
    BY <1>12 DEF Killed
  <2> QED BY <1>b, <2>1 DEF LoginAtHand, EmptyInMenu, OnlyRememberedLogins
<1>13. CASE ServerGone \/ UNCHANGED vars
  BY <1>13 DEF ServerGone, vars, LoginAtHand, EmptyInMenu, OnlyRememberedLogins
<1>14. CASE ElsewhereUpdated
  <2>1. /\ accounts' \in [Emails -> Passwords \cup {NoAccount}]
        /\ UNCHANGED <<session_file, client, link, remembered>>
    BY <1>14 DEF ElsewhereUpdated, LoginAtHand
  <2> QED BY <2>1 DEF LoginAtHand, EmptyInMenu, OnlyRememberedLogins
<1> QED
  BY <1>1, <1>2, <1>3, <1>4, <1>5, <1>6, <1>7, <1>8, <1>9, <1>10, <1>11, <1>12,
     <1>13, <1>14 DEF Next, MainStep, UserStep

(* OnlyRememberedLogins: session.c never leaves a login in the file but one *)
(* of the account the user last asked to be remembered, with any number of *)
(* accounts, kills between fopen and the write, and refused logins.        *)
THEOREM FileIsRemembered == Spec => []OnlyRememberedLogins
<1>1. Inv => OnlyRememberedLogins
  BY DEF Inv
<1> QED BY InitInv, InvStep, <1>1, PTL DEF Spec
=============================================================================
