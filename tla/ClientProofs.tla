---------------------------- MODULE ClientProofs -----------------------------
(***************************************************************************)
(* The two threads of the client and the server behind them: the lists,    *)
(* the chat and the members shown, for any number of conversations,        *)
(* friends, texts and packets under way.                                   *)
(***************************************************************************)
EXTENDS Client, TLAPS, FiniteSetTheorems, SequenceTheorems

-----------------------------------------------------------------------------
(* Sequences                                                               *)

LEMMA Joined ==
  ASSUME NEW S, NEW s \in Seq(S), NEW t \in Seq(S)
  PROVE  /\ s \o t \in Seq(S) /\ Len(s \o t) = Len(s) + Len(t)
         /\ Len(s) \in Nat /\ Len(t) \in Nat
         /\ \A i \in 1..Len(s) : (s \o t)[i] = s[i]
         /\ \A i \in 1..Len(t) : (s \o t)[Len(s) + i] = t[i]
         /\ \A i \in DOMAIN (s \o t) :
              \/ i \in DOMAIN s /\ (s \o t)[i] = s[i]
              \/ \E k \in DOMAIN t : i = Len(s) + k /\ (s \o t)[i] = t[k]
<1>1. /\ s \o t \in Seq(S) /\ Len(s \o t) = Len(s) + Len(t)
      /\ \A i \in 1..(Len(s) + Len(t)) :
           (s \o t)[i] = IF i <= Len(s) THEN s[i] ELSE t[i - Len(s)]
  BY ConcatProperties
<1>2. Len(s) \in Nat /\ Len(t) \in Nat /\ DOMAIN s = 1..Len(s) /\ DOMAIN t = 1..Len(t)
  OBVIOUS
<1>3. DOMAIN (s \o t) = 1..(Len(s) + Len(t))
  BY <1>1
<1> DEFINE u == s \o t
           m == Len(s)
           n == Len(t)
<1>4. u \in Seq(S) /\ Len(u) = m + n /\ m \in Nat /\ n \in Nat /\ DOMAIN u = 1..(m + n)
      /\ \A i \in 1..(m + n) : u[i] = IF i <= m THEN s[i] ELSE t[i - m]
  BY <1>1, <1>2, <1>3
<1> HIDE DEF u, m, n
<1>5. \A i \in 1..m : u[i] = s[i]
  BY <1>4
<1>6. \A i \in 1..n : u[m + i] = t[i]
  <2> SUFFICES ASSUME NEW i \in 1..n PROVE u[m + i] = t[i]
    OBVIOUS
  <2>1. m + i \in 1..(m + n) /\ ~(m + i <= m) /\ (m + i) - m = i
    BY <1>4
  <2> QED BY <1>4, <2>1
<1>7. ASSUME NEW i \in 1..(m + n)
      PROVE  \/ i \in 1..m /\ u[i] = s[i]
             \/ \E k \in 1..n : i = m + k /\ u[i] = t[k]
  <2>1. CASE i <= m
    <3>1. i \in 1..m
      BY <1>4, <2>1
    <3> QED BY <1>5, <3>1
  <2>2. CASE ~(i <= m)
    <3>1. i - m \in 1..n /\ i = m + (i - m)
      BY <1>4, <2>2
    <3>2. u[i] = t[i - m]
      BY <1>4, <2>2
    <3> QED BY <3>1, <3>2
  <2> QED BY <2>1, <2>2
<1> QED BY <1>2, <1>4, <1>5, <1>6, <1>7 DEF u, m, n

(* The rest of what was under way.                                         *)
LEMMA Rest ==
  ASSUME NEW S, NEW s \in Seq(S), s # <<>>
  PROVE  /\ Head(s) \in S /\ Head(s) = s[1] /\ 1 \in DOMAIN s
         /\ Tail(s) \in Seq(S) /\ Len(Tail(s)) = Len(s) - 1 /\ Len(s) \in Nat
         /\ \A i \in DOMAIN Tail(s) : i + 1 \in DOMAIN s /\ Tail(s)[i] = s[i + 1]
         /\ \A i \in DOMAIN s : i = 1 \/ (i - 1 \in DOMAIN Tail(s) /\ Tail(s)[i - 1] = s[i])
<1>1. /\ Len(s) \in Nat /\ Len(s) >= 1 /\ DOMAIN s = 1..Len(s)
  BY EmptySeq
<1>2. /\ Head(s) \in S /\ Tail(s) \in Seq(S) /\ Len(Tail(s)) = Len(s) - 1 /\ Head(s) = s[1]
      /\ \A i \in 1..(Len(s) - 1) : Tail(s)[i] = s[i + 1]
  BY HeadTailProperties
<1>3. DOMAIN Tail(s) = 1..(Len(s) - 1)
  BY <1>1, <1>2
<1> DEFINE n == Len(s)
           t == Tail(s)
<1>4. /\ n \in Nat /\ n >= 1 /\ DOMAIN s = 1..n /\ DOMAIN t = 1..(n - 1)
      /\ \A i \in 1..(n - 1) : t[i] = s[i + 1]
  BY <1>1, <1>2, <1>3
<1> HIDE DEF n, t
<1>5. \A i \in 1..(n - 1) : i + 1 \in 1..n /\ t[i] = s[i + 1]
  BY <1>4
<1>6. ASSUME NEW i \in 1..n, i # 1
      PROVE  i - 1 \in 1..(n - 1) /\ t[i - 1] = s[i]
  <2>1. i - 1 \in 1..(n - 1) /\ (i - 1) + 1 = i
    BY <1>4, <1>6
  <2> QED BY <1>5, <2>1
<1> QED BY <1>1, <1>2, <1>4, <1>5, <1>6 DEF n, t

LEMMA Appended ==
  ASSUME NEW S, NEW s \in Seq(S), NEW x \in S
  PROVE  /\ Append(s, x) \in Seq(S)
         /\ Append(s, x) # <<>>
         /\ \A i \in DOMAIN s : i \in DOMAIN Append(s, x) /\ Append(s, x)[i] = s[i]
         /\ \A i \in DOMAIN Append(s, x) :
              \/ i \in DOMAIN s /\ Append(s, x)[i] = s[i]
              \/ i = Len(s) + 1 /\ i \notin DOMAIN s /\ Append(s, x)[i] = x
<1> DEFINE t == Append(s, x)
           n == Len(s)
<1>1. /\ t \in Seq(S) /\ n \in Nat /\ Len(t) = n + 1 /\ DOMAIN s = 1..n
      /\ \A i \in 1..n : t[i] = s[i] /\ t[n + 1] = x
  BY AppendProperties
<1>2. DOMAIN t = 1..(n + 1)
  BY <1>1
<1>3. t[n + 1] = x /\ t # <<>>
  BY AppendProperties
<1> HIDE DEF t, n
<1>4. \A i \in 1..(n + 1) : i \in 1..n \/ (i = n + 1 /\ i \notin 1..n)
  BY <1>1
<1> QED BY <1>1, <1>2, <1>3, <1>4 DEF t, n

LEMMA Beginning ==
  ASSUME NEW S, NEW s \in Seq(S), NEW t, \E n \in 0..Len(s) : t = SubSeq(s, 1, n)
  PROVE  \A i \in DOMAIN t : i \in DOMAIN s /\ t[i] = s[i]
<1>1. PICK n \in 0..Len(s) : t = SubSeq(s, 1, n)
  OBVIOUS
<1>2. Len(s) \in Nat /\ n \in Nat /\ n <= Len(s) /\ \A i \in 1..n : s[i] \in S
  OBVIOUS
<1>3. /\ t \in Seq(S) /\ Len(t) = IF 1 <= n THEN n - 1 + 1 ELSE 0
      /\ \A i \in 1..(n - 1 + 1) : t[i] = s[1 + i - 1]
  BY <1>1, <1>2, SubSeqProperties
<1>4. DOMAIN t = 1..n /\ DOMAIN s = 1..Len(s)
  BY <1>2, <1>3
<1>5. \A i \in 1..n : i \in 1..(n - 1 + 1) /\ 1 + i - 1 = i /\ i \in 1..Len(s)
  BY <1>2
<1> QED BY <1>3, <1>4, <1>5

LEMMA Ranks ==
  ASSUME NEW S \in SUBSET Nat, IsFiniteSet(S), NEW k \in 1..Cardinality(S)
  PROVE  \E x \in S : Cardinality({y \in S : y < x}) = k - 1
<1> DEFINE n == Cardinality(S)
           below(x) == {y \in S : y < x}
           rank == [x \in S |-> Cardinality(below(x))]
<1>1. n \in Nat /\ k - 1 \in 0..(n - 1)
  BY FS_CardinalityType
<1>2. ASSUME NEW x \in S
      PROVE  IsFiniteSet(below(x)) /\ Cardinality(below(x)) \in 0..(n - 1)
  <2>1. below(x) \in SUBSET S /\ below(x) # S
    OBVIOUS
  <2>2. IsFiniteSet(below(x)) /\ Cardinality(below(x)) <= n /\ Cardinality(below(x)) # n
    BY <2>1, FS_Subset
  <2>3. Cardinality(below(x)) \in Nat
    BY <2>2, FS_CardinalityType
  <2> QED BY <1>1, <2>2, <2>3
<1>3. ASSUME NEW x \in S, NEW y \in S, x < y
      PROVE  rank[x] # rank[y]
  <2>1. below(x) \in SUBSET below(y) /\ below(x) # below(y)
    <3>1. \A z \in S : z < x => z < y
      BY <1>3
    <3>2. x \in below(y) /\ x \notin below(x)
      BY <1>3
    <3> QED BY <3>1, <3>2
  <2>2. Cardinality(below(y)) # Cardinality(below(x))
    BY <1>2, <2>1, FS_Subset
  <2> QED BY <2>2
<1>4. rank \in Injection(S, 0..(n - 1))
  <2>1. rank \in [S -> 0..(n - 1)]
    BY <1>2
  <2>2. ASSUME NEW x \in S, NEW y \in S, x # y
        PROVE  rank[x] # rank[y]
    <3>1. x < y \/ y < x
      BY <2>2
    <3> QED BY <1>3, <3>1
  <2> QED BY <2>1, <2>2 DEF Injection, IsInjective
<1> HIDE DEF rank
<1>5. IsFiniteSet(0..(n - 1)) /\ Cardinality(0..(n - 1)) = n
  BY <1>1, FS_Interval
<1>6. rank \in Surjection(S, 0..(n - 1))
  BY <1>4, <1>5, FS_Injection
<1>7. \E x \in S : rank[x] = k - 1
  BY <1>1, <1>6 DEF Surjection
<1> QED BY <1>7 DEF rank

(* Sorting loses nothing.                                                  *)
LEMMA InOrder ==
  ASSUME NEW T, NEW S \in SUBSET T, S \subseteq Nat, IsFiniteSet(S)
  PROVE  /\ in_order(S) \in Seq(T)
         /\ in_order(S) = <<>> <=> S = {}
         /\ \A i \in DOMAIN in_order(S) : in_order(S)[i] \in S
<1> DEFINE s == in_order(S)
           n == Cardinality(S)
<1>1. n \in Nat /\ (n = 0 <=> S = {})
  BY FS_CardinalityType, FS_EmptySet
<1>2. \A k \in 1..n : s[k] \in S
  BY Ranks DEF in_order
<1>3. DOMAIN s = 1..n
  BY DEF in_order
<1>4. s \in Seq(T) /\ Len(s) = n
  <2>1. s \in [1..n -> T]
    BY <1>2 DEF in_order
  <2> HIDE DEF s, n
  <2> QED BY <1>1, <2>1, SeqDef
<1> HIDE DEF s, n
<1>5. s = <<>> <=> n = 0
  BY <1>1, <1>4, EmptySeq
<1> QED BY <1>1, <1>2, <1>3, <1>4, <1>5 DEF s

LEMMA AnyElements ==
  /\ UNKNOWN \in AnyConv /\ Convs \subseteq AnyConv /\ UNKNOWN \notin Convs
  /\ UNKNOWN \in AnyUser /\ Friends \subseteq AnyUser /\ Me \in AnyUser
  /\ AnyConv \subseteq Nat /\ AnyUser \subseteq Nat
  /\ Groups \subseteq Convs /\ AdminOf \subseteq Groups
  /\ MaxTexts \in Nat /\ MaxInbox \in Nat /\ MaxOutbox \in Nat /\ MaxOutbox >= 3
BY ClientConstants DEF AnyConv, AnyUser, UNKNOWN

-----------------------------------------------------------------------------
(* Shapes                                                                  *)

Request ==
  [type : {"MSG_REQ_CONTACTS", "MSG_GET_REQUESTS", "MSG_REQ_CONVERSATIONS",
           "MSG_ADD_BY_CODE", "MSG_UPDATE_USER"}]
  \cup [type : {"MSG_REQ_HISTORY", "MSG_REQ_MEMBERS", "MSG_DELETE_GROUP"}, conv_id : AnyConv]
  \cup [type : {"MSG_SEND_TEXT"}, text : Line]
  \cup [type : {"MSG_DECIDE_REQUEST"}, target_uid : AnyUser, accepted : BOOLEAN]
  \cup [type : {"MSG_KICK_MEMBER"}, conv_id : AnyConv, target_uid : AnyUser]
  \cup [type : {"MSG_CREATE_CONV"}, group : BOOLEAN, participant_uids : Seq(AnyUser)]

Packet ==
  [type : {"MSG_RESP_CONVERSATIONS"}, list : Seq(AnyConv)]
  \cup [type : {"MSG_RESP_CONTACTS", "MSG_RESP_REQUESTS", "MSG_RESP_MEMBERS"},
        list : Seq(AnyUser)]
  \cup [type : {"MSG_RESP_HISTORY"}, list : Seq(Line)]
  \cup [type : {"MSG_RTE_TEXT"}, text : {l \in Line : l.conv_id \in Convs}]
  \cup [type : {"MSG_CONV_CREATED", "MSG_ADD_REQ_SENT", "MSG_ADD_FAIL", "MSG_UPDATE_SUCCESS"}]

Locks == {"free", "ui", "net"}

UIState ==
  [pc : {"render", "clear_flag", "input", "open", "show", "append", "remove",
         "edit", "cleanup", "close"},
   selection : Nat, group_selection_idx : Nat, group_members_selected : SUBSET Nat,
   written : 0..MaxTexts, keys : SUBSET STRING]

NetState == [pc : {"recv", "lock", "update", "ended"}, packet : Packet \cup {NoPacket}]

ServerState ==
  [conversations : SUBSET Convs, contacts : SUBSET Friends, requests : SUBSET Friends,
   members : [Groups -> SUBSET (Friends \cup {Me})], log : [Convs -> Seq(Line)],
   ids : SUBSET Convs, texts : Nat, changes : Nat]

(* The network thread has a packet in its hands from the moment it is read *)
(* until it is stored, and only packets with something to store.           *)
AtHand ==
  /\ net.pc \in {"lock", "update"} => net.packet \in Packet /\ ~handled_at_once(net.packet)
  /\ net.pc \in {"recv", "ended"} => net.packet = NoPacket

Shapes ==
  /\ app \in AppState /\ state_lock \in Locks /\ ui \in UIState
  /\ net \in NetState /\ AtHand
  /\ outbox \in Seq(Request) /\ Len(outbox) <= MaxOutbox
  /\ inbox \in Seq(Packet) /\ Len(inbox) <= MaxInbox
  /\ conn \in {"up", "down", "reset", "closed"}
  /\ server \in ServerState

LEMMA RequestParts ==
  ASSUME NEW r \in Request
  PROVE  /\ r.type \in {"MSG_REQ_HISTORY", "MSG_REQ_MEMBERS", "MSG_DELETE_GROUP",
                        "MSG_KICK_MEMBER"} => r.conv_id \in AnyConv
         /\ r.type = "MSG_SEND_TEXT" => r.text \in Line
         /\ r.type = "MSG_DECIDE_REQUEST" => r.accepted \in BOOLEAN
         /\ r.type \in {"MSG_REQ_CONTACTS", "MSG_GET_REQUESTS", "MSG_REQ_CONVERSATIONS",
                        "MSG_ADD_BY_CODE", "MSG_UPDATE_USER", "MSG_REQ_HISTORY",
                        "MSG_REQ_MEMBERS", "MSG_DELETE_GROUP", "MSG_SEND_TEXT",
                        "MSG_DECIDE_REQUEST", "MSG_KICK_MEMBER", "MSG_CREATE_CONV"}
BY DEF Request

LEMMA PacketParts ==
  ASSUME NEW k \in Packet
  PROVE  /\ k.type = "MSG_RESP_CONVERSATIONS" => k.list \in Seq(AnyConv)
         /\ k.type \in {"MSG_RESP_CONTACTS", "MSG_RESP_REQUESTS", "MSG_RESP_MEMBERS"} =>
              k.list \in Seq(AnyUser)
         /\ k.type = "MSG_RESP_HISTORY" => k.list \in Seq(Line)
         /\ k.type = "MSG_RTE_TEXT" => k.text \in Line /\ k.text.conv_id \in Convs
         /\ k.type \in {"MSG_RESP_CONVERSATIONS", "MSG_RESP_CONTACTS", "MSG_RESP_REQUESTS",
                        "MSG_RESP_MEMBERS", "MSG_RESP_HISTORY", "MSG_RTE_TEXT",
                        "MSG_CONV_CREATED", "MSG_ADD_REQ_SENT", "MSG_ADD_FAIL",
                        "MSG_UPDATE_SUCCESS"}
BY DEF Packet

LEMMA RequestMade ==
  /\ service_refresh_contacts \in Request /\ service_refresh_requests \in Request
  /\ service_req_conversations \in Request /\ service_add_contact \in Request
  /\ service_update_user \in Request
  /\ \A c \in AnyConv : /\ service_req_history(c) \in Request
                        /\ service_req_members(c) \in Request
                        /\ service_delete_group(c) \in Request
                        /\ \A u \in AnyUser : service_kick_member(c, u) \in Request
  /\ \A text \in Line : service_send_text(text) \in Request
  /\ \A u \in AnyUser, b \in BOOLEAN : service_decide_request(u, b) \in Request
BY DEF Request, plain, service_refresh_contacts, service_refresh_requests,
       service_req_conversations, service_add_contact, service_update_user,
       service_req_history, service_req_members, service_delete_group,
       service_kick_member, service_send_text, service_decide_request

LEMMA ListNames ==
  /\ DOMAIN ListTypes = {"MSG_RESP_CONVERSATIONS", "MSG_RESP_CONTACTS", "MSG_RESP_REQUESTS",
                         "MSG_RESP_MEMBERS"}
  /\ ListTypes["MSG_RESP_CONVERSATIONS"] = "conversations"
  /\ ListTypes["MSG_RESP_CONTACTS"] = "contacts"
  /\ ListTypes["MSG_RESP_REQUESTS"] = "requests"
  /\ ListTypes["MSG_RESP_MEMBERS"] = "current_group_members"
BY DEF ListTypes

(* What a read without the lock returns is a list all the same.            *)
LEMMA ListsRead ==
  ASSUME Shapes
  PROVE  /\ reads("conversations", UNKNOWN) \subseteq Seq(AnyConv)
         /\ reads("contacts", UNKNOWN) \subseteq Seq(AnyUser)
         /\ reads("requests", UNKNOWN) \subseteq Seq(AnyUser)
         /\ reads("current_group_members", UNKNOWN) \subseteq Seq(AnyUser)
<1>1. /\ app.conversations \in Seq(AnyConv) /\ app.contacts \in Seq(AnyUser)
      /\ app.requests \in Seq(AnyUser) /\ app.current_group_members \in Seq(AnyUser)
      /\ app["conversations"] = app.conversations /\ app["contacts"] = app.contacts
      /\ app["requests"] = app.requests
      /\ app["current_group_members"] = app.current_group_members
  BY DEF Shapes, AppState
<1>2. /\ being_replaced("conversations") => net.packet.list \in Seq(AnyConv)
      /\ being_replaced("contacts") => net.packet.list \in Seq(AnyUser)
      /\ being_replaced("requests") => net.packet.list \in Seq(AnyUser)
      /\ being_replaced("current_group_members") => net.packet.list \in Seq(AnyUser)
  <2>1. net.pc = "update" => net.packet \in Packet
    BY DEF Shapes, AtHand
  <2> QED BY <2>1, PacketParts, ListNames DEF being_replaced
<1>3. /\ <<>> \in Seq(AnyConv) /\ <<UNKNOWN>> \in Seq(AnyConv)
      /\ <<>> \in Seq(AnyUser) /\ <<UNKNOWN>> \in Seq(AnyUser)
  BY AnyElements
<1> QED BY <1>1, <1>2, <1>3 DEF reads

LEMMA IndexRead ==
  ASSUME NEW T, NEW list \in Seq(T), NEW index, NEW anything, anything \subseteq T
  PROVE  at(list, index, anything) \subseteq T
BY DEF at

-----------------------------------------------------------------------------
(* What a step of the UI thread does to the lists and to the chat          *)

SameLists(a) ==
  /\ a.conversations = app.conversations /\ a.contacts = app.contacts
  /\ a.current_group_members = app.current_group_members

SameChat(a) == a.chat_history = app.chat_history /\ a.current_conv_id = app.current_conv_id

Keeps(a) == a \in AppState /\ SameLists(a) /\ SameChat(a)

(* These requests are sent, as far as the connection is up.                *)
Sent(ps) ==
  /\ outbox' \in Seq(Request) /\ Len(outbox') <= MaxOutbox
  /\ conn' \in {"up", "down", "reset", "closed"}
  /\ conn' = "up" => conn = "up" /\ outbox' = outbox \o ps

(* Steps that leave the chat alone, and the steps that do not.             *)
Elsewhere(ps) ==
  /\ {ui.pc, ui'.pc} \cap {"open", "show", "append"} = {}
  /\ SameChat(app') /\ ui'.written = ui.written
  /\ \A k \in DOMAIN ps : ps[k].type \notin {"MSG_REQ_HISTORY", "MSG_SEND_TEXT"}

Enters(ps) ==
  /\ ui.pc = "input" /\ ui'.pc = "open"
  /\ app'.chat_history = app.chat_history /\ ui'.written = ui.written /\ ps = <<>>

Opens(ps) ==
  /\ ui.pc = "open" /\ ui'.pc = "show"
  /\ app'.chat_history = <<>> /\ ui'.written = ui.written /\ ps = <<>>

Shows(ps) ==
  /\ ui.pc = "show" /\ ui'.pc = "render"
  /\ SameChat(app') /\ ui'.written = ui.written
  /\ ps = <<service_req_history(app.current_conv_id)>>

Writes(ps) ==
  /\ ui.pc = "input" /\ ui'.pc = "append"
  /\ SameChat(app') /\ ui'.written = ui.written + 1
  /\ ps = <<service_send_text(own_text(ui.written + 1))>>

Appends(ps) ==
  /\ ui.pc = "append" /\ ui'.pc = "render"
  /\ app'.chat_history = Append(app.chat_history, own_text(ui.written))
  /\ app'.current_conv_id = app.current_conv_id /\ ui'.written = ui.written /\ ps = <<>>

ChatStep(ps) ==
  Elsewhere(ps) \/ Enters(ps) \/ Opens(ps) \/ Shows(ps) \/ Writes(ps) \/ Appends(ps)

(* Whoever comes to the members, or changes them, asks for them.           *)
MembersStep(ps) ==
  app'.current_state = "MANAGE_MEMBERS" =>
    \/ ps # <<>> /\ ps[Len(ps)] = service_req_members(app'.current_conv_id)
    \/ /\ app.current_state = "MANAGE_MEMBERS"
       /\ app'.current_conv_id = app.current_conv_id
       /\ \A k \in DOMAIN ps : ps[k].type # "MSG_REQ_MEMBERS"

UIStep ==
  /\ net' = net /\ inbox' = inbox /\ server' = server
  /\ app' \in AppState /\ SameLists(app') /\ ui' \in UIState /\ state_lock' \in Locks
  /\ \E ps \in Seq(Request) : Sent(ps) /\ ChatStep(ps) /\ MembersStep(ps)

LEMMA NothingSent ==
  ASSUME Shapes, nothing_sent
  PROVE  Sent(<<>>) /\ <<>> \in Seq(Request)
<1>1. outbox \o <<>> = outbox
  BY ConcatEmptySeq DEF Shapes
<1> QED BY <1>1 DEF Shapes, Sent, nothing_sent

LEMMA PacketsSent ==
  ASSUME Shapes, NEW ps \in Seq(Request), send_packets(ps)
  PROVE  Sent(ps)
<1>1. CASE conn = "up" /\ Len(outbox) + Len(ps) <= MaxOutbox
           /\ outbox' = outbox \o ps /\ UNCHANGED conn
  <2>1. outbox \o ps \in Seq(Request) /\ Len(outbox \o ps) = Len(outbox) + Len(ps)
    BY Joined DEF Shapes
  <2> QED BY <1>1, <2>1 DEF Sent, Shapes
<1>2. CASE conn = "down" /\ conn' \in {"down", "reset"} /\ UNCHANGED outbox
  BY <1>2 DEF Sent, Shapes
<1>3. CASE conn = "reset" /\ conn' = "closed" /\ UNCHANGED outbox
  BY <1>3 DEF Sent, Shapes
<1> QED BY <1>1, <1>2, <1>3 DEF send_packets

LEMMA Redrawn ==
  ASSUME Shapes
  PROVE  /\ Keeps(redrawn) /\ redrawn.current_state = app.current_state
         /\ Keeps(app)
         /\ \A screen \in Screens :
              Keeps(goto(screen)) /\ goto(screen).current_state = screen
BY DEF Shapes, AppState, Keeps, SameLists, SameChat, redrawn, goto

LEMMA AtPc ==
  ASSUME Shapes, NEW pc \in {"render", "clear_flag", "input", "open", "show", "append",
                             "remove", "edit", "cleanup", "close"}
  PROVE  /\ at_pc(pc) \in UIState /\ at_pc(pc).pc = pc /\ at_pc(pc).written = ui.written
BY DEF Shapes, UIState, at_pc

(* A step that is not about a chat.                                        *)
LEMMA QuietStep ==
  ASSUME Shapes, UNCHANGED <<net, inbox, server>>, state_lock' \in Locks,
         Keeps(app'), ui' \in UIState, ui'.written = ui.written,
         ui.pc \notin {"open", "show", "append"}, ui'.pc \notin {"open", "show", "append"},
         NEW ps \in Seq(Request), Sent(ps),
         \A k \in DOMAIN ps : ps[k].type \notin {"MSG_REQ_HISTORY", "MSG_SEND_TEXT"},
         MembersStep(ps)
  PROVE  UIStep
<1>1. Elsewhere(ps)
  BY DEF Elsewhere, Keeps
<1> QED BY <1>1 DEF UIStep, ChatStep, Keeps

(* A key that is dealt with at once.                                       *)
LEMMA DoneStep ==
  ASSUME Shapes, UNCHANGED <<net, inbox, server, state_lock>>, ui.pc = "input",
         NEW a, Keeps(a), NEW u \in UIState, u.written = ui.written,
         NEW ps \in Seq(Request), done(a, u, ps),
         \A k \in DOMAIN ps : ps[k].type \notin {"MSG_REQ_HISTORY", "MSG_SEND_TEXT"},
         \/ a.current_state # "MANAGE_MEMBERS"
         \/ ps # <<>> /\ ps[Len(ps)] = service_req_members(app.current_conv_id)
         \/ app.current_state = "MANAGE_MEMBERS" /\ ps = <<>>
  PROVE  UIStep
<1>1. app' = a /\ ui' = [u EXCEPT !.pc = "render"]
  BY DEF done
<1>2. ui' \in UIState /\ ui'.pc = "render" /\ ui'.written = ui.written
  BY <1>1 DEF UIState
<1>3. Sent(ps)
  BY NothingSent, PacketsSent DEF done
<1>4. MembersStep(ps)
  BY <1>1 DEF MembersStep, Keeps, SameChat
<1> QED BY <1>1, <1>2, <1>3, <1>4, QuietStep DEF Shapes

LEMMA ContinueStep ==
  ASSUME Shapes, UNCHANGED <<net, inbox, server, state_lock>>, ui.pc = "input",
         NEW a, Keeps(a), a.current_state = app.current_state,
         NEW pc \in {"edit", "cleanup"}, continue(a, pc)
  PROVE  UIStep
<1>1. app' = a /\ ui' = at_pc(pc) /\ Sent(<<>>) /\ <<>> \in Seq(Request)
  BY NothingSent DEF continue
<1>2. ui' \in UIState /\ ui'.pc = pc /\ ui'.written = ui.written
  BY <1>1, AtPc
<1>3. MembersStep(<<>>)
  BY <1>1 DEF MembersStep, Keeps, SameChat
<1> DEFINE ps == <<>>
<1>4. /\ ps \in Seq(Request) /\ Sent(ps) /\ MembersStep(ps)
      /\ \A k \in DOMAIN ps : ps[k].type \notin {"MSG_REQ_HISTORY", "MSG_SEND_TEXT"}
  BY <1>1, <1>3
<1> HIDE DEF ps
<1>5. Keeps(app') /\ state_lock' \in Locks
  BY <1>1 DEF Shapes
<1>6. ui.pc \notin {"open", "show", "append"} /\ ui'.pc \notin {"open", "show", "append"}
  BY <1>2
<1> QED BY <1>2, <1>4, <1>5, <1>6, QuietStep

LEMMA OneRequest ==
  ASSUME NEW r \in Request
  PROVE  /\ <<r>> \in Seq(Request) /\ <<r>> # <<>> /\ Len(<<r>>) = 1
         /\ DOMAIN <<r>> = {1} /\ <<r>>[1] = r
OBVIOUS

LEMMA TwoRequests ==
  ASSUME NEW q \in Request, NEW r \in Request
  PROVE  /\ <<q, r>> \in Seq(Request) /\ <<q, r>> # <<>> /\ Len(<<q, r>>) = 2
         /\ DOMAIN <<q, r>> = {1, 2} /\ <<q, r>>[1] = q /\ <<q, r>>[2] = r
OBVIOUS

LEMMA DoneWithNone ==
  ASSUME Shapes, UNCHANGED <<net, inbox, server, state_lock>>, ui.pc = "input",
         NEW a, Keeps(a), NEW u \in UIState, u.written = ui.written, done(a, u, <<>>),
         a.current_state # "MANAGE_MEMBERS" \/ app.current_state = "MANAGE_MEMBERS"
  PROVE  UIStep
<1> DEFINE ps == <<>>
<1>1. /\ ps \in Seq(Request) /\ ps = <<>> /\ done(a, u, ps)
      /\ \A k \in DOMAIN ps : ps[k].type \notin {"MSG_REQ_HISTORY", "MSG_SEND_TEXT"}
  OBVIOUS
<1> HIDE DEF ps
<1> QED BY <1>1, DoneStep

LEMMA DoneWithOne ==
  ASSUME Shapes, UNCHANGED <<net, inbox, server, state_lock>>, ui.pc = "input",
         NEW a, Keeps(a), NEW u \in UIState, u.written = ui.written,
         NEW r \in Request, done(a, u, <<r>>),
         r.type \notin {"MSG_REQ_HISTORY", "MSG_SEND_TEXT"},
         a.current_state # "MANAGE_MEMBERS" \/ r = service_req_members(app.current_conv_id)
  PROVE  UIStep
<1> DEFINE ps == <<r>>
<1>1. /\ ps \in Seq(Request) /\ ps # <<>> /\ Len(ps) = 1 /\ DOMAIN ps = {1} /\ ps[1] = r
      /\ done(a, u, ps)
  BY OneRequest
<1> HIDE DEF ps
<1>2. \A k \in DOMAIN ps : ps[k].type \notin {"MSG_REQ_HISTORY", "MSG_SEND_TEXT"}
  BY <1>1
<1>3. \/ a.current_state # "MANAGE_MEMBERS"
      \/ ps # <<>> /\ ps[Len(ps)] = service_req_members(app.current_conv_id)
  BY <1>1
<1> QED BY <1>1, <1>2, <1>3, DoneStep

LEMMA DoneWithTwo ==
  ASSUME Shapes, UNCHANGED <<net, inbox, server, state_lock>>, ui.pc = "input",
         NEW a, Keeps(a), NEW u \in UIState, u.written = ui.written,
         NEW q \in Request, NEW r \in Request, done(a, u, <<q, r>>),
         q.type \notin {"MSG_REQ_HISTORY", "MSG_SEND_TEXT"},
         r.type \notin {"MSG_REQ_HISTORY", "MSG_SEND_TEXT"},
         a.current_state # "MANAGE_MEMBERS" \/ r = service_req_members(app.current_conv_id)
  PROVE  UIStep
<1> DEFINE ps == <<q, r>>
<1>1. /\ ps \in Seq(Request) /\ ps # <<>> /\ Len(ps) = 2 /\ DOMAIN ps = {1, 2}
      /\ ps[1] = q /\ ps[2] = r /\ done(a, u, ps)
  BY TwoRequests
<1> HIDE DEF ps
<1>2. \A k \in DOMAIN ps : ps[k].type \notin {"MSG_REQ_HISTORY", "MSG_SEND_TEXT"}
  BY <1>1
<1>3. \/ a.current_state # "MANAGE_MEMBERS"
      \/ ps # <<>> /\ ps[Len(ps)] = service_req_members(app.current_conv_id)
  BY <1>1
<1> QED BY <1>1, <1>2, <1>3, DoneStep

LEMMA Cursor ==
  ASSUME NEW index \in Nat, NEW list
  PROVE  moved(index, list) \subseteq Nat
BY DEF moved

LEMMA ScreenNames ==
  Screens = {"HOME", "CREATE_GROUP", "CHAT", "SETTINGS", "FRIENDS", "REQUESTS",
             "GROUP_SETTINGS", "MANAGE_MEMBERS"}
BY DEF Screens

(* The locals of main that a key changes.                                  *)
LEMMA Locals ==
  ASSUME Shapes
  PROVE  /\ ui \in UIState /\ ui.selection \in Nat /\ ui.group_selection_idx \in Nat
         /\ ui.group_members_selected \in SUBSET Nat
         /\ \A i \in Nat :
              /\ [ui EXCEPT !.selection = i] \in UIState
              /\ [ui EXCEPT !.selection = i].written = ui.written
              /\ [ui EXCEPT !.group_selection_idx = i] \in UIState
              /\ [ui EXCEPT !.group_selection_idx = i].written = ui.written
              /\ \A S \in SUBSET Nat :
                   /\ [ui EXCEPT !.group_selection_idx = i, !.group_members_selected = S]
                        \in UIState
                   /\ [ui EXCEPT !.group_selection_idx = i, !.group_members_selected = S]
                        .written = ui.written
         /\ \A S \in SUBSET Nat :
              /\ [ui EXCEPT !.group_members_selected = S] \in UIState
              /\ [ui EXCEPT !.group_members_selected = S].written = ui.written
BY DEF Shapes, UIState

LEMMA SelectionStep ==
  ASSUME Shapes, UNCHANGED <<net, inbox, server, state_lock>>, ui.pc = "input",
         NEW list, MoveSelection(list)
  PROVE  UIStep
<1>1. PICK items \in reads(list, UNKNOWN) : \E i \in moved(ui.selection, items) :
        done(redrawn, [ui EXCEPT !.selection = i], <<>>)
  BY DEF MoveSelection
<1>2. PICK i \in moved(ui.selection, items) :
        done(redrawn, [ui EXCEPT !.selection = i], <<>>)
  BY <1>1
<1>3. i \in Nat
  BY Cursor, Locals
<1> DEFINE a == redrawn
           u == [ui EXCEPT !.selection = i]
<1>4. /\ Keeps(a) /\ u \in UIState /\ u.written = ui.written /\ done(a, u, <<>>)
      /\ a.current_state # "MANAGE_MEMBERS" \/ app.current_state = "MANAGE_MEMBERS"
  BY <1>2, <1>3, Locals, Redrawn
<1> HIDE DEF a, u
<1> QED BY <1>4, DoneWithNone

LEMMA HomeKeyStep ==
  ASSUME Shapes, UNCHANGED <<net, inbox, server, state_lock>>, ui.pc = "input", HomeKey
  PROVE  UIStep
<1>1. CASE continue(redrawn, "cleanup")
  BY <1>1, Redrawn, ContinueStep
<1>2. CASE MoveSelection("conversations")
  BY <1>2, SelectionStep
<1>3. CASE done(goto("CREATE_GROUP"),
                [ui EXCEPT !.group_selection_idx = 0, !.group_members_selected = {}], <<>>)
  <2> DEFINE a == goto("CREATE_GROUP")
             u == [ui EXCEPT !.group_selection_idx = 0, !.group_members_selected = {}]
  <2>1. /\ Keeps(a) /\ a.current_state = "CREATE_GROUP" /\ done(a, u, <<>>)
    BY <1>3, Redrawn, ScreenNames
  <2>2. u \in UIState /\ u.written = ui.written
    <3> DEFINE S == {}
    <3>1. S \in SUBSET Nat /\ 0 \in Nat
      OBVIOUS
    <3> HIDE DEF S
    <3>2. /\ [ui EXCEPT !.group_selection_idx = 0, !.group_members_selected = S] \in UIState
          /\ [ui EXCEPT !.group_selection_idx = 0, !.group_members_selected = S].written
               = ui.written
      BY <3>1, Locals
    <3> QED BY <3>2 DEF S
  <2> HIDE DEF a, u
  <2> QED BY <2>1, <2>2, DoneWithNone
<1>4. CASE done(goto("FRIENDS"), [ui EXCEPT !.selection = 0],
                <<service_refresh_contacts, service_refresh_requests>>)
  <2>1. /\ service_refresh_contacts.type = "MSG_REQ_CONTACTS"
        /\ service_refresh_requests.type = "MSG_GET_REQUESTS"
    BY DEF service_refresh_contacts, service_refresh_requests, plain
  <2> DEFINE a == goto("FRIENDS")
             u == [ui EXCEPT !.selection = 0]
             q == service_refresh_contacts
             r == service_refresh_requests
  <2>2. /\ Keeps(a) /\ a.current_state = "FRIENDS" /\ done(a, u, <<q, r>>)
    BY <1>4, Redrawn, ScreenNames
  <2>3. u \in UIState /\ u.written = ui.written
    BY Locals
  <2>4. /\ q \in Request /\ q.type \notin {"MSG_REQ_HISTORY", "MSG_SEND_TEXT"}
        /\ r \in Request /\ r.type \notin {"MSG_REQ_HISTORY", "MSG_SEND_TEXT"}
    BY <2>1, RequestMade
  <2> HIDE DEF a, u, q, r
  <2> QED BY <2>2, <2>3, <2>4, DoneWithTwo
<1>5. CASE done(goto("SETTINGS"), ui, <<>>)
  BY <1>5, Redrawn, ScreenNames, Locals, DoneWithNone
<1>6. CASE pressed("enter", "HOME") /\
           \E convs \in reads("conversations", UNKNOWN) :
             /\ convs # <<>>
             /\ \E conv \in at(convs, ui.selection, AnyConv) :
                  continue([redrawn EXCEPT !.current_conv_id = conv], "open")
  <2>1. PICK convs \in reads("conversations", UNKNOWN) :
          \E conv \in at(convs, ui.selection, AnyConv) :
            continue([redrawn EXCEPT !.current_conv_id = conv], "open")
    BY <1>6
  <2>2. PICK conv \in at(convs, ui.selection, AnyConv) :
          continue([redrawn EXCEPT !.current_conv_id = conv], "open")
    BY <2>1
  <2>3. conv \in AnyConv
    BY ListsRead, IndexRead
  <2>4. app' = [redrawn EXCEPT !.current_conv_id = conv] /\ ui' = at_pc("open")
        /\ Sent(<<>>) /\ <<>> \in Seq(Request)
    BY <2>2, NothingSent DEF continue
  <2>5. /\ app' \in AppState /\ SameLists(app') /\ app'.chat_history = app.chat_history
        /\ app'.current_state = "HOME"
    BY <1>6, <2>3, <2>4, Redrawn DEF Keeps, SameLists, SameChat, AppState, pressed
  <2>6. ui' \in UIState /\ ui'.pc = "open" /\ ui'.written = ui.written
    BY <2>4, AtPc
  <2>7. Enters(<<>>) /\ MembersStep(<<>>)
    BY <2>5, <2>6 DEF Enters, MembersStep
  <2> QED BY <2>4, <2>5, <2>6, <2>7 DEF UIStep, ChatStep, Shapes
<1> QED BY <1>1, <1>2, <1>3, <1>4, <1>5, <1>6 DEF HomeKey

LEMMA Typed ==
  ASSUME Shapes, NEW a, Keeps(a)
  PROVE  /\ \A S \in SUBSET AnyConv :
              /\ Keeps([a EXCEPT !.chat_input_buffer = S])
              /\ [a EXCEPT !.chat_input_buffer = S].current_state = a.current_state
         /\ \A i \in Nat :
              /\ Keeps([a EXCEPT !.member_selection_idx = i])
              /\ [a EXCEPT !.member_selection_idx = i].current_state = a.current_state
         /\ a.chat_input_buffer \in SUBSET AnyConv /\ a.member_selection_idx \in Nat
BY DEF Keeps, SameLists, SameChat, AppState

LEMMA CurrentChat ==
  ASSUME Shapes
  PROVE  /\ app.current_conv_id \in AnyConv /\ app.chat_history \in Seq(Line)
         /\ ui.written \in Nat /\ ui.written <= MaxTexts
         /\ \A n \in Nat : /\ own_text(n) \in Line /\ own_text(n).id = -n
                           /\ own_text(n).conv_id = app.current_conv_id
BY AnyElements DEF Shapes, AppState, UIState, own_text, Line

LEMMA WriteStep ==
  ASSUME Shapes, UNCHANGED <<net, inbox, server, state_lock>>, ui.pc = "input",
         ui.written < MaxTexts, app' = redrawn,
         ui' = [at_pc("append") EXCEPT !.written = @ + 1],
         send_packets(<<service_send_text(own_text(ui.written + 1))>>),
         app.current_state = "CHAT"
  PROVE  UIStep
<1> DEFINE r == service_send_text(own_text(ui.written + 1))
           ps == <<r>>
<1>1. r \in Request
  BY CurrentChat, RequestMade
<1>2. ps \in Seq(Request) /\ Sent(ps)
  <2>1. ps \in Seq(Request)
    BY <1>1, OneRequest
  <2> HIDE DEF r
  <2> QED BY <2>1, PacketsSent DEF r
<1>3. /\ ui' \in UIState /\ ui'.pc = "append" /\ ui'.written = ui.written + 1
  <2>1. at_pc("append") \in UIState /\ at_pc("append").written = ui.written
    BY AtPc
  <2>2. ui.written + 1 \in 0..MaxTexts
    <3> DEFINE w == ui.written
    <3>1. w \in Nat /\ MaxTexts \in Nat /\ w < MaxTexts
      BY CurrentChat, AnyElements
    <3> HIDE DEF w
    <3>2. w + 1 \in 0..MaxTexts
      BY <3>1
    <3> QED BY <3>2 DEF w
  <2> QED BY <2>1, <2>2, AtPc DEF UIState
<1>4. Keeps(app') /\ app'.current_state = "CHAT"
  BY Redrawn
<1>5. Writes(ps)
  BY <1>3, <1>4 DEF Writes, Keeps
<1>6. MembersStep(ps)
  BY <1>4 DEF MembersStep
<1> HIDE DEF ps
<1> QED BY <1>2, <1>3, <1>4, <1>5, <1>6 DEF UIStep, ChatStep, Keeps, Shapes

LEMMA ChatKeyStep ==
  ASSUME Shapes, UNCHANGED <<net, inbox, server, state_lock>>, ui.pc = "input", ChatKey
  PROVE  UIStep
<1>1. CASE done([goto("HOME") EXCEPT !.chat_input_buffer = {}], ui,
                <<service_req_conversations>>)
  <2> DEFINE a == [goto("HOME") EXCEPT !.chat_input_buffer = {}]
             r == service_req_conversations
  <2>1. Keeps(a) /\ a.current_state = "HOME"
    BY Redrawn, ScreenNames, Typed
  <2>2. r \in Request /\ r.type \notin {"MSG_REQ_HISTORY", "MSG_SEND_TEXT"}
    BY RequestMade DEF service_req_conversations, plain
  <2>3. done(a, ui, <<r>>)
    BY <1>1
  <2> HIDE DEF a, r
  <2> QED BY <2>1, <2>2, <2>3, Locals, DoneWithOne
<1>2. CASE done([redrawn EXCEPT !.chat_input_buffer =
                   IF @ = {} THEN {app.current_conv_id} ELSE @], ui, <<>>)
  <2> DEFINE S == IF redrawn.chat_input_buffer = {} THEN {app.current_conv_id}
                  ELSE redrawn.chat_input_buffer
             a == [redrawn EXCEPT !.chat_input_buffer = S]
  <2>1. S \in SUBSET AnyConv
    BY Redrawn, Typed, CurrentChat
  <2>2. done(a, ui, <<>>)
    BY <1>2
  <2> HIDE DEF S
  <2>3. Keeps(a) /\ a.current_state = app.current_state
    BY <2>1, Redrawn, Typed
  <2> HIDE DEF a
  <2> QED BY <2>2, <2>3, Locals, DoneWithNone
<1>3. CASE done([redrawn EXCEPT !.chat_input_buffer = {}], ui, <<>>)
  <2> DEFINE a == [redrawn EXCEPT !.chat_input_buffer = {}]
  <2>1. Keeps(a) /\ a.current_state = app.current_state /\ done(a, ui, <<>>)
    BY <1>3, Redrawn, Typed
  <2> HIDE DEF a
  <2> QED BY <2>1, Locals, DoneWithNone
<1>4. CASE /\ pressed("enter", "CHAT")
           /\ ui.written < MaxTexts
           /\ app' = redrawn
           /\ ui' = [at_pc("append") EXCEPT !.written = @ + 1]
           /\ send_packets(<<service_send_text(own_text(ui.written + 1))>>)
  BY <1>4, WriteStep DEF pressed
<1>5. CASE done(goto("GROUP_SETTINGS"), ui, <<>>)
  <2> DEFINE a == goto("GROUP_SETTINGS")
  <2>1. Keeps(a) /\ a.current_state = "GROUP_SETTINGS" /\ done(a, ui, <<>>)
    BY <1>5, Redrawn, ScreenNames
  <2> HIDE DEF a
  <2> QED BY <2>1, Locals, DoneWithNone
<1> QED BY <1>1, <1>2, <1>3, <1>4, <1>5 DEF ChatKey

(* The steps of a chat that follow a key.                                  *)
LEMMA OpenStep ==
  ASSUME Shapes, UNCHANGED server, Open
  PROVE  UIStep
<1>1. /\ ui.pc = "open" /\ app' = [app EXCEPT !.chat_history = <<>>] /\ ui' = at_pc("show")
      /\ UNCHANGED <<state_lock, net, inbox, outbox, conn>>
  BY DEF Open
<1>2. ui' \in UIState /\ ui'.pc = "show" /\ ui'.written = ui.written
  BY <1>1, AtPc
<1>3. /\ app' \in AppState /\ SameLists(app') /\ app'.chat_history = <<>>
      /\ app'.current_conv_id = app.current_conv_id /\ app'.current_state = app.current_state
  <2> DEFINE h == <<>>
  <2>1. h \in Seq(Line) /\ app' = [app EXCEPT !.chat_history = h]
    BY <1>1
  <2> HIDE DEF h
  <2>2. /\ app' \in AppState /\ SameLists(app') /\ app'.chat_history = h
        /\ app'.current_conv_id = app.current_conv_id
        /\ app'.current_state = app.current_state
    BY <2>1 DEF Shapes, AppState, SameLists
  <2> QED BY <2>2 DEF h
<1> DEFINE ps == <<>>
<1>4. ps \in Seq(Request) /\ Sent(ps) /\ ps = <<>> /\ \A k \in DOMAIN ps : ps[k].type # "MSG_REQ_MEMBERS"
  BY <1>1, NothingSent DEF nothing_sent
<1> HIDE DEF ps
<1>5. Opens(ps) /\ MembersStep(ps)
  BY <1>1, <1>2, <1>3, <1>4 DEF Opens, MembersStep
<1> QED BY <1>1, <1>2, <1>3, <1>4, <1>5 DEF UIStep, ChatStep, Shapes

LEMMA ShowStep ==
  ASSUME Shapes, UNCHANGED server, Show
  PROVE  UIStep
<1> DEFINE r == service_req_history(app.current_conv_id)
           ps == <<r>>
<1>1. /\ ui.pc = "show" /\ ui' = at_pc("render")
      /\ \E read : app' = [app EXCEPT !.unread = @ \ {read}, !.current_state = "CHAT"]
      /\ send_packets(ps) /\ UNCHANGED <<state_lock, net, inbox>>
  BY DEF Show
<1>2. ui' \in UIState /\ ui'.pc = "render" /\ ui'.written = ui.written
  BY <1>1, AtPc
<1>3. Keeps(app') /\ app'.current_state = "CHAT"
  <2>1. PICK read : app' = [app EXCEPT !.unread = @ \ {read}, !.current_state = "CHAT"]
    BY <1>1
  <2> DEFINE S == app.unread \ {read}
  <2>2. S \in SUBSET Convs /\ app' = [app EXCEPT !.unread = S, !.current_state = "CHAT"]
    BY <2>1 DEF Shapes, AppState
  <2> HIDE DEF S
  <2> QED BY <2>2, ScreenNames DEF Shapes, AppState, Keeps, SameLists, SameChat
<1>4. ps \in Seq(Request) /\ Sent(ps)
  <2>1. r \in Request
    BY RequestMade, CurrentChat
  <2>2. ps \in Seq(Request)
    BY <2>1, OneRequest
  <2> HIDE DEF ps
  <2> QED BY <1>1, <2>2, PacketsSent
<1>5. Shows(ps) /\ MembersStep(ps)
  BY <1>1, <1>2, <1>3 DEF Shows, MembersStep, Keeps
<1> HIDE DEF ps
<1> QED BY <1>1, <1>2, <1>3, <1>4, <1>5 DEF UIStep, ChatStep, Shapes, Keeps

LEMMA AppendOwnStep ==
  ASSUME Shapes, UNCHANGED server, AppendOwnText
  PROVE  UIStep
<1>1. /\ ui.pc = "append" /\ ui' = at_pc("render")
      /\ app' = [app_append_history(app, own_text(ui.written)) EXCEPT !.chat_input_buffer = {}]
      /\ UNCHANGED <<state_lock, net, inbox, outbox, conn>>
  BY DEF AppendOwnText
<1>2. ui' \in UIState /\ ui'.pc = "render" /\ ui'.written = ui.written
  BY <1>1, AtPc
<1>3. /\ app' \in AppState /\ SameLists(app')
      /\ app'.chat_history = Append(app.chat_history, own_text(ui.written))
      /\ app'.current_conv_id = app.current_conv_id /\ app'.current_state = app.current_state
  <2> DEFINE h == Append(app.chat_history, own_text(ui.written))
  <2>1. h \in Seq(Line)
    BY CurrentChat
  <2>2. app' = [[app EXCEPT !.chat_history = h] EXCEPT !.chat_input_buffer = {}]
    BY <1>1 DEF app_append_history
  <2> HIDE DEF h
  <2>3. /\ app' \in AppState /\ SameLists(app') /\ app'.chat_history = h
        /\ app'.current_conv_id = app.current_conv_id
        /\ app'.current_state = app.current_state
    BY <2>1, <2>2 DEF Shapes, AppState, SameLists
  <2> QED BY <2>3 DEF h
<1> DEFINE ps == <<>>
<1>4. ps \in Seq(Request) /\ Sent(ps) /\ ps = <<>> /\ \A k \in DOMAIN ps : ps[k].type # "MSG_REQ_MEMBERS"
  BY <1>1, NothingSent DEF nothing_sent
<1> HIDE DEF ps
<1>5. Appends(ps) /\ MembersStep(ps)
  BY <1>1, <1>2, <1>3, <1>4 DEF Appends, MembersStep
<1> QED BY <1>1, <1>2, <1>3, <1>4, <1>5 DEF UIStep, ChatStep, Shapes

(* The group that the ticks make up.                                       *)
LEMMA SelectedUids ==
  ASSUME NEW contacts \in Seq(AnyUser)
  PROVE  selected_uids(contacts) \in Seq(AnyUser)
<1> DEFINE D == DOMAIN contacts
           T == {i \in D : i - 1 \in ui.group_members_selected}
           t == in_order(T)
           uids == [k \in DOMAIN t |-> contacts[t[k]]]
<1>1. D = 1..Len(contacts) /\ Len(contacts) \in Nat /\ \A i \in D : contacts[i] \in AnyUser
  OBVIOUS
<1>2. IsFiniteSet(T)
  <2>1. IsFiniteSet(D)
    BY <1>1, FS_Interval
  <2>2. T \in SUBSET D
    OBVIOUS
  <2> HIDE DEF T, D
  <2> QED BY <2>1, <2>2, FS_Subset
<1>3. T \subseteq D /\ D \subseteq Nat
  BY <1>1
<1> HIDE DEF T
<1>4. t \in Seq(D) /\ \A i \in DOMAIN t : t[i] \in D
  BY <1>2, <1>3, InOrder
<1> HIDE DEF t, D
<1>5. DOMAIN t = 1..Len(t) /\ Len(t) \in Nat
  BY <1>4
<1>6. uids \in [1..Len(t) -> AnyUser]
  BY <1>1, <1>4, <1>5
<1> HIDE DEF uids
<1>7. uids \in Seq(AnyUser)
  BY <1>5, <1>6, SeqDef
<1> QED BY <1>7 DEF selected_uids, uids, t, T, D

LEMMA CreateRequests ==
  /\ \A uids \in Seq(AnyUser) : service_create_group(uids) \in Request
  /\ \A uids : service_create_group(uids).type = "MSG_CREATE_CONV"
  /\ \A uid \in AnyUser : /\ service_create_private(uid) \in Request
                          /\ service_create_private(uid).type = "MSG_CREATE_CONV"
<1>1. ASSUME NEW uids \in Seq(AnyUser)
      PROVE  service_create_group(uids) \in Request
  <2> DEFINE all == <<Me>> \o uids
             n == Len(all)
             m == Min({n, MAX_PARTICIPANTS})
             fitting == SubSeq(all, 1, m)
  <2>1. all \in Seq(AnyUser) /\ n \in Nat
    <3>1. <<Me>> \in Seq(AnyUser)
      BY AnyElements
    <3>2. all \in Seq(AnyUser)
      BY <3>1, ConcatProperties
    <3> QED BY <3>2
  <2>2. MAX_PARTICIPANTS \in Nat
    BY ClientConstants
  <2>3. m \in Nat /\ m <= n
    <3> HIDE DEF n
    <3>1. \E x \in {n, MAX_PARTICIPANTS} : \A y \in {n, MAX_PARTICIPANTS} : x <= y
      BY <2>1, <2>2
    <3> QED BY <2>1, <2>2, <3>1 DEF Min
  <2>4. \A i \in 1..m : all[i] \in AnyUser
    <3>1. \A i \in 1..n : all[i] \in AnyUser
      BY <2>1
    <3> HIDE DEF all, m, n
    <3>2. 1..m \subseteq 1..n
      BY <2>1, <2>3
    <3> QED BY <3>1, <3>2
  <2> HIDE DEF all, m
  <2>5. fitting \in Seq(AnyUser)
    BY <2>3, <2>4, SubSeqProperties
  <2>6. service_create_group(uids) =
          [type |-> "MSG_CREATE_CONV", group |-> TRUE, participant_uids |-> fitting]
    BY DEF service_create_group, all, m
  <2> HIDE DEF fitting
  <2> QED BY <2>5, <2>6 DEF Request
<1>2. \A uids : service_create_group(uids).type = "MSG_CREATE_CONV"
  BY DEF service_create_group
<1>3. ASSUME NEW uid \in AnyUser
      PROVE  service_create_private(uid) \in Request
  <2>1. <<Me, uid>> \in Seq(AnyUser)
    BY AnyElements
  <2> QED BY <2>1 DEF service_create_private, Request
<1>4. \A uid : service_create_private(uid).type = "MSG_CREATE_CONV"
  BY DEF service_create_private
<1> QED BY <1>1, <1>2, <1>3, <1>4

LEMMA CreateGroupKeyStep ==
  ASSUME Shapes, UNCHANGED <<net, inbox, server, state_lock>>, ui.pc = "input",
         CreateGroupKey
  PROVE  UIStep
<1>1. CASE done(goto("HOME"), ui, <<>>)
  <2>1. Keeps(goto("HOME")) /\ goto("HOME").current_state = "HOME"
    BY Redrawn, ScreenNames
  <2> QED BY <1>1, <2>1, Locals, DoneWithNone
<1>2. CASE \E contacts \in reads("contacts", UNKNOWN) :
             \E i \in moved(ui.group_selection_idx, contacts) :
               done(redrawn, [ui EXCEPT !.group_selection_idx = i], <<>>)
  <2>1. PICK contacts \in reads("contacts", UNKNOWN) :
          \E i \in moved(ui.group_selection_idx, contacts) :
            done(redrawn, [ui EXCEPT !.group_selection_idx = i], <<>>)
    BY <1>2
  <2>2. PICK i \in moved(ui.group_selection_idx, contacts) :
          done(redrawn, [ui EXCEPT !.group_selection_idx = i], <<>>)
    BY <2>1
  <2>3. i \in Nat
    BY Cursor, Locals
  <2> DEFINE u == [ui EXCEPT !.group_selection_idx = i]
  <2>4. u \in UIState /\ u.written = ui.written /\ done(redrawn, u, <<>>)
    BY <2>2, <2>3, Locals
  <2> HIDE DEF u
  <2> QED BY <2>4, Redrawn, DoneWithNone
<1>3. CASE done(redrawn, [ui EXCEPT !.group_members_selected =
                            SymDiff(@, {ui.group_selection_idx})], <<>>)
  <2> DEFINE S == SymDiff(ui.group_members_selected, {ui.group_selection_idx})
             u == [ui EXCEPT !.group_members_selected = S]
  <2>1. S \in SUBSET Nat
    BY Locals DEF SymDiff
  <2>2. done(redrawn, u, <<>>)
    BY <1>3
  <2> HIDE DEF S
  <2>3. u \in UIState /\ u.written = ui.written
    BY <2>1, Locals
  <2> HIDE DEF u
  <2> QED BY <2>2, <2>3, Redrawn, DoneWithNone
<1>4. CASE \E contacts \in reads("contacts", UNKNOWN) :
             done(goto("HOME"), ui, <<service_create_group(selected_uids(contacts))>>)
  <2>1. PICK contacts \in reads("contacts", UNKNOWN) :
          done(goto("HOME"), ui, <<service_create_group(selected_uids(contacts))>>)
    BY <1>4
  <2> DEFINE r == service_create_group(selected_uids(contacts))
  <2>2. contacts \in Seq(AnyUser)
    BY ListsRead
  <2>3. r \in Request /\ r.type = "MSG_CREATE_CONV"
    BY <2>2, SelectedUids, CreateRequests
  <2>4. Keeps(goto("HOME")) /\ goto("HOME").current_state = "HOME" /\ done(goto("HOME"), ui, <<r>>)
    BY <2>1, Redrawn, ScreenNames
  <2> HIDE DEF r
  <2> QED BY <2>3, <2>4, Locals, DoneWithOne
<1> QED BY <1>1, <1>2, <1>3, <1>4 DEF CreateGroupKey

LEMMA FriendsKeyStep ==
  ASSUME Shapes, UNCHANGED <<net, inbox, server, state_lock>>, ui.pc = "input", FriendsKey
  PROVE  UIStep
<1>0. /\ Keeps(goto("HOME")) /\ goto("HOME").current_state = "HOME"
      /\ Keeps(goto("REQUESTS")) /\ goto("REQUESTS").current_state = "REQUESTS"
  BY Redrawn, ScreenNames
<1> DEFINE u == [ui EXCEPT !.selection = 0]
<1>1. u \in UIState /\ u.written = ui.written
  BY Locals
<1>2. CASE done(goto("HOME"), u, <<>>)
  <2> HIDE DEF u
  <2> QED BY <1>0, <1>1, <1>2, DoneWithNone
<1>3. CASE MoveSelection("contacts")
  BY <1>3, SelectionStep
<1>4. CASE pressed("a", "FRIENDS") /\ done(redrawn, ui, <<service_add_contact>>)
  <2> DEFINE r == service_add_contact
  <2>1. /\ r \in Request /\ r.type = "MSG_ADD_BY_CODE"
        /\ Keeps(redrawn) /\ redrawn.current_state = "FRIENDS" /\ done(redrawn, ui, <<r>>)
    BY <1>4, RequestMade, Redrawn DEF service_add_contact, plain, pressed
  <2> HIDE DEF r
  <2> QED BY <2>1, Locals, DoneWithOne
<1>5. CASE done(goto("REQUESTS"), u, <<>>)
  <2> HIDE DEF u
  <2> QED BY <1>0, <1>1, <1>5, DoneWithNone
<1>6. CASE \E contacts \in reads("contacts", UNKNOWN) :
             \E uid \in at(contacts, ui.selection, AnyUser) :
               done(goto("HOME"), ui, <<service_create_private(uid)>>)
  <2>1. PICK contacts \in reads("contacts", UNKNOWN) :
          \E uid \in at(contacts, ui.selection, AnyUser) :
            done(goto("HOME"), ui, <<service_create_private(uid)>>)
    BY <1>6
  <2>2. PICK uid \in at(contacts, ui.selection, AnyUser) :
          done(goto("HOME"), ui, <<service_create_private(uid)>>)
    BY <2>1
  <2> DEFINE r == service_create_private(uid)
  <2>3. uid \in AnyUser
    BY ListsRead, IndexRead
  <2>4. r \in Request /\ r.type = "MSG_CREATE_CONV" /\ done(goto("HOME"), ui, <<r>>)
    BY <2>2, <2>3, CreateRequests
  <2> HIDE DEF r
  <2> QED BY <1>0, <2>4, Locals, DoneWithOne
<1> QED BY <1>2, <1>3, <1>4, <1>5, <1>6 DEF FriendsKey

LEMMA SettingsKeyStep ==
  ASSUME Shapes, UNCHANGED <<net, inbox, server, state_lock>>, ui.pc = "input", SettingsKey
  PROVE  UIStep
<1>1. CASE continue(redrawn, "cleanup")
  BY <1>1, Redrawn, ContinueStep
<1>2. CASE continue(redrawn, "edit")
  BY <1>2, Redrawn, ContinueStep
<1>3. CASE done(goto("HOME"), ui, <<>>)
  <2>1. Keeps(goto("HOME")) /\ goto("HOME").current_state = "HOME"
    BY Redrawn, ScreenNames
  <2> QED BY <1>3, <2>1, Locals, DoneWithNone
<1> QED BY <1>1, <1>2, <1>3 DEF SettingsKey

(* A step without a packet that stays away from the members.               *)
LEMMA SilentStep ==
  ASSUME Shapes, UNCHANGED <<net, inbox, server>>, state_lock' \in Locks,
         Keeps(app'), ui' \in UIState, ui'.written = ui.written,
         ui.pc \notin {"open", "show", "append"}, ui'.pc \notin {"open", "show", "append"},
         app'.current_state = app.current_state \/ app'.current_state # "MANAGE_MEMBERS",
         Sent(<<>>)
  PROVE  UIStep
<1> DEFINE ps == <<>>
<1>1. /\ ps \in Seq(Request) /\ Sent(ps)
      /\ \A k \in DOMAIN ps : ps[k].type \notin {"MSG_REQ_HISTORY", "MSG_SEND_TEXT"}
      /\ \A k \in DOMAIN ps : ps[k].type # "MSG_REQ_MEMBERS"
  OBVIOUS
<1> HIDE DEF ps
<1>2. MembersStep(ps)
  BY <1>1 DEF MembersStep, Keeps, SameChat
<1> QED BY <1>1, <1>2, QuietStep

LEMMA EditStep ==
  ASSUME Shapes, UNCHANGED server, EditProfile
  PROVE  UIStep
<1>1. /\ ui.pc = "edit" /\ state_lock' = "ui" /\ ui' = at_pc("render")
      /\ nothing_sent \/ send_packets(<<service_update_user>>)
      /\ UNCHANGED <<app, net, inbox>>
  BY DEF EditProfile
<1>2. ui' \in UIState /\ ui'.pc = "render" /\ ui'.written = ui.written
  BY <1>1, AtPc
<1>3. /\ Keeps(app') /\ app'.current_state = app.current_state /\ state_lock' \in Locks
      /\ app'.current_conv_id = app.current_conv_id
  BY <1>1, Redrawn DEF Keeps, SameChat, SameLists, Locks
<1>4. CASE nothing_sent
  <2>1. Sent(<<>>)
    BY <1>4, NothingSent
  <2> QED BY <1>1, <1>2, <1>3, <2>1, SilentStep
<1>5. CASE send_packets(<<service_update_user>>)
  <2> DEFINE r == service_update_user
             ps == <<r>>
  <2>1. r \in Request /\ r.type = "MSG_UPDATE_USER"
    BY RequestMade DEF service_update_user, plain
  <2> HIDE DEF r
  <2>2. ps \in Seq(Request) /\ DOMAIN ps = {1} /\ ps[1] = r
    BY <2>1, OneRequest
  <2>3. send_packets(ps)
    BY <1>5 DEF r
  <2> HIDE DEF ps
  <2>4. Sent(ps)
    BY <2>2, <2>3, PacketsSent
  <2>5. MembersStep(ps)
    BY <1>3, <2>1, <2>2 DEF MembersStep
  <2>6. \A k \in DOMAIN ps : ps[k].type \notin {"MSG_REQ_HISTORY", "MSG_SEND_TEXT"}
    BY <2>1, <2>2
  <2> QED BY <1>1, <1>2, <1>3, <2>2, <2>4, <2>5, <2>6, QuietStep
<1> QED BY <1>1, <1>4, <1>5

LEMMA RequestsKeyStep ==
  ASSUME Shapes, UNCHANGED <<net, inbox, server, state_lock>>, ui.pc = "input", RequestsKey
  PROVE  UIStep
<1>1. CASE done(goto("FRIENDS"), [ui EXCEPT !.selection = 0], <<>>)
  <2> DEFINE u == [ui EXCEPT !.selection = 0]
  <2>1. u \in UIState /\ u.written = ui.written
    BY Locals
  <2>2. Keeps(goto("FRIENDS")) /\ goto("FRIENDS").current_state = "FRIENDS"
    BY Redrawn, ScreenNames
  <2>3. done(goto("FRIENDS"), u, <<>>)
    BY <1>1
  <2> HIDE DEF u
  <2> QED BY <2>1, <2>2, <2>3, DoneWithNone
<1>2. ASSUME NEW key \in {"enter", "d"}, NEW requests \in reads("requests", UNKNOWN),
             NEW uid \in at(requests, ui.selection, AnyUser),
             send_packets(<<service_decide_request(uid, key = "enter")>>),
             app' = redrawn, ui' = at_pc("remove")
      PROVE  UIStep
  <2> DEFINE r == service_decide_request(uid, key = "enter")
             ps == <<r>>
  <2>1. r \in Request /\ r.type = "MSG_DECIDE_REQUEST"
    <3>1. uid \in AnyUser /\ (key = "enter") \in BOOLEAN
      BY ListsRead, IndexRead
    <3>2. r.type = "MSG_DECIDE_REQUEST"
      BY DEF service_decide_request
    <3> QED BY <3>1, <3>2, RequestMade
  <2>2. send_packets(ps)
    BY <1>2
  <2> HIDE DEF r
  <2>3. ps \in Seq(Request) /\ DOMAIN ps = {1} /\ ps[1] = r
    BY <2>1, OneRequest
  <2> HIDE DEF ps
  <2>4. Sent(ps) /\ \A k \in DOMAIN ps : ps[k].type \notin {"MSG_REQ_HISTORY", "MSG_SEND_TEXT"}
    BY <2>1, <2>2, <2>3, PacketsSent
  <2>5. Keeps(app') /\ app'.current_state = app.current_state
    BY <1>2, Redrawn
  <2>6. MembersStep(ps)
    BY <2>1, <2>3, <2>5 DEF MembersStep, Keeps, SameChat
  <2>7. ui' \in UIState /\ ui'.pc = "remove" /\ ui'.written = ui.written
    BY <1>2, AtPc
  <2> QED BY <2>3, <2>4, <2>5, <2>6, <2>7, QuietStep DEF Shapes
<1> QED BY <1>1, <1>2 DEF RequestsKey

LEMMA RemoveStep ==
  ASSUME Shapes, UNCHANGED server, RemoveRequest
  PROVE  UIStep
<1>1. /\ ui.pc = "remove" /\ app' = app_remove_request(app, ui.selection)
      /\ ui' = at_pc("render") /\ UNCHANGED <<state_lock, net, inbox, outbox, conn>>
  BY DEF RemoveRequest
<1>2. ui' \in UIState /\ ui'.pc = "render" /\ ui'.written = ui.written
  BY <1>1, AtPc
<1>3. Keeps(app') /\ app'.current_state = app.current_state
  <2>1. CASE ui.selection + 1 \in DOMAIN app.requests
    <3> DEFINE s == app.requests
               k == ui.selection + 1
               t == RemoveAt(s, k)
    <3>1. s \in Seq(AnyUser) /\ k \in 1..Len(s) /\ Len(s) \in Nat
      BY <2>1 DEF Shapes, AppState
    <3>2. app' = [app EXCEPT !.requests = t]
      BY <1>1, <2>1 DEF app_remove_request
    <3> HIDE DEF s, k
    <3>3. t \in Seq(AnyUser)
      <4>1. SubSeq(s, 1, k - 1) \in Seq(AnyUser) /\ SubSeq(s, k + 1, Len(s)) \in Seq(AnyUser)
        BY <3>1
      <4> QED BY <4>1, ConcatProperties DEF RemoveAt
    <3> HIDE DEF t
    <3> QED BY <3>2, <3>3 DEF Shapes, AppState, Keeps, SameLists, SameChat
  <2>2. CASE ui.selection + 1 \notin DOMAIN app.requests
    BY <1>1, <2>2, Redrawn DEF app_remove_request
  <2> QED BY <2>1, <2>2
<1>4. Sent(<<>>)
  BY <1>1, NothingSent DEF nothing_sent
<1> QED BY <1>1, <1>2, <1>3, <1>4, SilentStep DEF Shapes

LEMMA GroupSettingsKeyStep ==
  ASSUME Shapes, UNCHANGED <<net, inbox, server, state_lock>>, ui.pc = "input",
         GroupSettingsKey
  PROVE  UIStep
<1>0. /\ Keeps(goto("CHAT")) /\ goto("CHAT").current_state = "CHAT"
      /\ Keeps(goto("HOME")) /\ goto("HOME").current_state = "HOME"
      /\ Keeps(goto("MANAGE_MEMBERS"))
  BY Redrawn, ScreenNames
<1>1. CASE done(goto("CHAT"), ui, <<>>)
  BY <1>0, <1>1, Locals, DoneWithNone
<1>2. CASE done(goto("HOME"), ui, <<service_delete_group(app.current_conv_id)>>)
  <2> DEFINE r == service_delete_group(app.current_conv_id)
  <2>1. r \in Request /\ r.type = "MSG_DELETE_GROUP" /\ done(goto("HOME"), ui, <<r>>)
    BY <1>2, RequestMade, CurrentChat DEF service_delete_group
  <2> HIDE DEF r
  <2> QED BY <1>0, <2>1, Locals, DoneWithOne
<1>3. ASSUME NEW is_admin \in admin_here,
             done([goto("MANAGE_MEMBERS") EXCEPT
                     !.member_selection_idx = IF is_admin THEN 0 ELSE @],
                  ui, members_request(is_admin))
      PROVE  UIStep
  <2> DEFINE b == goto("MANAGE_MEMBERS")
             i == IF is_admin THEN 0 ELSE b.member_selection_idx
             a == [b EXCEPT !.member_selection_idx = i]
             r == service_req_members(app.current_conv_id)
  <2>1. done(a, ui, <<r>>)
    BY <1>3 DEF members_request
  <2>2. Keeps(b)
    BY <1>0
  <2> HIDE DEF b
  <2>3. i \in Nat
    BY <2>2, Typed
  <2> HIDE DEF i
  <2>4. Keeps(a)
    BY <2>2, <2>3, Typed
  <2>5. r \in Request /\ r.type = "MSG_REQ_MEMBERS"
    BY RequestMade, CurrentChat DEF service_req_members
  <2> HIDE DEF a
  <2>6. /\ r.type \notin {"MSG_REQ_HISTORY", "MSG_SEND_TEXT"}
        /\ r = service_req_members(app.current_conv_id)
    BY <2>5
  <2> HIDE DEF r
  <2> QED BY <2>1, <2>4, <2>5, <2>6, Locals, DoneWithOne
<1> QED BY <1>1, <1>2, <1>3 DEF GroupSettingsKey

LEMMA ManageMembersKeyStep ==
  ASSUME Shapes, UNCHANGED <<net, inbox, server, state_lock>>, ui.pc = "input",
         ManageMembersKey
  PROVE  UIStep
<1>1. CASE done(goto("GROUP_SETTINGS"), ui, <<>>)
  <2>1. Keeps(goto("GROUP_SETTINGS")) /\ goto("GROUP_SETTINGS").current_state = "GROUP_SETTINGS"
    BY Redrawn, ScreenNames
  <2> QED BY <1>1, <2>1, Locals, DoneWithNone
<1>2. ASSUME NEW members, NEW i \in moved(app.member_selection_idx, members),
             done([redrawn EXCEPT !.member_selection_idx = i], ui, <<>>)
      PROVE  UIStep
  <2> DEFINE b == redrawn
             a == [b EXCEPT !.member_selection_idx = i]
  <2>1. Keeps(b) /\ b.current_state = app.current_state /\ app.member_selection_idx \in Nat
    BY Redrawn, Typed
  <2>2. i \in Nat
    BY <2>1, Cursor
  <2>3. done(a, ui, <<>>)
    BY <1>2
  <2> HIDE DEF b
  <2>4. Keeps(a) /\ a.current_state = app.current_state
    BY <2>1, <2>2, Typed
  <2> HIDE DEF a
  <2> QED BY <2>3, <2>4, Locals, DoneWithNone
<1>3. ASSUME NEW members \in reads("current_group_members", UNKNOWN),
             NEW target \in at(members, app.member_selection_idx, AnyUser) \ {Me},
             done(redrawn, ui, <<service_kick_member(app.current_conv_id, target),
                                 service_req_members(app.current_conv_id)>>)
      PROVE  UIStep
  <2> DEFINE q == service_kick_member(app.current_conv_id, target)
             r == service_req_members(app.current_conv_id)
  <2>1. target \in AnyUser
    BY ListsRead, IndexRead
  <2>2. /\ q \in Request /\ q.type = "MSG_KICK_MEMBER"
        /\ r \in Request /\ r.type = "MSG_REQ_MEMBERS"
    BY <2>1, RequestMade, CurrentChat DEF service_kick_member, service_req_members
  <2>3. /\ q.type \notin {"MSG_REQ_HISTORY", "MSG_SEND_TEXT"}
        /\ r.type \notin {"MSG_REQ_HISTORY", "MSG_SEND_TEXT"}
        /\ r = service_req_members(app.current_conv_id)
    BY <2>2
  <2>4. done(redrawn, ui, <<q, r>>) /\ Keeps(redrawn)
    BY <1>3, Redrawn
  <2> HIDE DEF q, r
  <2> QED BY <2>2, <2>3, <2>4, Locals, DoneWithTwo
<1> QED BY <1>1, <1>2, <1>3 DEF ManageMembersKey

LEMMA KeyStep ==
  ASSUME Shapes, UNCHANGED server, KeyPressed
  PROVE  UIStep
<1>1. CASE OtherKey
  BY <1>1, Redrawn, Locals, DoneWithNone DEF OtherKey, KeyPressed
<1> QED BY <1>1, HomeKeyStep, ChatKeyStep, CreateGroupKeyStep, FriendsKeyStep,
           SettingsKeyStep, RequestsKeyStep, GroupSettingsKeyStep, ManageMembersKeyStep
        DEF KeyPressed

LEMMA RenderStep ==
  ASSUME Shapes, UNCHANGED server, Render
  PROVE  UIStep
<1>1. ui.pc = "render" /\ UNCHANGED <<state_lock, net, inbox, outbox, conn>>
  BY DEF Render
<1>2. PICK pc \in {"input", "clear_flag"} : ui' = at_pc(pc)
  BY DEF Render
<1>3. ui' \in UIState /\ ui'.written = ui.written /\ ui'.pc \in {"input", "clear_flag"}
  BY <1>2, AtPc
<1>4. app' = app \/ app' = [app EXCEPT !.current_state = "HOME"]
  BY DEF Render
<1>5. /\ Keeps(app')
      /\ app'.current_state = app.current_state \/ app'.current_state # "MANAGE_MEMBERS"
  BY <1>4, ScreenNames DEF Shapes, AppState, Keeps, SameLists, SameChat
<1>6. Sent(<<>>)
  BY <1>1, NothingSent DEF nothing_sent
<1> QED BY <1>1, <1>3, <1>5, <1>6, SilentStep DEF Shapes

(* Steps of the loop that change flags and places only.                    *)
LEMMA PlaceStep ==
  ASSUME Shapes, UNCHANGED server, ClearFlag \/ NoKey \/ Cleanup \/ Close
  PROVE  UIStep
<1>1. ASSUME app' = app \/ app' = [app EXCEPT !.needs_redraw = FALSE],
             UNCHANGED <<state_lock, net, inbox, outbox, conn>>,
             ui.pc \notin {"open", "show", "append"},
             NEW pc \in {"render", "input", "close"}, ui' = at_pc(pc)
      PROVE  UIStep
  <2>1. ui' \in UIState /\ ui'.written = ui.written /\ ui'.pc \notin {"open", "show", "append"}
    BY <1>1, AtPc
  <2>2. Keeps(app') /\ app'.current_state = app.current_state
    BY <1>1 DEF Shapes, AppState, Keeps, SameLists, SameChat
  <2>3. Sent(<<>>)
    BY <1>1, NothingSent DEF nothing_sent
  <2> QED BY <1>1, <2>1, <2>2, <2>3, SilentStep DEF Shapes
<1>2. CASE ClearFlag
  BY <1>1, <1>2 DEF ClearFlag
<1>3. CASE NoKey
  BY <1>1, <1>3 DEF NoKey
<1>4. CASE Cleanup
  BY <1>1, <1>4 DEF Cleanup
<1>5. CASE Close
  <2>1. ui.pc = "close" /\ conn' = "closed" /\ UNCHANGED <<app, state_lock, ui, net, inbox, outbox>>
    BY <1>5 DEF Close
  <2>2. Sent(<<>>)
    BY <2>1 DEF Sent, Shapes
  <2>3. Keeps(app') /\ app'.current_state = app.current_state
    BY <2>1, Redrawn DEF Keeps, SameLists, SameChat
  <2> QED BY <2>1, <2>2, <2>3, SilentStep DEF Shapes
<1> QED BY <1>2, <1>3, <1>4, <1>5

LEMMA UIThreadStep == Shapes /\ UIThread => UIStep
BY RenderStep, PlaceStep, KeyStep, OpenStep, ShowStep, AppendOwnStep, EditStep, RemoveStep
   DEF UIThread, UIThreadNext

-----------------------------------------------------------------------------
(* What a step of the server sends, and what it has done                   *)

(* A list that is sent is the list there is; no list changes in silence.   *)
Tells(ps) ==
  /\ \A i \in DOMAIN ps :
       /\ ps[i].type = "MSG_RESP_CONVERSATIONS" =>
            ps[i].list = in_order(server'.conversations)
       /\ ps[i].type = "MSG_RESP_CONTACTS" => ps[i].list = in_order(server'.contacts)
  /\ \/ server'.conversations = server.conversations
     \/ \E i \in DOMAIN ps : ps[i].type \in {"MSG_RESP_CONVERSATIONS", "MSG_CONV_CREATED"}
  /\ \/ server'.contacts = server.contacts
     \/ \E i \in DOMAIN ps : ps[i].type = "MSG_RESP_CONTACTS"

None(ps, types) == \A i \in DOMAIN ps : ps[i].type \notin types

Answers(r, ps) ==
  /\ r.type = "MSG_REQ_CONVERSATIONS" => ps = <<conversations_packet(server')>>
  /\ r.type = "MSG_REQ_CONTACTS" => ps = <<contacts_packet(server')>>
  /\ IF r.type = "MSG_REQ_HISTORY" THEN ps = <<history_packet(server, r.conv_id)>>
                                   ELSE None(ps, {"MSG_RESP_HISTORY"})
  /\ IF r.type = "MSG_REQ_MEMBERS" THEN ps = <<members_packet(server, r.conv_id)>>
                                   ELSE None(ps, {"MSG_RESP_MEMBERS"})

(* Nothing new is written.                                                 *)
Erases(ps) ==
  /\ server'.texts = server.texts
  /\ \A c \in Convs : server'.log[c] = server.log[c] \/ server'.log[c] = <<>>
  /\ None(ps, {"MSG_RTE_TEXT"})

Logs(text) ==
  /\ text.conv_id \in Convs
  /\ \A c \in Convs : server'.log[c] = IF c = text.conv_id THEN Append(server.log[c], text)
                                                           ELSE server.log[c]

Handles(ps) ==
  /\ outbox # <<>> /\ outbox' = Tail(outbox) /\ Answers(Head(outbox), ps)
  /\ \/ Erases(ps)
     \/ /\ Head(outbox).type = "MSG_SEND_TEXT" /\ Logs(Head(outbox).text)
        /\ server'.texts = server.texts /\ ps = <<>>

Pushes(ps) ==
  /\ outbox' = outbox /\ None(ps, {"MSG_RESP_HISTORY", "MSG_RESP_MEMBERS"})
  /\ \/ Erases(ps)
     \/ \E text \in Line :
          /\ text.id = server.texts /\ server.texts > 0 /\ Logs(text)
          /\ server'.texts = server.texts - 1
          /\ ps = <<[type |-> "MSG_RTE_TEXT", text |-> text]>>

ServerStep ==
  /\ UNCHANGED <<app, state_lock, ui, net, conn>>
  /\ server' \in ServerState
  /\ \A c \in Groups : server'.members[c] \subseteq server.members[c]
  /\ \E ps \in Seq(Packet) :
       /\ inbox' = inbox \o ps /\ Len(inbox') <= MaxInbox
       /\ Tells(ps)
       /\ Handles(ps) \/ Pushes(ps)

-----------------------------------------------------------------------------
(* Changes of the server's lists                                           *)

LEMMA Lists ==
  ASSUME NEW s \in ServerState
  PROVE  /\ in_order(s.conversations) \in Seq(AnyConv)
         /\ in_order(s.conversations) = <<>> <=> s.conversations = {}
         /\ in_order(s.contacts) \in Seq(AnyUser)
         /\ in_order(s.contacts) = <<>> <=> s.contacts = {}
         /\ in_order(s.requests) \in Seq(AnyUser)
         /\ \A c \in Groups :
              /\ in_order(s.members[c]) \in Seq(AnyUser)
              /\ in_order(s.members[c]) = <<>> <=> s.members[c] = {}
              /\ \A i \in DOMAIN in_order(s.members[c]) :
                   in_order(s.members[c])[i] \in s.members[c]
<1>1. IsFiniteSet(Convs) /\ IsFiniteSet(Friends) /\ IsFiniteSet(Friends \cup {Me})
  <2>1. IsFiniteSet(Convs) /\ IsFiniteSet(Friends)
    BY ClientConstants
  <2> QED BY <2>1, FS_AddElement
<1>2. ASSUME NEW T, NEW U \in SUBSET T, NEW S \in SUBSET U, IsFiniteSet(U), T \subseteq Nat
      PROVE  /\ in_order(S) \in Seq(T)
             /\ in_order(S) = <<>> <=> S = {}
             /\ \A i \in DOMAIN in_order(S) : in_order(S)[i] \in S
  <2>1. IsFiniteSet(S) /\ S \in SUBSET T /\ S \subseteq Nat
    BY <1>2, FS_Subset
  <2> QED BY <2>1, InOrder
<1>3. Convs \in SUBSET AnyConv /\ Friends \in SUBSET AnyUser
      /\ Friends \cup {Me} \in SUBSET AnyUser /\ AnyConv \subseteq Nat /\ AnyUser \subseteq Nat
  BY AnyElements
<1>4. /\ s.conversations \in SUBSET Convs /\ s.contacts \in SUBSET Friends
      /\ s.requests \in SUBSET Friends
      /\ \A c \in Groups : s.members[c] \in SUBSET (Friends \cup {Me})
  BY DEF ServerState
<1>5. ASSUME NEW c \in Groups
      PROVE  /\ in_order(s.members[c]) \in Seq(AnyUser)
             /\ in_order(s.members[c]) = <<>> <=> s.members[c] = {}
             /\ \A i \in DOMAIN in_order(s.members[c]) : in_order(s.members[c])[i] \in s.members[c]
  <2>1. s.members[c] \in SUBSET (Friends \cup {Me})
    BY <1>4
  <2> QED BY <1>1, <1>2, <1>3, <2>1
<1> QED BY <1>1, <1>2, <1>3, <1>4, <1>5

messages == {"MSG_CONV_CREATED", "MSG_ADD_REQ_SENT", "MSG_ADD_FAIL", "MSG_UPDATE_SUCCESS"}

(* The packets that say what the server has, and those without a payload.  *)
News(s) ==
  {conversations_packet(s), contacts_packet(s), requests_packet(s)}
  \cup {message(type) : type \in messages}

LEMMA NewsPackets ==
  ASSUME NEW s \in ServerState
  PROVE  /\ News(s) \subseteq Packet
         /\ \A k \in News(s) :
              /\ k.type = "MSG_RESP_CONVERSATIONS" => k.list = in_order(s.conversations)
              /\ k.type = "MSG_RESP_CONTACTS" => k.list = in_order(s.contacts)
              /\ k.type \notin {"MSG_RESP_HISTORY", "MSG_RESP_MEMBERS", "MSG_RTE_TEXT"}
         /\ conversations_packet(s) \in News(s) /\ contacts_packet(s) \in News(s)
         /\ requests_packet(s) \in News(s)
         /\ conversations_packet(s).type = "MSG_RESP_CONVERSATIONS"
         /\ contacts_packet(s).type = "MSG_RESP_CONTACTS"
         /\ \A type \in messages : message(type) \in News(s) /\ message(type).type = type
BY Lists DEF News, Packet, conversations_packet, contacts_packet, requests_packet, message,
             messages

(* A server that knows no text more than this one, nor a member.           *)
Descends(s) ==
  /\ s \in ServerState /\ s.texts = server.texts
  /\ \A c \in Convs : s.log[c] = server.log[c] \/ s.log[c] = <<>>
  /\ \A c \in Groups : s.members[c] \subseteq server.members[c]

LEMMA Changed ==
  ASSUME NEW s, Descends(s)
  PROVE  /\ \A S \in SUBSET Friends :
              /\ Descends([s EXCEPT !.requests = S]) /\ Descends([s EXCEPT !.contacts = S])
              /\ [s EXCEPT !.requests = S].conversations = s.conversations
              /\ [s EXCEPT !.requests = S].contacts = s.contacts
              /\ [s EXCEPT !.requests = S].requests = S
              /\ [s EXCEPT !.requests = S].changes = s.changes
              /\ [s EXCEPT !.contacts = S].conversations = s.conversations
              /\ [s EXCEPT !.contacts = S].requests = s.requests
              /\ [s EXCEPT !.contacts = S].contacts = S
              /\ [s EXCEPT !.contacts = S].changes = s.changes
         /\ \A S \in SUBSET Convs :
              /\ Descends([s EXCEPT !.conversations = S])
              /\ [s EXCEPT !.conversations = S].conversations = S
              /\ [s EXCEPT !.conversations = S].contacts = s.contacts
              /\ [s EXCEPT !.conversations = S].requests = s.requests
              /\ [s EXCEPT !.conversations = S].changes = s.changes
BY DEF Descends, ServerState

LEMMA Counted ==
  ASSUME NEW s, Descends(s), s.changes > 0
  PROVE  /\ Descends([s EXCEPT !.changes = @ - 1])
         /\ [s EXCEPT !.changes = @ - 1].conversations = s.conversations
         /\ [s EXCEPT !.changes = @ - 1].contacts = s.contacts
         /\ [s EXCEPT !.changes = @ - 1].requests = s.requests
<1> DEFINE n == s.changes - 1
<1>1. n \in Nat
  BY DEF Descends, ServerState
<1> HIDE DEF n
<1>2. /\ Descends([s EXCEPT !.changes = n])
      /\ [s EXCEPT !.changes = n].conversations = s.conversations
      /\ [s EXCEPT !.changes = n].contacts = s.contacts
      /\ [s EXCEPT !.changes = n].requests = s.requests
  BY <1>1 DEF Descends, ServerState
<1> QED BY <1>2 DEF n

LEMMA FewerMembers ==
  ASSUME NEW s, Descends(s), NEW c \in Groups, NEW S \in SUBSET s.members[c]
  PROVE  /\ Descends([s EXCEPT !.members[c] = S])
         /\ [s EXCEPT !.members[c] = S].conversations = s.conversations
         /\ [s EXCEPT !.members[c] = S].contacts = s.contacts
         /\ [s EXCEPT !.members[c] = S].requests = s.requests
         /\ [s EXCEPT !.members[c] = S].changes = s.changes
BY DEF Descends, ServerState

LEMMA GroupDeleted ==
  ASSUME NEW s, Descends(s), NEW c \in Groups
  PROVE  /\ Descends(without_group(s, c))
         /\ without_group(s, c).contacts = s.contacts
         /\ without_group(s, c).requests = s.requests
         /\ without_group(s, c).changes = s.changes
<1>1. c \in Convs
  BY AnyElements
<1> DEFINE none == <<>>
           nobody == {}
           rest == s.conversations \ {c}
           t == [s EXCEPT !.conversations = rest, !.members[c] = nobody, !.log[c] = none]
<1>2. t = without_group(s, c)
  BY DEF without_group
<1>3. /\ none \in Seq(Line) /\ none = <<>> /\ nobody \in SUBSET (Friends \cup {Me})
      /\ \A S : nobody \subseteq S
      /\ rest \in SUBSET Convs
  BY DEF Descends, ServerState
<1> HIDE DEF none, nobody, rest
<1>4. /\ t \in ServerState /\ t.texts = s.texts /\ t.contacts = s.contacts
      /\ t.requests = s.requests /\ t.changes = s.changes
  BY <1>1, <1>3 DEF Descends, ServerState
<1>5. /\ \A d \in Convs : t.log[d] = s.log[d] \/ t.log[d] = none
      /\ \A d \in Groups : t.members[d] = s.members[d] \/ t.members[d] = nobody
  BY <1>1 DEF Descends, ServerState
<1> HIDE DEF t
<1>6. Descends(t)
  BY <1>3, <1>4, <1>5 DEF Descends
<1> QED BY <1>2, <1>4, <1>6

LEMMA ServerDescends == Shapes => Descends(server)
BY DEF Shapes, Descends

(* A handler, or what another user does, that sends nothing but lists and  *)
(* messages.                                                               *)
LEMMA NewsStep ==
  ASSUME Shapes, UNCHANGED <<app, state_lock, ui, net, conn>>,
         NEW s, Descends(s), NEW ps \in Seq(News(s)), Answer(s, ps),
         s.conversations = server.conversations
           \/ \E i \in DOMAIN ps : ps[i].type \in {"MSG_RESP_CONVERSATIONS", "MSG_CONV_CREATED"},
         s.contacts = server.contacts \/ \E i \in DOMAIN ps : ps[i].type = "MSG_RESP_CONTACTS",
         \/ outbox' = outbox
         \/ /\ outbox # <<>> /\ outbox' = Tail(outbox)
            /\ Head(outbox).type \notin {"MSG_REQ_HISTORY", "MSG_REQ_MEMBERS"}
            /\ Head(outbox).type = "MSG_REQ_CONVERSATIONS" => ps = <<conversations_packet(s)>>
            /\ Head(outbox).type = "MSG_REQ_CONTACTS" => ps = <<contacts_packet(s)>>
  PROVE  ServerStep
<1>1. server' = s /\ inbox' = inbox \o ps /\ Len(inbox) + Len(ps) <= MaxInbox
  BY DEF Answer
<1>2. s \in ServerState /\ \A k \in News(s) :
              /\ k.type = "MSG_RESP_CONVERSATIONS" => k.list = in_order(s.conversations)
              /\ k.type = "MSG_RESP_CONTACTS" => k.list = in_order(s.contacts)
              /\ k.type \notin {"MSG_RESP_HISTORY", "MSG_RESP_MEMBERS", "MSG_RTE_TEXT"}
  BY NewsPackets DEF Descends
<1>3. ps \in Seq(Packet)
  BY <1>2, NewsPackets
<1>4. Len(inbox') <= MaxInbox
  BY <1>1, <1>3, Joined DEF Shapes
<1>5. \A i \in DOMAIN ps : ps[i] \in News(s)
  OBVIOUS
<1>6. Tells(ps)
  BY <1>1, <1>2, <1>5 DEF Tells
<1>7. /\ None(ps, {"MSG_RESP_HISTORY", "MSG_RESP_MEMBERS"}) /\ None(ps, {"MSG_RESP_HISTORY"})
      /\ None(ps, {"MSG_RESP_MEMBERS"}) /\ None(ps, {"MSG_RTE_TEXT"})
  BY <1>2, <1>5 DEF None
<1>8. Erases(ps)
  BY <1>1, <1>7 DEF Erases, Descends
<1>9. Handles(ps) \/ Pushes(ps)
  BY <1>1, <1>7, <1>8 DEF Handles, Pushes, Answers
<1> QED BY <1>1, <1>2, <1>3, <1>4, <1>6, <1>9 DEF ServerStep, Descends

-----------------------------------------------------------------------------
(* The handlers                                                            *)

LEMMA ListAnswered ==
  ASSUME Shapes, UNCHANGED <<app, state_lock, ui, net, conn>>,
         outbox # <<>>, outbox' = Tail(outbox), NEW r \in Request, r = Head(outbox),
         r.type \in {"MSG_REQ_CONVERSATIONS", "MSG_REQ_CONTACTS", "MSG_GET_REQUESTS"},
         AnswerList(r)
  PROVE  ServerStep
<1>1. Descends(server) /\ server \in ServerState
  BY ServerDescends DEF Shapes
<1>2. \E k \in News(server) :
        /\ Answer(server, <<k>>)
        /\ r.type = "MSG_REQ_CONVERSATIONS" => k = conversations_packet(server)
        /\ r.type = "MSG_REQ_CONTACTS" => k = contacts_packet(server)
  <2>1. CASE r.type = "MSG_REQ_CONVERSATIONS"
    <3>1. Answer(server, <<conversations_packet(server)>>)
      BY <2>1 DEF AnswerList
    <3> QED BY <1>1, <2>1, <3>1, NewsPackets
  <2>2. CASE r.type = "MSG_REQ_CONTACTS"
    <3>1. Answer(server, <<contacts_packet(server)>>)
      BY <2>2 DEF AnswerList
    <3> QED BY <1>1, <2>2, <3>1, NewsPackets
  <2>3. CASE r.type = "MSG_GET_REQUESTS"
    <3>1. Answer(server, <<requests_packet(server)>>)
      BY <2>3 DEF AnswerList
    <3> QED BY <1>1, <2>3, <3>1, NewsPackets
  <2> QED BY <2>1, <2>2, <2>3
<1>3. PICK k \in News(server) :
        /\ Answer(server, <<k>>)
        /\ r.type = "MSG_REQ_CONVERSATIONS" => k = conversations_packet(server)
        /\ r.type = "MSG_REQ_CONTACTS" => k = contacts_packet(server)
  BY <1>2
<1> DEFINE ps == <<k>>
<1>4. ps \in Seq(News(server)) /\ ps = <<k>>
  OBVIOUS
<1> HIDE DEF ps
<1>5. /\ r.type = "MSG_REQ_CONVERSATIONS" => ps = <<conversations_packet(server)>>
      /\ r.type = "MSG_REQ_CONTACTS" => ps = <<contacts_packet(server)>>
      /\ r.type \notin {"MSG_REQ_HISTORY", "MSG_REQ_MEMBERS"}
      /\ Answer(server, ps)
  BY <1>3, <1>4
<1> QED BY <1>1, <1>4, <1>5, NewsStep

LEMMA HistoryPacket ==
  ASSUME NEW s \in ServerState, NEW c \in AnyConv
  PROVE  /\ history_packet(s, c) \in Packet /\ history_packet(s, c).type = "MSG_RESP_HISTORY"
         /\ \/ history_packet(s, c).list = <<>>
            \/ c \in Convs /\ s.log[c] # <<>> /\ history_packet(s, c).list = <<s.log[c][1]>>
         /\ c \in Convs /\ s.log[c] # <<>> => history_packet(s, c).list = <<s.log[c][1]>>
<1>1. c \in Convs \/ c = UNKNOWN
  BY DEF AnyConv
<1>2. UNKNOWN \notin Convs
  BY AnyElements
<1>3. <<>> \in Seq(Line)
  OBVIOUS
<1>4. CASE c = UNKNOWN \/ s.log[c] = <<>>
  <2> DEFINE none == <<>>
  <2>1. history_packet(s, c) = [type |-> "MSG_RESP_HISTORY", list |-> none]
    BY <1>4 DEF history_packet
  <2>2. none \in Seq(Line) /\ none = <<>>
    OBVIOUS
  <2> HIDE DEF none
  <2>3. history_packet(s, c) \in Packet
    BY <2>1, <2>2 DEF Packet
  <2> QED BY <1>2, <1>4, <2>1, <2>2, <2>3
<1>5. CASE ~(c = UNKNOWN \/ s.log[c] = <<>>)
  <2>1. c \in Convs /\ s.log[c] \in Seq(Line) /\ s.log[c] # <<>>
    BY <1>1, <1>5 DEF ServerState
  <2>2. s.log[c][1] \in Line
    BY <2>1
  <2> DEFINE one == <<s.log[c][1]>>
  <2>3. one \in Seq(Line) /\ one = <<s.log[c][1]>>
    BY <2>2
  <2>4. history_packet(s, c) = [type |-> "MSG_RESP_HISTORY", list |-> one]
    BY <1>5 DEF history_packet
  <2> HIDE DEF one
  <2>5. history_packet(s, c) \in Packet
    BY <2>3, <2>4 DEF Packet
  <2> QED BY <2>1, <2>3, <2>4, <2>5
<1> QED BY <1>4, <1>5

LEMMA MembersPacket ==
  ASSUME NEW s \in ServerState, NEW c \in AnyConv
  PROVE  /\ members_packet(s, c) \in Packet /\ members_packet(s, c).type = "MSG_RESP_MEMBERS"
         /\ c \in Groups => members_packet(s, c).list = in_order(s.members[c])
<1>1. <<>> \in Seq(AnyUser)
  OBVIOUS
<1>2. c \in Groups => in_order(s.members[c]) \in Seq(AnyUser)
  BY Lists
<1> DEFINE list == IF c \in Groups THEN in_order(s.members[c]) ELSE <<>>
<1>3. list \in Seq(AnyUser) /\ (c \in Groups => list = in_order(s.members[c]))
  BY <1>1, <1>2
<1>4. members_packet(s, c) = [type |-> "MSG_RESP_MEMBERS", list |-> list]
  BY DEF members_packet
<1> HIDE DEF list
<1> QED BY <1>3, <1>4 DEF Packet

LEMMA OnePacket ==
  ASSUME NEW k \in Packet
  PROVE  /\ <<k>> \in Seq(Packet) /\ <<k>> # <<>> /\ Len(<<k>>) = 1
         /\ DOMAIN <<k>> = {1} /\ <<k>>[1] = k
OBVIOUS

LEMMA ChatAnswered ==
  ASSUME Shapes, UNCHANGED <<app, state_lock, ui, net, conn>>,
         outbox # <<>>, outbox' = Tail(outbox), NEW r \in Request, r = Head(outbox),
         r.type \in {"MSG_REQ_HISTORY", "MSG_REQ_MEMBERS"},
         AnswerList(r)
  PROVE  ServerStep
<1>1. Descends(server) /\ server \in ServerState /\ r.conv_id \in AnyConv
  BY ServerDescends, RequestParts DEF Shapes
<1>2. PICK k \in Packet :
        /\ Answer(server, <<k>>)
        /\ k.type \in {"MSG_RESP_HISTORY", "MSG_RESP_MEMBERS"}
        /\ IF r.type = "MSG_REQ_HISTORY"
             THEN k = history_packet(server, r.conv_id) /\ k.type = "MSG_RESP_HISTORY"
             ELSE k = members_packet(server, r.conv_id) /\ k.type = "MSG_RESP_MEMBERS"
  <2>1. CASE r.type = "MSG_REQ_HISTORY"
    <3>1. Answer(server, <<history_packet(server, r.conv_id)>>)
      BY <2>1 DEF AnswerList
    <3> QED BY <1>1, <2>1, <3>1, HistoryPacket
  <2>2. CASE r.type = "MSG_REQ_MEMBERS"
    <3>1. Answer(server, <<members_packet(server, r.conv_id)>>)
      BY <2>2 DEF AnswerList
    <3> QED BY <1>1, <2>2, <3>1, MembersPacket
  <2> QED BY <2>1, <2>2
<1> DEFINE ps == <<k>>
<1>3. /\ ps \in Seq(Packet) /\ Len(ps) = 1 /\ DOMAIN ps = {1} /\ ps[1] = k /\ ps = <<k>>
  BY OnePacket
<1> HIDE DEF ps
<1>4. server' = server /\ inbox' = inbox \o ps /\ Len(inbox) + Len(ps) <= MaxInbox
  BY <1>2, <1>3 DEF Answer
<1>5. Len(inbox') <= MaxInbox
  BY <1>3, <1>4, Joined DEF Shapes
<1>6. Tells(ps)
  BY <1>2, <1>3, <1>4 DEF Tells
<1>7. Answers(r, ps)
  BY <1>2, <1>3 DEF Answers, None
<1>8. Erases(ps)
  BY <1>2, <1>3, <1>4 DEF Erases, None
<1>9. Handles(ps)
  BY <1>7, <1>8 DEF Handles
<1> QED BY <1>1, <1>3, <1>4, <1>5, <1>6, <1>9 DEF ServerStep

LEMMA TextLogged ==
  ASSUME Shapes, UNCHANGED <<app, state_lock, ui, net, conn>>,
         outbox # <<>>, outbox' = Tail(outbox), NEW r \in Request, r = Head(outbox),
         r.type = "MSG_SEND_TEXT", AnswerSendText(r)
  PROVE  ServerStep
<1>1. Descends(server) /\ server \in ServerState /\ r.text \in Line
      /\ r.text.conv_id \in AnyConv
  BY ServerDescends, RequestParts DEF Shapes, Line
<1> DEFINE ps == <<>>
           c == r.text.conv_id
           s == IF c = UNKNOWN THEN server ELSE [server EXCEPT !.log[c] = Append(@, r.text)]
<1>2. ps \in Seq(Packet) /\ DOMAIN ps = {} /\ ps \in Seq(News(server)) /\ ps = <<>>
  OBVIOUS
<1>3. Answer(s, ps)
  BY DEF AnswerSendText
<1> HIDE DEF ps
<1>4. CASE c = UNKNOWN
  BY <1>1, <1>2, <1>3, <1>4, NewsStep
<1>5. CASE c # UNKNOWN
  <2>1. c \in Convs /\ server.log[c] \in Seq(Line)
    BY <1>1, <1>5 DEF AnyConv, ServerState
  <2> DEFINE longer == Append(server.log[c], r.text)
  <2>2. longer \in Seq(Line)
    BY <1>1, <2>1
  <2>3. s = [server EXCEPT !.log[c] = longer]
    BY <1>5
  <2> HIDE DEF longer, s, c
  <2>4. /\ s \in ServerState /\ s.texts = server.texts /\ s.members = server.members
        /\ s.conversations = server.conversations /\ s.contacts = server.contacts
        /\ \A d \in Convs : s.log[d] = IF d = c THEN longer ELSE server.log[d]
    BY <1>1, <2>1, <2>2, <2>3 DEF ServerState
  <2>5. server' = s /\ inbox' = inbox \o ps /\ Len(inbox) + Len(ps) <= MaxInbox
    BY <1>3 DEF Answer
  <2>6. Len(inbox') <= MaxInbox
    BY <1>2, <2>5, Joined DEF Shapes
  <2>7. Logs(r.text)
    BY <2>1, <2>4, <2>5 DEF Logs, longer, c
  <2>8. Tells(ps)
    BY <1>2, <2>4, <2>5 DEF Tells
  <2>9. Answers(r, ps)
    BY <1>2 DEF Answers, None
  <2>10. Handles(ps)
    BY <1>2, <2>4, <2>5, <2>7, <2>9 DEF Handles
  <2> QED BY <1>2, <2>4, <2>5, <2>6, <2>8, <2>10 DEF ServerStep
<1> QED BY <1>4, <1>5

(* What NewsStep asks of the request that is handled.                      *)
LEMMA OnePieceOfNews ==
  ASSUME NEW s \in ServerState, NEW type \in messages
  PROVE  /\ <<message(type)>> \in Seq(News(s)) /\ DOMAIN <<message(type)>> = {1}
         /\ <<message(type)>>[1].type = type
BY NewsPackets

LEMMA CreateAnswered ==
  ASSUME Shapes, UNCHANGED <<app, state_lock, ui, net, conn>>,
         outbox # <<>>, outbox' = Tail(outbox), NEW r \in Request, r = Head(outbox),
         r.type = "MSG_CREATE_CONV", AnswerCreate(r)
  PROVE  ServerStep
<1>1. Descends(server) /\ server \in ServerState
  BY ServerDescends DEF Shapes
<1> DEFINE ps == <<message("MSG_CONV_CREATED")>>
<1>2. /\ \A s \in ServerState : ps \in Seq(News(s))
      /\ \E i \in DOMAIN ps : ps[i].type \in {"MSG_RESP_CONVERSATIONS", "MSG_CONV_CREATED"}
  BY <1>1, OnePieceOfNews DEF messages
<1>3. PICK s : /\ Descends(s) /\ s.contacts = server.contacts /\ Answer(s, ps)
  <2>1. CASE \E c \in Unused(server) : Answer(with_conversation(server, c), ps)
    <3>1. PICK c \in Unused(server) : Answer(with_conversation(server, c), ps)
      BY <2>1
    <3>2. c \in Convs
      BY <1>1 DEF Unused, ServerState
    <3> DEFINE S == server.conversations \cup {c}
    <3>3. S \in SUBSET Convs /\ with_conversation(server, c) = [server EXCEPT !.conversations = S]
      BY <1>1, <3>2 DEF ServerState, with_conversation
    <3> HIDE DEF S
    <3> QED BY <1>1, <3>1, <3>3, Changed
  <2>2. CASE Answer(server, ps)
    BY <1>1, <2>2
  <2> QED BY <2>1, <2>2 DEF AnswerCreate
<1>4. s \in ServerState
  BY <1>3 DEF Descends
<1> HIDE DEF ps
<1>5. r.type \notin {"MSG_REQ_HISTORY", "MSG_REQ_MEMBERS", "MSG_REQ_CONVERSATIONS", "MSG_REQ_CONTACTS"}
  OBVIOUS
<1> QED BY <1>2, <1>3, <1>4, <1>5, NewsStep

LEMMA MessageAnswered ==
  ASSUME Shapes, UNCHANGED <<app, state_lock, ui, net, conn>>,
         outbox # <<>>, outbox' = Tail(outbox), NEW r \in Request, r = Head(outbox),
         r.type \in {"MSG_ADD_BY_CODE", "MSG_UPDATE_USER"},
         NEW type \in messages, Answer(server, <<message(type)>>)
  PROVE  ServerStep
<1>1. Descends(server) /\ server \in ServerState
  BY ServerDescends DEF Shapes
<1> DEFINE ps == <<message(type)>>
<1>2. ps \in Seq(News(server)) /\ Answer(server, ps)
  BY <1>1, OnePieceOfNews
<1> HIDE DEF ps
<1>3. r.type \notin {"MSG_REQ_HISTORY", "MSG_REQ_MEMBERS", "MSG_REQ_CONVERSATIONS", "MSG_REQ_CONTACTS"}
  OBVIOUS
<1> QED BY <1>1, <1>2, <1>3, NewsStep

LEMMA NothingAnswered ==
  ASSUME Shapes, UNCHANGED <<app, state_lock, ui, net, conn>>,
         outbox # <<>>, outbox' = Tail(outbox), NEW r \in Request, r = Head(outbox),
         r.type \in {"MSG_KICK_MEMBER", "MSG_DELETE_GROUP"}, Answer(server, <<>>)
  PROVE  ServerStep
<1>1. Descends(server)
  BY ServerDescends
<1> DEFINE ps == <<>>
<1>2. ps \in Seq(News(server)) /\ Answer(server, ps)
  OBVIOUS
<1> HIDE DEF ps
<1>3. r.type \notin {"MSG_REQ_HISTORY", "MSG_REQ_MEMBERS", "MSG_REQ_CONVERSATIONS", "MSG_REQ_CONTACTS"}
  OBVIOUS
<1> QED BY <1>1, <1>2, <1>3, NewsStep

(* Whoever changes a list sends it: one list, from a handler or unasked.   *)
LEMMA ConversationsTold ==
  ASSUME Shapes, UNCHANGED <<app, state_lock, ui, net, conn>>,
         NEW s, Descends(s), s.contacts = server.contacts, Answer(s, <<conversations_packet(s)>>),
         \/ outbox' = outbox
         \/ /\ outbox # <<>> /\ outbox' = Tail(outbox)
            /\ Head(outbox).type \in {"MSG_KICK_MEMBER", "MSG_DELETE_GROUP"}
  PROVE  ServerStep
<1>1. s \in ServerState
  BY DEF Descends
<1> DEFINE k == conversations_packet(s)
           ps == <<k>>
<1>2. k \in News(s) /\ k.type = "MSG_RESP_CONVERSATIONS"
  BY <1>1, NewsPackets
<1> HIDE DEF k
<1>3. /\ ps \in Seq(News(s)) /\ Answer(s, ps)
      /\ \E i \in DOMAIN ps : ps[i].type \in {"MSG_RESP_CONVERSATIONS", "MSG_CONV_CREATED"}
  <2>1. ps \in Seq(News(s)) /\ Answer(s, ps)
    BY <1>2 DEF k
  <2>2. 1 \in DOMAIN ps /\ ps[1].type = "MSG_RESP_CONVERSATIONS"
    BY <1>2
  <2> QED BY <2>1, <2>2
<1> HIDE DEF ps
<1>4. \/ outbox' = outbox
      \/ /\ outbox # <<>> /\ outbox' = Tail(outbox)
         /\ Head(outbox).type \notin {"MSG_REQ_HISTORY", "MSG_REQ_MEMBERS",
                                      "MSG_REQ_CONVERSATIONS", "MSG_REQ_CONTACTS"}
  OBVIOUS
<1> QED BY <1>3, <1>4, NewsStep

LEMMA ContactsTold ==
  ASSUME Shapes, UNCHANGED <<app, state_lock, ui, net, conn>>, outbox' = outbox,
         NEW s, Descends(s), s.conversations = server.conversations,
         \/ Answer(s, <<contacts_packet(s)>>)
         \/ s.contacts = server.contacts /\ Answer(s, <<requests_packet(s)>>)
  PROVE  ServerStep
<1>1. s \in ServerState
  BY DEF Descends
<1>2. PICK k \in News(s) : /\ Answer(s, <<k>>)
                           /\ k.type = "MSG_RESP_CONTACTS" \/ s.contacts = server.contacts
  BY <1>1, NewsPackets
<1> DEFINE ps == <<k>>
<1>3. /\ ps \in Seq(News(s)) /\ Answer(s, ps)
      /\ s.contacts = server.contacts \/ \E i \in DOMAIN ps : ps[i].type = "MSG_RESP_CONTACTS"
  <2>1. ps \in Seq(News(s)) /\ Answer(s, ps) /\ 1 \in DOMAIN ps /\ ps[1] = k
    BY <1>2
  <2> QED BY <1>2, <2>1
<1> HIDE DEF ps
<1> QED BY <1>3, NewsStep

LEMMA KickAnswered ==
  ASSUME Shapes, UNCHANGED <<app, state_lock, ui, net, conn>>,
         outbox # <<>>, outbox' = Tail(outbox), NEW r \in Request, r = Head(outbox),
         r.type = "MSG_KICK_MEMBER", AnswerKick(r)
  PROVE  ServerStep
<1> DEFINE c == r.conv_id
           S == server.members[c] \ {r.target_uid}
           kicked == [server EXCEPT !.members[c] = S]
<1>1. CASE c \in AdminOf \cap server.conversations
  <2>1. c \in Groups /\ Descends(server) /\ S \in SUBSET server.members[c]
    BY <1>1, AnyElements, ServerDescends
  <2>2. Answer(kicked, <<conversations_packet(kicked)>>)
    BY <1>1 DEF AnswerKick
  <2> HIDE DEF S, c
  <2>3. Descends(kicked) /\ kicked.contacts = server.contacts
    BY <2>1, FewerMembers
  <2> HIDE DEF kicked
  <2> QED BY <2>2, <2>3, ConversationsTold
<1>2. CASE ~(c \in AdminOf \cap server.conversations)
  <2>1. Answer(server, <<>>)
    BY <1>2 DEF AnswerKick
  <2> QED BY <2>1, NothingAnswered
<1> QED BY <1>1, <1>2

LEMMA DeleteAnswered ==
  ASSUME Shapes, UNCHANGED <<app, state_lock, ui, net, conn>>,
         outbox # <<>>, outbox' = Tail(outbox), NEW r \in Request, r = Head(outbox),
         r.type = "MSG_DELETE_GROUP", AnswerDelete(r)
  PROVE  ServerStep
<1> DEFINE c == r.conv_id
           s == without_group(server, c)
<1>1. CASE c \in AdminOf \cap server.conversations
  <2>1. c \in Groups /\ Descends(server)
    BY <1>1, AnyElements, ServerDescends
  <2>2. Answer(s, <<conversations_packet(s)>>)
    BY <1>1 DEF AnswerDelete
  <2>3. Descends(s) /\ s.contacts = server.contacts
    BY <2>1, GroupDeleted
  <2> HIDE DEF s
  <2> QED BY <2>2, <2>3, ConversationsTold
<1>2. CASE ~(c \in AdminOf \cap server.conversations)
  <2>1. Answer(server, <<>>)
    BY <1>2 DEF AnswerDelete
  <2> QED BY <2>1, NothingAnswered
<1> QED BY <1>1, <1>2

(* A request is decided: the lists of contacts and requests, after that of *)
(* the conversations if there is a new one.                                *)
LEMMA DecideAnswered ==
  ASSUME Shapes, UNCHANGED <<app, state_lock, ui, net, conn>>,
         outbox # <<>>, outbox' = Tail(outbox), NEW r \in Request, r = Head(outbox),
         r.type = "MSG_DECIDE_REQUEST", AnswerDecide(r)
  PROVE  ServerStep
<1> DEFINE u == r.target_uid
           lists(s) == <<contacts_packet(s), requests_packet(s)>>
           fewer(s) == s.requests \ {u}
           decided(s) == [s EXCEPT !.requests = fewer(s)]
           more == server.contacts \cup ({u} \cap Friends)
           friends == IF r.accepted THEN [server EXCEPT !.contacts = more] ELSE server
<1>1. Descends(server) /\ server \in ServerState
  BY ServerDescends DEF Shapes
<1>2. Descends(friends) /\ friends.conversations = server.conversations
  <2>1. more \in SUBSET Friends
    BY <1>1 DEF ServerState
  <2> HIDE DEF more
  <2>2. CASE r.accepted
    BY <1>1, <2>1, <2>2, Changed
  <2>3. CASE ~r.accepted
    BY <1>1, <2>3
  <2> QED BY <2>2, <2>3
<1>3. \/ Answer(decided(friends), lists(decided(friends)))
      \/ \E c \in Unused(server) \ Groups :
           LET chat == with_conversation(friends, c)
           IN  Answer(decided(chat), <<conversations_packet(chat)>> \o lists(decided(chat)))
  BY DEF AnswerDecide
<1> HIDE DEF friends
<1>4. ASSUME NEW s, Descends(s)
      PROVE  Descends(decided(s)) /\ decided(s).conversations = s.conversations
  <2>1. fewer(s) \in SUBSET Friends
    BY <1>4 DEF Descends, ServerState
  <2> HIDE DEF fewer
  <2> QED BY <1>4, <2>1, Changed
<1>5. ASSUME NEW s, Descends(s)
      PROVE  /\ lists(s) \in Seq(News(s)) /\ 1 \in DOMAIN lists(s)
             /\ lists(s)[1].type = "MSG_RESP_CONTACTS"
             /\ <<conversations_packet(s)>> \o lists(s) \in Seq(News(s))
             /\ \E i \in DOMAIN (<<conversations_packet(s)>> \o lists(s)) :
                  (<<conversations_packet(s)>> \o lists(s))[i].type = "MSG_RESP_CONVERSATIONS"
             /\ \E i \in DOMAIN (<<conversations_packet(s)>> \o lists(s)) :
                  (<<conversations_packet(s)>> \o lists(s))[i].type = "MSG_RESP_CONTACTS"
  <2> DEFINE a == conversations_packet(s)
             b == contacts_packet(s)
             d == requests_packet(s)
             all == <<a>> \o <<b, d>>
  <2>1. /\ a \in News(s) /\ b \in News(s) /\ d \in News(s)
        /\ a.type = "MSG_RESP_CONVERSATIONS" /\ b.type = "MSG_RESP_CONTACTS"
    BY <1>5, NewsPackets DEF Descends
  <2> HIDE DEF a, b, d
  <2>2. /\ <<b, d>> \in Seq(News(s)) /\ 1 \in DOMAIN <<b, d>> /\ <<b, d>>[1] = b
        /\ <<a>> \in Seq(News(s)) /\ <<a>>[1] = a /\ Len(<<a>>) = 1 /\ Len(<<b, d>>) = 2
    BY <2>1
  <2> DEFINE h == <<a>>
             t == <<b, d>>
             N == News(s)
  <2>3. /\ h \in Seq(N) /\ t \in Seq(N) /\ Len(h) = 1 /\ Len(t) = 2
        /\ h[1] = a /\ t[1] = b /\ all = h \o t
    BY <2>2
  <2> HIDE DEF h, t, all, N
  <2>4. all \in Seq(N) /\ 1 \in DOMAIN all /\ all[1] = a /\ 2 \in DOMAIN all /\ all[2] = b
    <3>1. /\ all \in Seq(N) /\ Len(all) = Len(h) + Len(t)
          /\ \A i \in 1..Len(h) : all[i] = h[i]
          /\ \A i \in 1..Len(t) : all[Len(h) + i] = t[i]
      <4>1. h \in Seq(N) /\ t \in Seq(N)
        BY <2>3
      <4>2. /\ h \o t \in Seq(N) /\ Len(h \o t) = Len(h) + Len(t)
            /\ \A i \in 1..Len(h) : (h \o t)[i] = h[i]
            /\ \A i \in 1..Len(t) : (h \o t)[Len(h) + i] = t[i]
        BY <4>1, Joined
      <4> QED BY <2>3, <4>2
    <3>2. 1 \in 1..Len(h) /\ 1 \in 1..Len(t) /\ Len(h) + 1 = 2 /\ Len(all) = 3
      BY <2>3, <3>1
    <3>3. all[1] = a /\ all[2] = b
      BY <2>3, <3>1, <3>2
    <3>4. DOMAIN all = 1..3
      <4>1. all \in Seq(N) /\ Len(all) = 3
        BY <3>1, <3>2
      <4> QED BY <4>1
    <3> QED BY <3>1, <3>3, <3>4
  <2>5. lists(s) = <<b, d>> /\ <<conversations_packet(s)>> \o lists(s) = all
    BY DEF a, b, d, h, t, all
  <2> QED BY <2>1, <2>2, <2>4, <2>5 DEF N
<1>6. r.type \notin {"MSG_REQ_HISTORY", "MSG_REQ_MEMBERS", "MSG_REQ_CONVERSATIONS", "MSG_REQ_CONTACTS"}
  OBVIOUS
<1>7. CASE Answer(decided(friends), lists(decided(friends)))
  <2> DEFINE s == decided(friends)
             ps == lists(s)
  <2>1. Descends(s) /\ s.conversations = server.conversations
    BY <1>2, <1>4
  <2> HIDE DEF s, decided
  <2>2. ps \in Seq(News(s)) /\ 1 \in DOMAIN ps /\ ps[1].type = "MSG_RESP_CONTACTS"
    BY <1>5, <2>1
  <2>3. Answer(s, ps)
    BY <1>7 DEF s
  <2> HIDE DEF ps
  <2> QED BY <1>6, <2>1, <2>2, <2>3, NewsStep
<1>8. ASSUME NEW c \in Unused(server) \ Groups,
             LET chat == with_conversation(friends, c)
             IN  Answer(decided(chat), <<conversations_packet(chat)>> \o lists(decided(chat)))
      PROVE  ServerStep
  <2> DEFINE S == friends.conversations \cup {c}
             chat == with_conversation(friends, c)
             s == decided(chat)
             ps == <<conversations_packet(s)>> \o lists(s)
  <2>1. Descends(chat)
    <3>1. S \in SUBSET Convs /\ chat = [friends EXCEPT !.conversations = S]
      <4>1. c \in Convs
        BY <1>1 DEF Unused, ServerState
      <4> QED BY <1>2, <4>1 DEF Descends, ServerState, with_conversation
    <3> HIDE DEF S, chat
    <3> QED BY <1>2, <3>1, Changed
  <2>2. Answer(s, <<conversations_packet(chat)>> \o lists(s))
    BY <1>8
  <2> HIDE DEF chat
  <2>3. Descends(s) /\ s.conversations = chat.conversations
    BY <1>4, <2>1
  <2> HIDE DEF s, decided
  <2>4. conversations_packet(s) = conversations_packet(chat)
    BY <2>3 DEF conversations_packet
  <2>5. /\ ps \in Seq(News(s))
        /\ \E i \in DOMAIN ps : ps[i].type = "MSG_RESP_CONVERSATIONS"
        /\ \E i \in DOMAIN ps : ps[i].type = "MSG_RESP_CONTACTS"
    BY <1>5, <2>3
  <2>6. Answer(s, ps)
    BY <2>2, <2>4
  <2> HIDE DEF ps
  <2> QED BY <1>6, <2>3, <2>5, <2>6, NewsStep
<1> QED BY <1>3, <1>7, <1>8

LEMMA HandleStep ==
  ASSUME Shapes, UNCHANGED <<app, state_lock, ui, net, conn>>, Handle
  PROVE  ServerStep
<1> DEFINE r == Head(outbox)
<1>1. outbox # <<>> /\ outbox' = Tail(outbox)
  BY DEF Handle
<1>2. r \in Request
  BY <1>1 DEF Shapes
<1>3. CASE r.type = "MSG_SEND_TEXT"
  <2>1. AnswerSendText(r)
    BY <1>3 DEF Handle
  <2> HIDE DEF r
  <2> QED BY <1>1, <1>2, <1>3, <2>1, TextLogged DEF r
<1>4. CASE r.type = "MSG_CREATE_CONV"
  <2>1. AnswerCreate(r)
    BY <1>4 DEF Handle
  <2> QED BY <1>1, <1>2, <1>4, <2>1, CreateAnswered
<1>5. CASE r.type = "MSG_DECIDE_REQUEST"
  <2>1. AnswerDecide(r)
    BY <1>5 DEF Handle
  <2> QED BY <1>1, <1>2, <1>5, <2>1, DecideAnswered
<1>6. CASE r.type = "MSG_KICK_MEMBER"
  <2>1. AnswerKick(r)
    BY <1>6 DEF Handle
  <2> QED BY <1>1, <1>2, <1>6, <2>1, KickAnswered
<1>7. CASE r.type = "MSG_DELETE_GROUP"
  <2>1. AnswerDelete(r)
    BY <1>7 DEF Handle
  <2> QED BY <1>1, <1>2, <1>7, <2>1, DeleteAnswered
<1>8. CASE r.type = "MSG_ADD_BY_CODE"
  <2>1. PICK m \in {"MSG_ADD_REQ_SENT", "MSG_ADD_FAIL"} : Answer(server, <<message(m)>>)
    BY <1>8 DEF Handle
  <2>2. m \in messages
    BY DEF messages
  <2> QED BY <1>1, <1>2, <1>8, <2>1, <2>2, MessageAnswered
<1>9. CASE r.type = "MSG_UPDATE_USER"
  <2>1. Answer(server, <<message("MSG_UPDATE_SUCCESS")>>) /\ "MSG_UPDATE_SUCCESS" \in messages
    BY <1>9 DEF Handle, messages
  <2> QED BY <1>1, <1>2, <1>9, <2>1, MessageAnswered
<1>10. CASE r.type \in {"MSG_REQ_CONTACTS", "MSG_GET_REQUESTS", "MSG_REQ_CONVERSATIONS",
                        "MSG_REQ_HISTORY", "MSG_REQ_MEMBERS"}
  <2>1. AnswerList(r)
    BY <1>10 DEF Handle
  <2> QED BY <1>1, <1>2, <1>10, <2>1, ListAnswered, ChatAnswered
<1> QED BY <1>2, <1>3, <1>4, <1>5, <1>6, <1>7, <1>8, <1>9, <1>10, RequestParts

LEMMA OthersWriteStep ==
  ASSUME Shapes, UNCHANGED <<app, state_lock, ui, net, conn>>, outbox' = outbox, OthersWrite
  PROVE  ServerStep
<1>1. server \in ServerState /\ Descends(server)
  BY ServerDescends DEF Shapes
<1>2. PICK c \in server.conversations :
        LET text == [conv_id |-> c, id |-> server.texts]
        IN  /\ server.texts > 0
            /\ Answer([server EXCEPT !.log[c] = Append(@, text), !.texts = @ - 1],
                      <<[type |-> "MSG_RTE_TEXT", text |-> text]>>)
  BY DEF OthersWrite
<1> DEFINE text == [conv_id |-> c, id |-> server.texts]
           longer == Append(server.log[c], text)
           n == server.texts - 1
           s == [server EXCEPT !.log[c] = longer, !.texts = n]
           k == [type |-> "MSG_RTE_TEXT", text |-> text]
           ps == <<k>>
<1>3. server.texts > 0 /\ Answer(s, ps)
  BY <1>2
<1>4. c \in Convs /\ n \in Nat /\ n = server.texts - 1 /\ server.log[c] \in Seq(Line)
      /\ server.texts \in Nat
  BY <1>1, <1>3 DEF ServerState
<1>5. text \in Line /\ text.id = server.texts /\ text.conv_id = c
  BY <1>4, AnyElements DEF Line
<1> HIDE DEF text
<1>6. longer \in Seq(Line) /\ longer = Append(server.log[c], text)
  BY <1>4, <1>5
<1> HIDE DEF longer, n
<1>7. /\ s \in ServerState /\ s.texts = n /\ s.members = server.members
      /\ s.conversations = server.conversations /\ s.contacts = server.contacts
      /\ \A d \in Convs : s.log[d] = IF d = c THEN longer ELSE server.log[d]
  BY <1>1, <1>4, <1>6 DEF ServerState
<1>8. k \in Packet /\ k.type = "MSG_RTE_TEXT"
  BY <1>4, <1>5 DEF Packet
<1>9. k = [type |-> "MSG_RTE_TEXT", text |-> text]
  OBVIOUS
<1> HIDE DEF s, k
<1>10. ps \in Seq(Packet) /\ Len(ps) = 1 /\ DOMAIN ps = {1} /\ ps[1] = k /\ ps = <<k>>
  BY <1>8, OnePacket
<1> HIDE DEF ps
<1>11. server' = s /\ inbox' = inbox \o ps /\ Len(inbox) + Len(ps) <= MaxInbox
  BY <1>3 DEF Answer
<1>12. Len(inbox') <= MaxInbox
  BY <1>10, <1>11, Joined DEF Shapes
<1>13. Logs(text)
  BY <1>4, <1>5, <1>6, <1>7, <1>11 DEF Logs
<1>14. Tells(ps)
  BY <1>7, <1>8, <1>10, <1>11 DEF Tells
<1>15. None(ps, {"MSG_RESP_HISTORY", "MSG_RESP_MEMBERS"})
  BY <1>8, <1>10 DEF None
<1>16. /\ text \in Line /\ text.id = server.texts /\ server.texts > 0 /\ Logs(text)
       /\ server'.texts = server.texts - 1
       /\ ps = <<[type |-> "MSG_RTE_TEXT", text |-> text]>>
  BY <1>3, <1>4, <1>5, <1>7, <1>9, <1>10, <1>11, <1>13
<1>17. Pushes(ps)
  BY <1>15, <1>16 DEF Pushes
<1> QED BY <1>7, <1>10, <1>11, <1>12, <1>14, <1>17 DEF ServerStep

LEMMA OthersChangeStep ==
  ASSUME Shapes, UNCHANGED <<app, state_lock, ui, net, conn>>, outbox' = outbox, OthersChange
  PROVE  ServerStep
<1>1. server \in ServerState /\ Descends(server) /\ server.changes > 0
  BY ServerDescends DEF Shapes, OthersChange
<1> DEFINE counted(s) == [s EXCEPT !.changes = @ - 1]
<1>2. ASSUME NEW s, Descends(s), s.changes = server.changes
      PROVE  /\ Descends(counted(s)) /\ counted(s).conversations = s.conversations
             /\ counted(s).contacts = s.contacts
             /\ conversations_packet(counted(s)) = conversations_packet(s)
             /\ contacts_packet(counted(s)) = contacts_packet(s)
             /\ requests_packet(counted(s)) = requests_packet(s)
  <2>1. /\ Descends(counted(s)) /\ counted(s).conversations = s.conversations
        /\ counted(s).contacts = s.contacts /\ counted(s).requests = s.requests
    BY <1>1, <1>2, Counted
  <2> HIDE DEF counted
  <2> QED BY <2>1 DEF conversations_packet, contacts_packet, requests_packet
<1>3. ASSUME NEW s, Descends(s), s.changes = server.changes, s.contacts = server.contacts,
             Answer(counted(s), <<conversations_packet(s)>>)
      PROVE  ServerStep
  <2> DEFINE t == counted(s)
  <2>1. /\ Descends(t) /\ t.contacts = server.contacts
        /\ Answer(t, <<conversations_packet(t)>>)
    BY <1>2, <1>3
  <2> HIDE DEF t
  <2> QED BY <2>1, ConversationsTold
<1>4. ASSUME NEW s, Descends(s), s.changes = server.changes,
             s.conversations = server.conversations,
             \/ Answer(counted(s), <<contacts_packet(s)>>)
             \/ s.contacts = server.contacts /\ Answer(counted(s), <<requests_packet(s)>>)
      PROVE  ServerStep
  <2> DEFINE t == counted(s)
  <2>1. /\ Descends(t) /\ t.conversations = server.conversations
        /\ \/ Answer(t, <<contacts_packet(t)>>)
           \/ t.contacts = server.contacts /\ Answer(t, <<requests_packet(t)>>)
    BY <1>2, <1>4
  <2> HIDE DEF t
  <2> QED BY <2>1, ContactsTold
<1>5. CASE \E u \in Friends \ server.requests :
              LET s == [server EXCEPT !.requests = @ \cup {u}]
              IN  Answer(counted(s), <<requests_packet(s)>>)
  <2>1. PICK u \in Friends \ server.requests :
              LET s == [server EXCEPT !.requests = @ \cup {u}]
              IN  Answer(counted(s), <<requests_packet(s)>>)
    BY <1>5
  <2> DEFINE S == server.requests \cup {u}
             s == [server EXCEPT !.requests = S]
  <2>2. S \in SUBSET Friends
    BY <1>1 DEF ServerState
  <2>3. Answer(counted(s), <<requests_packet(s)>>)
    BY <2>1
  <2> HIDE DEF S, counted
  <2>4. /\ Descends(s) /\ s.changes = server.changes /\ s.contacts = server.contacts
        /\ s.conversations = server.conversations
    BY <1>1, <2>2, Changed
  <2> HIDE DEF s
  <2> QED BY <1>4, <2>3, <2>4
<1>6. CASE \E u \in Friends \ server.contacts :
              LET s == [server EXCEPT !.contacts = @ \cup {u}]
              IN  Answer(counted(s), <<contacts_packet(s)>>)
  <2>1. PICK u \in Friends \ server.contacts :
              LET s == [server EXCEPT !.contacts = @ \cup {u}]
              IN  Answer(counted(s), <<contacts_packet(s)>>)
    BY <1>6
  <2> DEFINE S == server.contacts \cup {u}
             s == [server EXCEPT !.contacts = S]
  <2>2. S \in SUBSET Friends
    BY <1>1 DEF ServerState
  <2>3. Answer(counted(s), <<contacts_packet(s)>>)
    BY <2>1
  <2> HIDE DEF S, counted
  <2>4. Descends(s) /\ s.changes = server.changes /\ s.conversations = server.conversations
    BY <1>1, <2>2, Changed
  <2> HIDE DEF s
  <2> QED BY <1>4, <2>3, <2>4
<1>7. CASE \E c \in Unused(server) :
              LET s == with_conversation(server, c)
              IN  Answer(counted(s), <<conversations_packet(s)>>)
  <2>1. PICK c \in Unused(server) :
              LET s == with_conversation(server, c)
              IN  Answer(counted(s), <<conversations_packet(s)>>)
    BY <1>7
  <2> DEFINE S == server.conversations \cup {c}
             s == with_conversation(server, c)
  <2>2. S \in SUBSET Convs /\ s = [server EXCEPT !.conversations = S]
    BY <1>1 DEF Unused, ServerState, with_conversation
  <2>3. Answer(counted(s), <<conversations_packet(s)>>)
    BY <2>1
  <2> HIDE DEF S, s, counted
  <2>4. Descends(s) /\ s.changes = server.changes /\ s.contacts = server.contacts
    BY <1>1, <2>2, Changed
  <2> QED BY <1>3, <2>3, <2>4
<1>8. ASSUME NEW c \in server.conversations \cap (Groups \ AdminOf),
             LET s == [server EXCEPT !.conversations = @ \ {c}, !.members[c] = @ \ {Me}]
             IN  Answer(counted(s), <<conversations_packet(s)>>)
      PROVE  ServerStep
  <2> DEFINE C == server.conversations \ {c}
             S == server.members[c] \ {Me}
             s == [server EXCEPT !.conversations = C, !.members[c] = S]
             t == [server EXCEPT !.conversations = C]
  <2>1. Answer(counted(s), <<conversations_packet(s)>>)
    BY <1>8
  <2>2. C \in SUBSET Convs /\ S \in SUBSET server.members[c] /\ c \in Groups
    BY <1>1 DEF ServerState
  <2> HIDE DEF C, S, counted
  <2>3. /\ Descends(t) /\ t.contacts = server.contacts /\ t.changes = server.changes
    BY <1>1, <2>2, Changed
  <2>4. t.members[c] = server.members[c] /\ s = [t EXCEPT !.members[c] = S]
    BY <1>1 DEF ServerState
  <2> HIDE DEF s, t
  <2>5. Descends(s) /\ s.changes = server.changes /\ s.contacts = server.contacts
    BY <2>2, <2>3, <2>4, FewerMembers
  <2> QED BY <1>3, <2>1, <2>5
<1>9. ASSUME NEW c \in server.conversations \cap (Groups \ AdminOf),
             LET s == without_group(server, c)
             IN  Answer(counted(s), <<conversations_packet(s)>>)
      PROVE  ServerStep
  <2> DEFINE s == without_group(server, c)
  <2>1. Answer(counted(s), <<conversations_packet(s)>>)
    BY <1>9
  <2>2. Descends(s) /\ s.changes = server.changes /\ s.contacts = server.contacts
    BY <1>1, GroupDeleted
  <2> HIDE DEF s, counted
  <2> QED BY <1>3, <2>1, <2>2
<1>10. ASSUME NEW c \in server.conversations \cap (Groups \ AdminOf),
              NEW u \in server.members[c] \ {Me},
              LET s == [server EXCEPT !.members[c] = @ \ {u}]
              IN  Answer(counted(s), <<conversations_packet(s)>>)
       PROVE  ServerStep
  <2> DEFINE S == server.members[c] \ {u}
             s == [server EXCEPT !.members[c] = S]
  <2>1. Answer(counted(s), <<conversations_packet(s)>>)
    BY <1>10
  <2>2. S \in SUBSET server.members[c] /\ c \in Groups
    OBVIOUS
  <2> HIDE DEF S, counted
  <2>3. Descends(s) /\ s.changes = server.changes /\ s.contacts = server.contacts
    BY <1>1, <2>2, FewerMembers
  <2> HIDE DEF s
  <2> QED BY <1>3, <2>1, <2>3
<1> QED BY <1>5, <1>6, <1>7, <1>8, <1>9, <1>10 DEF OthersChange

(* The server dies, or drops the connection.                               *)
Gone ==
  /\ UNCHANGED <<app, state_lock, ui, net, server>>
  /\ conn' = "down" /\ outbox' = <<>>
  /\ \E n \in 0..Len(inbox) : inbox' = SubSeq(inbox, 1, n)

LEMMA ServerNextStep == Shapes /\ ServerNext => (conn = "up" /\ ServerStep) \/ Gone
BY HandleStep, OthersWriteStep, OthersChangeStep DEF ServerNext, ServerGone, Gone

-----------------------------------------------------------------------------
(* What a step of the network thread does                                  *)

Receives ==
  /\ UNCHANGED <<ui, server, state_lock>> /\ Keeps(app')
  /\ app'.current_state = app.current_state
  /\ inbox # <<>> /\ inbox' = Tail(inbox) /\ net.packet = NoPacket
  /\ \/ /\ net' = [pc |-> "lock", packet |-> Head(inbox)]
        /\ ~handled_at_once(Head(inbox)) /\ UNCHANGED <<outbox, conn>>
     \/ /\ handled_at_once(Head(inbox)) /\ net' = net
        /\ \/ Head(inbox).type # "MSG_CONV_CREATED" /\ UNCHANGED <<outbox, conn>>
           \/ Head(inbox).type = "MSG_CONV_CREATED" /\ Sent(<<service_req_conversations>>)

Stores ==
  /\ UNCHANGED <<ui, server, inbox, outbox, conn>>
  /\ app' \in AppState /\ state_lock' \in Locks
  /\ net.packet \in Packet /\ ~handled_at_once(net.packet)
  /\ net' = [pc |-> "recv", packet |-> NoPacket]
  /\ app'.current_conv_id = app.current_conv_id /\ app'.current_state = app.current_state
  /\ app'.conversations = IF net.packet.type = "MSG_RESP_CONVERSATIONS"
                            THEN net.packet.list ELSE app.conversations
  /\ app'.contacts = IF net.packet.type = "MSG_RESP_CONTACTS"
                       THEN net.packet.list ELSE app.contacts
  /\ app'.current_group_members = IF net.packet.type = "MSG_RESP_MEMBERS"
                                    THEN net.packet.list ELSE app.current_group_members
  /\ IF net.packet.type = "MSG_RESP_HISTORY" THEN app'.chat_history = net.packet.list
     ELSE \/ app'.chat_history = app.chat_history
          \/ /\ net.packet.type = "MSG_RTE_TEXT"
             /\ net.packet.text.conv_id = app.current_conv_id
             /\ app'.chat_history = Append(app.chat_history, net.packet.text)

Waits ==
  /\ UNCHANGED <<app, ui, server, outbox>> /\ state_lock' \in Locks
  /\ net' \in NetState /\ AtHand'
  /\ \/ UNCHANGED <<inbox, conn>> /\ net'.packet = net.packet
     \/ conn' # "up" /\ inbox' = <<>> /\ net'.packet = NoPacket /\ UNCHANGED conn
     \/ conn' = "closed" /\ UNCHANGED <<inbox, net>>

LEMMA ReceiveStep ==
  ASSUME Shapes, UNCHANGED server, Receive
  PROVE  Receives
<1> DEFINE k == Head(inbox)
<1>1. /\ net.pc = "recv" /\ inbox # <<>> /\ inbox' = Tail(inbox) /\ UNCHANGED <<state_lock, ui>>
      /\ net.packet = NoPacket
  BY DEF Receive, Shapes, AtHand
<1>2. CASE handled_at_once(k)
  <2>1. /\ answered(k) /\ UNCHANGED net
        /\ app' = [app EXCEPT !.needs_redraw = @ \/ sets_needs_redraw(k)]
    BY <1>2 DEF Receive
  <2> DEFINE b == app.needs_redraw \/ sets_needs_redraw(k)
  <2>2. b \in BOOLEAN
    BY DEF sets_needs_redraw, Shapes, AppState
  <2>3. app' = [app EXCEPT !.needs_redraw = b]
    BY <2>1
  <2> HIDE DEF b
  <2>4. Keeps(app') /\ app'.current_state = app.current_state
    BY <2>2, <2>3 DEF Shapes, AppState, Keeps, SameLists, SameChat
  <2>5. CASE k.type = "MSG_CONV_CREATED"
    <3>1. send_packets(<<service_req_conversations>>)
      BY <2>1, <2>5 DEF answered
    <3> DEFINE ps == <<service_req_conversations>>
    <3>2. ps \in Seq(Request)
      BY RequestMade
    <3> HIDE DEF ps
    <3>3. Sent(ps)
      BY <3>1, <3>2, PacketsSent DEF ps
    <3> QED BY <1>1, <1>2, <2>1, <2>4, <2>5, <3>3 DEF Receives, ps
  <2>6. CASE k.type # "MSG_CONV_CREATED"
    <3>1. UNCHANGED <<outbox, conn>>
      BY <2>1, <2>6 DEF answered, nothing_sent
    <3> QED BY <1>1, <1>2, <2>1, <2>4, <2>6, <3>1 DEF Receives
  <2> QED BY <2>5, <2>6
<1>3. CASE ~handled_at_once(k)
  <2>1. /\ net' = [pc |-> "lock", packet |-> k] /\ UNCHANGED <<outbox, conn, app>>
    BY <1>3 DEF Receive, nothing_sent
  <2>2. Keeps(app') /\ app'.current_state = app.current_state
    BY <2>1, Redrawn DEF Keeps, SameLists, SameChat
  <2> QED BY <1>1, <1>3, <2>1, <2>2 DEF Receives
<1> QED BY <1>2, <1>3

LEMMA UpdateStep ==
  ASSUME Shapes, UNCHANGED server, Update
  PROVE  Stores
<1> DEFINE k == net.packet
<1>1. /\ net.pc = "update" /\ app' = [stored(k) EXCEPT !.needs_redraw = TRUE]
      /\ state_lock' = "free" /\ net' = [pc |-> "recv", packet |-> NoPacket]
      /\ UNCHANGED <<ui, inbox, outbox, conn>>
  BY DEF Update
<1>2. k \in Packet /\ ~handled_at_once(k)
  BY <1>1 DEF Shapes, AtHand
<1>3. k.type \in {"MSG_RTE_TEXT", "MSG_RESP_HISTORY", "MSG_RESP_CONVERSATIONS",
                  "MSG_RESP_CONTACTS", "MSG_RESP_REQUESTS", "MSG_RESP_MEMBERS"}
  BY <1>2, PacketParts DEF handled_at_once
<1>4. app \in AppState
  BY DEF Shapes
<1>5. state_lock' \in Locks
  BY <1>1 DEF Locks
<1> HIDE DEF k
<1>6. CASE k.type = "MSG_RTE_TEXT"
  <2>1. k.text \in Line /\ k.text.conv_id \in Convs
    BY <1>2, <1>6, PacketParts
  <2>2. stored(k) = routed(k)
    BY <1>6 DEF stored
  <2>3. CASE in_open_chat(k)
    <3> DEFINE longer == Append(app.chat_history, k.text)
    <3>1. longer \in Seq(Line)
      BY <1>4, <2>1 DEF AppState
    <3>2. app' = [[app EXCEPT !.chat_history = longer] EXCEPT !.needs_redraw = TRUE]
      BY <1>1, <2>2, <2>3 DEF routed, app_append_history
    <3> HIDE DEF longer
    <3>3. /\ app' \in AppState /\ SameLists(app') /\ app'.chat_history = longer
          /\ app'.current_conv_id = app.current_conv_id /\ app'.current_state = app.current_state
      BY <1>4, <3>1, <3>2 DEF AppState, SameLists
    <3>4. k.text.conv_id = app.current_conv_id
      BY <2>3 DEF in_open_chat
    <3> QED BY <1>1, <1>2, <1>5, <1>6, <3>3, <3>4 DEF Stores, k, longer, SameLists
  <2>4. CASE ~in_open_chat(k)
    <3>1. PICK S \in SUBSET Convs : app' = [[app EXCEPT !.unread = S] EXCEPT !.needs_redraw = TRUE]
      <4>1. CASE listed(app.conversations, k.text.conv_id)
        <5> DEFINE S == app.unread \cup {k.text.conv_id}
        <5>1. S \in SUBSET Convs
          BY <1>4, <2>1 DEF AppState
        <5> QED BY <1>1, <2>2, <2>4, <4>1, <5>1 DEF routed
      <4>2. CASE ~listed(app.conversations, k.text.conv_id)
        <5> DEFINE S == app.unread
        <5>1. S \in SUBSET Convs /\ app = [app EXCEPT !.unread = S]
          BY <1>4 DEF AppState
        <5> QED BY <1>1, <2>2, <2>4, <4>2, <5>1 DEF routed
      <4> QED BY <4>1, <4>2
    <3>2. /\ app' \in AppState /\ SameLists(app') /\ SameChat(app')
          /\ app'.current_state = app.current_state
      BY <1>4, <3>1 DEF AppState, SameLists, SameChat
    <3> QED BY <1>1, <1>2, <1>5, <1>6, <3>2 DEF Stores, k, SameLists, SameChat
  <2> QED BY <2>3, <2>4
<1>7. CASE k.type = "MSG_RESP_HISTORY"
  <2>1. k.list \in Seq(Line)
    BY <1>2, <1>7, PacketParts
  <2>2. app' = [[app EXCEPT !.chat_history = k.list] EXCEPT !.needs_redraw = TRUE]
    BY <1>1, <1>7 DEF stored, history_replaced
  <2>3. /\ app' \in AppState /\ SameLists(app') /\ app'.chat_history = k.list
        /\ app'.current_conv_id = app.current_conv_id /\ app'.current_state = app.current_state
    BY <1>4, <2>1, <2>2 DEF AppState, SameLists
  <2> QED BY <1>1, <1>2, <1>5, <1>7, <2>3 DEF Stores, k, SameLists
<1>8. CASE k.type = "MSG_RESP_CONVERSATIONS"
  <2>1. k.list \in Seq(AnyConv)
    BY <1>2, <1>8, PacketParts
  <2>2. app' = [[[app EXCEPT !.conversations = k.list] EXCEPT !.unread = {}]
                  EXCEPT !.needs_redraw = TRUE]
    BY <1>1, <1>8, ListNames DEF stored, list_replaced
  <2>3. /\ app' \in AppState /\ SameChat(app') /\ app'.conversations = k.list
        /\ app'.contacts = app.contacts /\ app'.current_group_members = app.current_group_members
        /\ app'.current_state = app.current_state
    BY <1>4, <2>1, <2>2 DEF AppState, SameChat
  <2> QED BY <1>1, <1>2, <1>5, <1>8, <2>3 DEF Stores, k, SameChat
<1>9. CASE k.type \in {"MSG_RESP_CONTACTS", "MSG_RESP_REQUESTS", "MSG_RESP_MEMBERS"}
  <2>1. k.list \in Seq(AnyUser)
    BY <1>2, <1>9, PacketParts
  <2>2. stored(k) = [app EXCEPT ![ListTypes[k.type]] = k.list]
    BY <1>9 DEF stored, list_replaced
  <2>3. /\ app' \in AppState /\ SameChat(app') /\ app'.conversations = app.conversations
        /\ app'.contacts = IF k.type = "MSG_RESP_CONTACTS" THEN k.list ELSE app.contacts
        /\ app'.current_group_members = IF k.type = "MSG_RESP_MEMBERS"
                                          THEN k.list ELSE app.current_group_members
        /\ app'.current_state = app.current_state
    <3>1. CASE k.type = "MSG_RESP_CONTACTS"
      <4>1. app' = [[app EXCEPT !.contacts = k.list] EXCEPT !.needs_redraw = TRUE]
        BY <1>1, <2>2, <3>1, ListNames
      <4> QED BY <1>4, <2>1, <3>1, <4>1 DEF AppState, SameChat
    <3>2. CASE k.type = "MSG_RESP_REQUESTS"
      <4>1. app' = [[app EXCEPT !.requests = k.list] EXCEPT !.needs_redraw = TRUE]
        BY <1>1, <2>2, <3>2, ListNames
      <4> QED BY <1>4, <2>1, <3>2, <4>1 DEF AppState, SameChat
    <3>3. CASE k.type = "MSG_RESP_MEMBERS"
      <4>1. app' = [[app EXCEPT !.current_group_members = k.list] EXCEPT !.needs_redraw = TRUE]
        BY <1>1, <2>2, <3>3, ListNames
      <4> QED BY <1>4, <2>1, <3>3, <4>1 DEF AppState, SameChat
    <3> QED BY <1>9, <3>1, <3>2, <3>3
  <2> QED BY <1>1, <1>2, <1>5, <1>9, <2>3 DEF Stores, k, SameChat
<1> QED BY <1>3, <1>6, <1>7, <1>8, <1>9

LEMMA WaitStep ==
  ASSUME Shapes, UNCHANGED server, EndOfStream \/ LockForUpdate \/ StrayAccess \/ DoubleFree
  PROVE  Waits
<1>1. net \in NetState /\ AtHand /\ state_lock \in Locks
  BY DEF Shapes
<1>2. CASE EndOfStream
  <2>1. /\ net.pc = "recv" /\ net' = [net EXCEPT !.pc = "ended"] /\ conn \in {"reset", "down"}
        /\ inbox' = <<>> /\ UNCHANGED <<app, state_lock, ui, outbox, conn>>
    BY <1>2 DEF EndOfStream
  <2>2. net' \in NetState /\ net'.packet = NoPacket /\ net'.pc = "ended"
    BY <1>1, <2>1 DEF NetState, AtHand
  <2> QED BY <1>1, <2>1, <2>2 DEF Waits, AtHand
<1>3. CASE LockForUpdate
  <2>1. /\ net.pc = "lock" /\ net' = [net EXCEPT !.pc = "update"] /\ state_lock' = "net"
        /\ UNCHANGED <<app, ui, inbox, outbox, conn>>
    BY <1>3 DEF LockForUpdate
  <2>2. net' \in NetState /\ net'.packet = net.packet /\ net'.pc = "update"
    BY <1>1, <2>1 DEF NetState
  <2> QED BY <1>1, <2>1, <2>2 DEF Waits, AtHand, Locks
<1>4. CASE StrayAccess
  BY <1>1, <1>4 DEF StrayAccess, Waits, AtHand
<1>5. CASE DoubleFree
  BY <1>1, <1>5 DEF DoubleFree, Waits, AtHand
<1> QED BY <1>2, <1>3, <1>4, <1>5

LEMMA NetStep == Shapes /\ (NetThread \/ Abort) => Receives \/ Stores \/ Waits
BY ReceiveStep, UpdateStep, WaitStep DEF NetThread, NetworkThreadNext, Abort

-----------------------------------------------------------------------------
(* Shapes is an invariant                                                  *)

LEMMA Requested ==
  /\ [type |-> "MSG_REQ_CONTACTS"] \in Request /\ [type |-> "MSG_GET_REQUESTS"] \in Request
  /\ [type |-> "MSG_REQ_CONVERSATIONS"] \in Request
BY RequestMade DEF plain, service_refresh_contacts, service_refresh_requests,
                   service_req_conversations

LEMMA AtLogin ==
  ASSUME NEW s \in Sessions, ContextInit(s.keys), ServerInit(s)
  PROVE  /\ app = app_init /\ app \in AppState
         /\ ui \in UIState /\ ui.pc = "render" /\ ui.written = 0
         /\ net = [pc |-> "recv", packet |-> NoPacket]
         /\ outbox \in Seq(Request) /\ Len(outbox) = 3 /\ DOMAIN outbox = 1..3
         /\ outbox[1].type = "MSG_REQ_CONTACTS" /\ outbox[2].type = "MSG_GET_REQUESTS"
         /\ outbox[3].type = "MSG_REQ_CONVERSATIONS"
         /\ inbox = <<>> /\ conn = "up" /\ state_lock = "free"
         /\ server \in ServerState /\ server.members = MembersAtStart
         /\ \A c \in Convs : server.log[c] = IF c \in s.talkative THEN <<[conv_id |-> c, id |-> 0]>>
                                                             ELSE <<>>
<1>1. IsSession(s)
  BY ServerConstants
<1>2. app = app_init /\ app \in AppState
  <2>1. app = app_init
    BY DEF ContextInit
  <2>2. /\ <<>> \in Seq(AnyUser) /\ <<>> \in Seq(AnyConv) /\ <<>> \in Seq(Line)
        /\ {} \in SUBSET Convs /\ {} \in SUBSET AnyConv /\ UNKNOWN \in AnyConv
    BY AnyElements
  <2>3. "HOME" \in Screens
    BY ScreenNames
  <2> QED BY <2>1, <2>2, <2>3 DEF app_init, AppState
<1>3. ui \in UIState /\ ui.pc = "render" /\ ui.written = 0
  <2>1. ui = [pc |-> "render", selection |-> 0, group_selection_idx |-> 0,
              group_members_selected |-> {}, written |-> 0, keys |-> s.keys]
    BY DEF ContextInit
  <2>2. s.keys \in SUBSET STRING /\ 0 \in 0..MaxTexts
    BY <1>1, AnyElements DEF IsSession
  <2> QED BY <2>1, <2>2 DEF UIState
<1>4. /\ outbox \in Seq(Request) /\ Len(outbox) = 3 /\ DOMAIN outbox = 1..3
      /\ outbox[1].type = "MSG_REQ_CONTACTS" /\ outbox[2].type = "MSG_GET_REQUESTS"
      /\ outbox[3].type = "MSG_REQ_CONVERSATIONS"
  <2> DEFINE a == [type |-> "MSG_REQ_CONTACTS"]
             b == [type |-> "MSG_GET_REQUESTS"]
             d == [type |-> "MSG_REQ_CONVERSATIONS"]
  <2>1. outbox = <<a, b, d>>
    BY DEF ContextInit
  <2>2. /\ a \in Request /\ b \in Request /\ d \in Request
        /\ a.type = "MSG_REQ_CONTACTS" /\ b.type = "MSG_GET_REQUESTS"
        /\ d.type = "MSG_REQ_CONVERSATIONS"
    BY Requested
  <2> HIDE DEF a, b, d
  <2> QED BY <2>1, <2>2
<1>5. server \in ServerState /\ server.members = MembersAtStart
  <2> DEFINE log == [c \in Convs |-> IF c \in s.talkative THEN <<[conv_id |-> c, id |-> 0]>>
                                                         ELSE <<>>]
  <2>1. server = [conversations |-> s.conversations, contacts |-> s.contacts,
                  requests |-> s.requests, members |-> MembersAtStart, log |-> log,
                  ids |-> s.ids, texts |-> s.texts, changes |-> s.changes]
    BY DEF ServerInit
  <2>2. ASSUME NEW c \in Convs
        PROVE  log[c] \in Seq(Line)
    <3>1. [conv_id |-> c, id |-> 0] \in Line
      BY AnyElements DEF Line
    <3> QED BY <3>1
  <2>3. log \in [Convs -> Seq(Line)]
    BY <2>2
  <2>4. /\ s.conversations \in SUBSET Convs /\ s.contacts \in SUBSET Friends
        /\ s.requests \in SUBSET Friends /\ s.ids \in SUBSET Convs
        /\ s.texts \in Nat /\ s.changes \in Nat
    BY <1>1 DEF IsSession
  <2> HIDE DEF log
  <2> QED BY <2>1, <2>3, <2>4, ServerConstants DEF ServerState
<1> QED BY <1>2, <1>3, <1>4, <1>5 DEF ContextInit, ServerInit

LEMMA InitShapes == Init => Shapes
<1> SUFFICES ASSUME NEW s \in Sessions, ContextInit(s.keys), ServerInit(s)
             PROVE  Shapes
  BY DEF Init
<1>1. net \in NetState /\ AtHand /\ net.packet = NoPacket /\ net.pc = "recv"
  <2>1. net = [pc |-> "recv", packet |-> NoPacket]
    BY AtLogin
  <2> QED BY <2>1 DEF NetState, AtHand
<1>2. inbox = <<>> /\ inbox \in Seq(Packet) /\ Len(inbox) <= MaxInbox
  <2>1. inbox = <<>>
    BY AtLogin
  <2> QED BY <2>1, AnyElements
<1>3. Len(outbox) <= MaxOutbox
  BY AtLogin, AnyElements
<1>4. /\ app \in AppState /\ state_lock = "free" /\ ui \in UIState /\ outbox \in Seq(Request)
      /\ conn = "up" /\ server \in ServerState
  BY AtLogin
<1> QED BY <1>1, <1>2, <1>3, <1>4 DEF Shapes, Locks

(* Every step of the client and its server, in one of six forms.           *)
Steps == UIStep \/ Receives \/ Stores \/ Waits \/ (conn = "up" /\ ServerStep) \/ Gone

LEMMA NextSteps == Shapes /\ Next => Steps
BY UIThreadStep, NetStep, ServerNextStep DEF Next, Steps

LEMMA ShapesKept == Shapes /\ Steps => Shapes'
<1> SUFFICES ASSUME Shapes, Steps
             PROVE  Shapes'
  OBVIOUS
<1>1. CASE UIStep
  <2>1. AtHand'
    BY <1>1 DEF UIStep, Shapes, AtHand, handled_at_once, has_payload
  <2>2. /\ app' \in AppState /\ ui' \in UIState /\ state_lock' \in Locks
        /\ UNCHANGED <<net, inbox, server>>
        /\ outbox' \in Seq(Request) /\ Len(outbox') <= MaxOutbox
        /\ conn' \in {"up", "down", "reset", "closed"}
    BY <1>1 DEF UIStep, Sent
  <2> QED BY <2>1, <2>2 DEF Shapes
<1>2. CASE Receives
  <2>1. /\ Head(inbox) \in Packet /\ inbox' \in Seq(Packet) /\ Len(inbox') <= MaxInbox
    <3>1. inbox \in Seq(Packet) /\ inbox # <<>> /\ inbox' = Tail(inbox) /\ Len(inbox) <= MaxInbox
      BY <1>2 DEF Shapes, Receives
    <3>2. /\ Head(inbox) \in Packet /\ inbox' \in Seq(Packet) /\ Len(inbox') = Len(inbox) - 1
          /\ Len(inbox) \in Nat
      BY <3>1, Rest
    <3> QED BY <3>1, <3>2, AnyElements
  <2>2. net' \in NetState /\ AtHand'
    <3>1. CASE net' = [pc |-> "lock", packet |-> Head(inbox)] /\ ~handled_at_once(Head(inbox))
      BY <2>1, <3>1 DEF NetState, AtHand, handled_at_once, has_payload
    <3>2. CASE net' = net
      BY <3>2 DEF Shapes, AtHand, handled_at_once, has_payload
    <3> QED BY <1>2, <3>1, <3>2 DEF Receives
  <2>3. /\ app' \in AppState /\ UNCHANGED <<ui, server, state_lock>>
        /\ outbox' \in Seq(Request) /\ Len(outbox') <= MaxOutbox
        /\ conn' \in {"up", "down", "reset", "closed"}
    BY <1>2 DEF Receives, Keeps, Sent, Shapes
  <2> QED BY <2>1, <2>2, <2>3 DEF Shapes
<1>3. CASE Stores
  <2>1. net' = [pc |-> "recv", packet |-> NoPacket]
    BY <1>3 DEF Stores
  <2>2. net' \in NetState /\ AtHand'
    BY <2>1 DEF NetState, AtHand
  <2>3. app' \in AppState /\ state_lock' \in Locks /\ UNCHANGED <<ui, server, inbox, outbox, conn>>
    BY <1>3 DEF Stores
  <2> QED BY <2>2, <2>3 DEF Shapes
<1>4. CASE Waits
  <2>1. /\ UNCHANGED <<app, ui, server, outbox>> /\ state_lock' \in Locks
        /\ net' \in NetState /\ AtHand'
        /\ inbox' = inbox \/ inbox' = <<>>
        /\ conn' = conn \/ conn' = "closed"
    BY <1>4 DEF Waits
  <2>2. inbox' \in Seq(Packet) /\ Len(inbox') <= MaxInbox
    <3>1. CASE inbox' = inbox
      BY <3>1 DEF Shapes
    <3>2. CASE inbox' = <<>>
      BY <3>2, AnyElements
    <3> QED BY <2>1, <3>1, <3>2
  <2> QED BY <2>1, <2>2 DEF Shapes
<1>5. CASE ServerStep
  <2>1. PICK ps \in Seq(Packet) : /\ inbox' = inbox \o ps /\ Len(inbox') <= MaxInbox
                                  /\ Handles(ps) \/ Pushes(ps)
    BY <1>5 DEF ServerStep
  <2>2. inbox' \in Seq(Packet)
    BY <2>1, Joined DEF Shapes
  <2>3. outbox' \in Seq(Request) /\ Len(outbox') <= MaxOutbox
    <3>1. CASE outbox' = outbox
      BY <3>1 DEF Shapes
    <3>2. CASE outbox # <<>> /\ outbox' = Tail(outbox)
      <4>1. outbox \in Seq(Request) /\ Len(outbox) <= MaxOutbox
        BY DEF Shapes
      <4>2. outbox' \in Seq(Request) /\ Len(outbox') = Len(outbox) - 1 /\ Len(outbox) \in Nat
        BY <3>2, <4>1, Rest
      <4> QED BY <4>1, <4>2, AnyElements
    <3> QED BY <2>1, <3>1, <3>2 DEF Handles, Pushes
  <2>4. AtHand'
    BY <1>5 DEF ServerStep, Shapes, AtHand, handled_at_once, has_payload
  <2>5. UNCHANGED <<app, state_lock, ui, net, conn>> /\ server' \in ServerState
    BY <1>5 DEF ServerStep
  <2> QED BY <2>1, <2>2, <2>3, <2>4, <2>5 DEF Shapes
<1>6. CASE Gone
  <2>1. PICK n \in 0..Len(inbox) : inbox' = SubSeq(inbox, 1, n)
    BY <1>6 DEF Gone
  <2>2. inbox' \in Seq(Packet) /\ Len(inbox') <= MaxInbox
    <3>1. inbox \in Seq(Packet) /\ Len(inbox) <= MaxInbox /\ Len(inbox) \in Nat /\ n \in Nat
      BY DEF Shapes
    <3>2. \A i \in 1..n : inbox[i] \in Packet
      BY <2>1, <3>1
    <3>3. inbox' \in Seq(Packet) /\ Len(inbox') = IF 1 <= n THEN n - 1 + 1 ELSE 0
      BY <2>1, <3>1, <3>2, SubSeqProperties
    <3> QED BY <2>1, <3>1, <3>3, AnyElements
  <2>3. outbox' \in Seq(Request) /\ Len(outbox') <= MaxOutbox
    <3>1. outbox' = <<>>
      BY <1>6 DEF Gone
    <3> QED BY <3>1, AnyElements
  <2>4. AtHand'
    BY <1>6 DEF Gone, Shapes, AtHand, handled_at_once, has_payload
  <2> QED BY <1>6, <2>2, <2>3, <2>4 DEF Gone, Shapes
<1> QED BY <1>1, <1>2, <1>3, <1>4, <1>5, <1>6 DEF Steps

LEMMA Stutter == Shapes /\ UNCHANGED vars => Shapes'
BY DEF Shapes, AtHand, handled_at_once, has_payload, vars

LEMMA ShapesInvariant == Spec => []Shapes
<1>1. Init => Shapes
  BY InitShapes
<1>2. Shapes /\ [Next]_vars => Shapes'
  BY NextSteps, ShapesKept, Stutter
<1> QED BY <1>1, <1>2, PTL DEF Spec

(* Sort errors, lists of the wrong kind and queues longer than their bounds*)
(* do not occur: what either thread reads while the other replaces it, and *)
(* every packet and request, has the shape of its declaration.             *)
THEOREM TypesKept == Spec => []TypeOK
<1>1. Shapes => TypeOK
  BY DEF Shapes, TypeOK, ContextTypeOK, ServerTypeOK, UIState, NetState, ServerState, Locks
<1> QED BY <1>1, ShapesInvariant, PTL

-----------------------------------------------------------------------------
(* What is on its way                                                      *)

carries(k, type) == k.type = type /\ k.list # <<>>

(* Once all that is coming has been stored, what is held first, the list of*)
(* that type is one of Good; it is list now.                               *)
Arrives(type, list, held, coming, Good) ==
  /\ \A i \in DOMAIN coming :
       carries(coming[i], type) /\ (\A j \in DOMAIN coming : j > i => ~carries(coming[j], type))
         => coming[i].list \in Good
  /\ (\A i \in DOMAIN coming : ~carries(coming[i], type)) =>
       IF carries(held, type) THEN held.list \in Good ELSE list \in Good

LEMMA ArrivesMore ==
  ASSUME NEW coming \in Seq(Packet), NEW ps \in Seq(Packet), NEW type, NEW list, NEW held, NEW Good,
         \A k \in DOMAIN ps : carries(ps[k], type) => ps[k].list \in Good,
         \/ Arrives(type, list, held, coming, Good)
         \/ \E k \in DOMAIN ps : carries(ps[k], type)
  PROVE  Arrives(type, list, held, coming \o ps, Good)
<1> DEFINE all == coming \o ps
           m == Len(coming)
<1>1. /\ all \in Seq(Packet) /\ Len(all) = m + Len(ps) /\ m \in Nat /\ Len(ps) \in Nat
      /\ DOMAIN coming = 1..m /\ DOMAIN ps = 1..Len(ps) /\ DOMAIN all = 1..(m + Len(ps))
      /\ \A i \in DOMAIN coming : all[i] = coming[i]
      /\ \A i \in DOMAIN ps : all[m + i] = ps[i]
      /\ \A i \in DOMAIN all :
           \/ i \in DOMAIN coming /\ all[i] = coming[i]
           \/ \E k \in DOMAIN ps : i = m + k /\ all[i] = ps[k]
  <2>1. /\ all \in Seq(Packet) /\ Len(all) = m + Len(ps) /\ m \in Nat /\ Len(ps) \in Nat
        /\ \A i \in 1..m : all[i] = coming[i]
        /\ \A i \in 1..Len(ps) : all[m + i] = ps[i]
        /\ \A i \in DOMAIN all :
             \/ i \in DOMAIN coming /\ all[i] = coming[i]
             \/ \E k \in DOMAIN ps : i = m + k /\ all[i] = ps[k]
    BY Joined
  <2>2. DOMAIN coming = 1..m /\ DOMAIN ps = 1..Len(ps)
    OBVIOUS
  <2> HIDE DEF all
  <2>3. DOMAIN all = 1..(m + Len(ps))
    BY <2>1
  <2> QED BY <2>1, <2>2, <2>3
<1> HIDE DEF all, m
<1>2. \A i \in DOMAIN coming : i \in DOMAIN all
  BY <1>1
<1>3. \A k \in DOMAIN ps : m + k \in DOMAIN all /\ \A i \in DOMAIN coming : m + k > i
  BY <1>1
<1>4. ASSUME NEW i \in DOMAIN all, carries(all[i], type),
             \A j \in DOMAIN all : j > i => ~carries(all[j], type)
      PROVE  all[i].list \in Good
  <2>1. CASE i \in DOMAIN coming /\ all[i] = coming[i]
    <3>1. \A k \in DOMAIN ps : ~carries(ps[k], type)
      BY <1>1, <1>3, <1>4, <2>1
    <3>2. \A j \in DOMAIN coming : j > i => ~carries(coming[j], type)
      BY <1>1, <1>2, <1>4
    <3> QED BY <1>4, <2>1, <3>1, <3>2 DEF Arrives
  <2>2. CASE \E k \in DOMAIN ps : i = m + k /\ all[i] = ps[k]
    BY <1>4, <2>2
  <2> QED BY <1>1, <2>1, <2>2
<1>5. ASSUME \A i \in DOMAIN all : ~carries(all[i], type)
      PROVE  IF carries(held, type) THEN held.list \in Good ELSE list \in Good
  <2>1. /\ \A k \in DOMAIN ps : ~carries(ps[k], type)
        /\ \A i \in DOMAIN coming : ~carries(coming[i], type)
    BY <1>1, <1>2, <1>3, <1>5
  <2> QED BY <2>1 DEF Arrives
<1> QED BY <1>4, <1>5 DEF Arrives, all

LEMMA ArrivesNext ==
  ASSUME NEW coming \in Seq(Packet), coming # <<>>, NEW type, NEW list, NEW held, NEW next, NEW Good,
         ~carries(held, type), Arrives(type, list, held, coming, Good),
         IF carries(Head(coming), type) THEN next = Head(coming) ELSE ~carries(next, type)
  PROVE  Arrives(type, list, next, Tail(coming), Good)
<1> DEFINE t == Tail(coming)
<1>1. /\ Head(coming) = coming[1] /\ 1 \in DOMAIN coming /\ t \in Seq(Packet)
      /\ \A i \in DOMAIN t : i + 1 \in DOMAIN coming /\ t[i] = coming[i + 1]
      /\ \A i \in DOMAIN coming : i = 1 \/ (i - 1 \in DOMAIN t /\ t[i - 1] = coming[i])
  BY Rest
<1>2. DOMAIN t \subseteq Nat \ {0} /\ DOMAIN coming \subseteq Nat \ {0}
  BY <1>1
<1> HIDE DEF t
<1>3. ASSUME NEW i \in DOMAIN t, carries(t[i], type),
             \A j \in DOMAIN t : j > i => ~carries(t[j], type)
      PROVE  t[i].list \in Good
  <2>1. i + 1 \in DOMAIN coming /\ carries(coming[i + 1], type)
    BY <1>1, <1>3
  <2>2. ASSUME NEW j \in DOMAIN coming, j > i + 1
        PROVE  ~carries(coming[j], type)
    <3>1. j # 1 /\ j - 1 > i
      BY <1>2, <2>2
    <3> QED BY <1>1, <1>3, <3>1
  <2>3. coming[i + 1].list \in Good
    BY <2>1, <2>2 DEF Arrives
  <2> QED BY <1>1, <2>3
<1>4. ASSUME \A i \in DOMAIN t : ~carries(t[i], type)
      PROVE  IF carries(next, type) THEN next.list \in Good ELSE list \in Good
  <2>1. \A i \in DOMAIN coming : i # 1 => ~carries(coming[i], type)
    BY <1>1, <1>4
  <2>2. CASE carries(coming[1], type)
    <3>1. \A j \in DOMAIN coming : j > 1 => ~carries(coming[j], type)
      BY <1>2, <2>1
    <3>2. coming[1].list \in Good
      BY <1>1, <2>2, <3>1 DEF Arrives
    <3> QED BY <1>1, <2>2, <3>2
  <2>3. CASE ~carries(coming[1], type)
    <3>1. \A i \in DOMAIN coming : ~carries(coming[i], type)
      BY <2>1, <2>3
    <3>2. list \in Good
      BY <3>1 DEF Arrives
    <3> QED BY <1>1, <2>3, <3>2
  <2> QED BY <2>2, <2>3
<1> QED BY <1>3, <1>4 DEF Arrives, t

(* The packet that is held is stored, or what is here changes.             *)
LEMMA ArrivesHere ==
  ASSUME NEW coming, NEW type, NEW list, NEW list2, NEW held, NEW held2, NEW Good, NEW Good2,
         Good \subseteq Good2, Arrives(type, list, held, coming, Good),
         (IF carries(held, type) THEN held.list \in Good ELSE list \in Good) =>
           IF carries(held2, type) THEN held2.list \in Good2 ELSE list2 \in Good2
  PROVE  Arrives(type, list2, held2, coming, Good2)
BY DEF Arrives

LEMMA NothingHeld == \A type : type # "none" => ~carries(NoPacket, type)
BY DEF carries, NoPacket

-----------------------------------------------------------------------------
(* What has been asked for                                                 *)

Asked(type, out) == \E i \in DOMAIN out : out[i].type = type

(* The last request of that type is about c.                               *)
LastIs(type, c, out) ==
  \A i \in DOMAIN out :
    out[i].type = type /\ (\A j \in DOMAIN out : j > i => out[j].type # type)
      => out[i].conv_id = c

LEMMA AskedMore ==
  ASSUME NEW out \in Seq(Request), NEW ps \in Seq(Request), NEW type
  PROVE  /\ Asked(type, out \o ps) <=> Asked(type, out) \/ Asked(type, ps)
         /\ \A c : /\ LastIs(type, c, out) /\ ~Asked(type, ps) => LastIs(type, c, out \o ps)
                   /\ ps # <<>> /\ ps[Len(ps)].type = type /\ ps[Len(ps)].conv_id = c =>
                        LastIs(type, c, out \o ps) /\ Asked(type, out \o ps)
<1> DEFINE all == out \o ps
           m == Len(out)
           n == Len(ps)
<1>1. /\ m \in Nat /\ n \in Nat
      /\ DOMAIN out = 1..m /\ DOMAIN ps = 1..n /\ DOMAIN all = 1..(m + n)
      /\ \A i \in DOMAIN out : all[i] = out[i]
      /\ \A i \in DOMAIN ps : all[m + i] = ps[i]
      /\ \A i \in DOMAIN all :
           \/ i \in DOMAIN out /\ all[i] = out[i]
           \/ \E k \in DOMAIN ps : i = m + k /\ all[i] = ps[k]
  <2>1. /\ all \in Seq(Request) /\ Len(all) = m + n /\ m \in Nat /\ n \in Nat
        /\ \A i \in 1..m : all[i] = out[i]
        /\ \A i \in 1..n : all[m + i] = ps[i]
        /\ \A i \in DOMAIN all :
             \/ i \in DOMAIN out /\ all[i] = out[i]
             \/ \E k \in DOMAIN ps : i = m + k /\ all[i] = ps[k]
    BY Joined
  <2>2. DOMAIN out = 1..m /\ DOMAIN ps = 1..n
    OBVIOUS
  <2> HIDE DEF all
  <2>3. DOMAIN all = 1..(m + n)
    BY <2>1
  <2> QED BY <2>1, <2>2, <2>3
<1>2. ps # <<>> => n \in DOMAIN ps
  <2>1. ps # <<>> => n >= 1
    BY EmptySeq
  <2> QED BY <1>1, <2>1
<1> HIDE DEF all, m, n
<1>3. /\ \A i \in DOMAIN out : i \in DOMAIN all
      /\ \A k \in DOMAIN ps : m + k \in DOMAIN all /\ \A i \in DOMAIN out : m + k > i
  BY <1>1
<1>4. Asked(type, all) <=> Asked(type, out) \/ Asked(type, ps)
  BY <1>1, <1>3 DEF Asked
<1>5. ASSUME NEW c, LastIs(type, c, out), ~Asked(type, ps)
      PROVE  LastIs(type, c, all)
  <2> SUFFICES ASSUME NEW i \in DOMAIN all, all[i].type = type,
                      \A j \in DOMAIN all : j > i => all[j].type # type
               PROVE  all[i].conv_id = c
    BY DEF LastIs
  <2>1. i \in DOMAIN out /\ all[i] = out[i]
    BY <1>1, <1>5 DEF Asked
  <2>2. \A j \in DOMAIN out : j > i => out[j].type # type
    BY <1>1, <1>3
  <2> QED BY <1>5, <2>1, <2>2 DEF LastIs
<1>6. ASSUME NEW c, ps # <<>>, ps[n].type = type, ps[n].conv_id = c
      PROVE  LastIs(type, c, all) /\ Asked(type, all)
  <2>1. m + n \in DOMAIN all /\ all[m + n] = ps[n]
    BY <1>1, <1>2, <1>3, <1>6
  <2>2. ASSUME NEW i \in DOMAIN all, \A j \in DOMAIN all : j > i => all[j].type # type
        PROVE  i = m + n
    <3>1. ~(m + n > i)
      BY <1>6, <2>1, <2>2
    <3> QED BY <1>1, <3>1
  <2> QED BY <1>6, <2>1, <2>2 DEF LastIs, Asked
<1> QED BY <1>4, <1>5, <1>6 DEF all, n

LEMMA AskedLess ==
  ASSUME NEW out \in Seq(Request), out # <<>>, NEW type
  PROVE  /\ Asked(type, out) <=> Head(out).type = type \/ Asked(type, Tail(out))
         /\ \A c : LastIs(type, c, out) => LastIs(type, c, Tail(out))
         /\ \A c : LastIs(type, c, out) /\ ~Asked(type, Tail(out)) /\ Head(out).type = type =>
                     Head(out).conv_id = c
<1> DEFINE t == Tail(out)
<1>1. /\ Head(out) = out[1] /\ 1 \in DOMAIN out /\ t \in Seq(Request)
      /\ \A i \in DOMAIN t : i + 1 \in DOMAIN out /\ t[i] = out[i + 1]
      /\ \A i \in DOMAIN out : i = 1 \/ (i - 1 \in DOMAIN t /\ t[i - 1] = out[i])
  BY Rest
<1>2. DOMAIN t \subseteq Nat \ {0} /\ DOMAIN out \subseteq Nat \ {0}
  BY <1>1
<1> HIDE DEF t
<1>3. Asked(type, out) <=> Head(out).type = type \/ Asked(type, t)
  <2>1. ASSUME Asked(type, out)
        PROVE  Head(out).type = type \/ Asked(type, t)
    BY <1>1, <2>1 DEF Asked
  <2>2. Head(out).type = type => Asked(type, out)
    BY <1>1 DEF Asked
  <2>3. Asked(type, t) => Asked(type, out)
    BY <1>1 DEF Asked
  <2> QED BY <2>1, <2>2, <2>3
<1>4. ASSUME NEW c, LastIs(type, c, out)
      PROVE  LastIs(type, c, t)
  <2> SUFFICES ASSUME NEW i \in DOMAIN t, t[i].type = type,
                      \A j \in DOMAIN t : j > i => t[j].type # type
               PROVE  t[i].conv_id = c
    BY DEF LastIs
  <2>1. i + 1 \in DOMAIN out /\ out[i + 1] = t[i]
    BY <1>1
  <2>2. ASSUME NEW j \in DOMAIN out, j > i + 1
        PROVE  out[j].type # type
    <3>1. j # 1 /\ j - 1 > i
      BY <1>2, <2>2
    <3> QED BY <1>1, <3>1
  <2> QED BY <1>4, <2>1, <2>2 DEF LastIs
<1>5. ASSUME NEW c, LastIs(type, c, out), ~Asked(type, t), Head(out).type = type
      PROVE  Head(out).conv_id = c
  <2>1. \A j \in DOMAIN out : j > 1 => out[j].type # type
    BY <1>1, <1>2, <1>5 DEF Asked
  <2> QED BY <1>1, <1>5, <2>1 DEF LastIs
<1> QED BY <1>3, <1>4, <1>5 DEF t

Lists4 == {"MSG_RESP_CONVERSATIONS", "MSG_RESP_CONTACTS", "MSG_RESP_MEMBERS", "MSG_RESP_HISTORY"}

(* The network thread loses nothing that is coming.                        *)
LEMMA ArrivesTaken ==
  ASSUME Shapes, Receives, NEW type \in Lists4, NEW list, NEW Good,
         Arrives(type, list, net.packet, inbox, Good)
  PROVE  Arrives(type, list, net'.packet, inbox', Good)
<1> DEFINE held == net.packet
           next == net'.packet
           coming == inbox
<1>1. /\ coming \in Seq(Packet) /\ coming # <<>> /\ inbox' = Tail(coming) /\ held = NoPacket
      /\ type # "none"
  BY DEF Shapes, Receives, Lists4
<1>2. ~carries(held, type)
  BY <1>1, NothingHeld
<1>3. IF carries(Head(coming), type) THEN next = Head(coming) ELSE ~carries(next, type)
  <2>1. CASE ~handled_at_once(Head(coming))
    <3>1. next = Head(coming)
      BY <2>1 DEF Receives
    <3> QED BY <3>1
  <2>2. CASE handled_at_once(Head(coming))
    <3>1. next = held
      BY <2>2 DEF Receives
    <3>2. ~carries(Head(coming), type)
      BY <2>2, ListNames DEF carries, handled_at_once, has_payload, Lists4
    <3> QED BY <1>2, <3>1, <3>2
  <2> QED BY <2>1, <2>2
<1>4. Arrives(type, list, held, coming, Good)
  OBVIOUS
<1> HIDE DEF held, next, coming
<1>5. Arrives(type, list, next, Tail(coming), Good)
  BY <1>1, <1>2, <1>3, <1>4, ArrivesNext
<1> QED BY <1>1, <1>5 DEF next

LEMMA ArrivesStored ==
  ASSUME Shapes, Stores, NEW type \in Lists4, NEW list, NEW list2, NEW Good,
         Arrives(type, list, net.packet, inbox, Good),
         net.packet.type = type => list2 = net.packet.list,
         net.packet.type # type => (list \in Good => list2 \in Good)
  PROVE  Arrives(type, list2, net'.packet, inbox', Good)
<1>1. net'.packet = NoPacket /\ inbox' = inbox /\ ~handled_at_once(net.packet) /\ type # "none"
  BY DEF Stores, Lists4
<1>2. ~carries(NoPacket, type)
  BY <1>1, NothingHeld
<1>3. net.packet.type = type => carries(net.packet, type)
  BY <1>1, ListNames DEF carries, handled_at_once, has_payload, Lists4
<1>4. (IF carries(net.packet, type) THEN net.packet.list \in Good ELSE list \in Good) =>
        IF carries(NoPacket, type) THEN NoPacket.list \in Good ELSE list2 \in Good
  BY <1>2, <1>3 DEF carries
<1>5. Arrives(type, list2, NoPacket, inbox, Good)
  BY <1>4, ArrivesHere
<1> QED BY <1>1, <1>5

-----------------------------------------------------------------------------
(* The lists                                                               *)

(* While the connection is up: either it will be asked for, or what is     *)
(* coming ends in the list the server has.                                 *)
ConversationsComing ==
  conn = "up" /\ server.conversations # {} =>
    \/ Asked("MSG_REQ_CONVERSATIONS", outbox)
    \/ \E i \in DOMAIN inbox : inbox[i].type = "MSG_CONV_CREATED"
    \/ Arrives("MSG_RESP_CONVERSATIONS", app.conversations, net.packet, inbox,
               {in_order(server.conversations)})

ContactsComing ==
  conn = "up" /\ server.contacts # {} =>
    \/ Asked("MSG_REQ_CONTACTS", outbox)
    \/ Arrives("MSG_RESP_CONTACTS", app.contacts, net.packet, inbox,
               {in_order(server.contacts)})

LEMMA StillAsked ==
  ASSUME Shapes, NEW ps \in Seq(Request), Sent(ps), conn' = "up", NEW type, Asked(type, outbox)
  PROVE  Asked(type, outbox')
<1>1. outbox' = outbox \o ps /\ outbox \in Seq(Request)
  BY DEF Sent, Shapes
<1>2. Asked(type, outbox \o ps)
  BY <1>1, AskedMore
<1> QED BY <1>1, <1>2

(* What a reception does to the requests.                                  *)
LEMMA RequestsAtReception ==
  ASSUME Shapes, Receives, conn' = "up"
  PROVE  /\ conn = "up"
         /\ \A type : Asked(type, outbox) => Asked(type, outbox')
         /\ \A type : type # "MSG_REQ_CONVERSATIONS" =>
              (Asked(type, outbox') => Asked(type, outbox))
         /\ \A type, c : type # "MSG_REQ_CONVERSATIONS" =>
              (LastIs(type, c, outbox) => LastIs(type, c, outbox'))
         /\ Head(inbox).type = "MSG_CONV_CREATED" => Asked("MSG_REQ_CONVERSATIONS", outbox')
<1>1. CASE UNCHANGED <<outbox, conn>> /\ Head(inbox).type # "MSG_CONV_CREATED"
  BY <1>1
<1>2. CASE Sent(<<service_req_conversations>>)
  <2> DEFINE r == service_req_conversations
             ps == <<r>>
  <2>1. r \in Request /\ r.type = "MSG_REQ_CONVERSATIONS"
    BY RequestMade DEF service_req_conversations, plain
  <2> HIDE DEF r
  <2>2. ps \in Seq(Request) /\ ps # <<>> /\ Len(ps) = 1 /\ DOMAIN ps = {1} /\ ps[1] = r
    BY <2>1, OneRequest
  <2>3. conn = "up" /\ outbox' = outbox \o ps
    BY <1>2 DEF Sent, r
  <2> HIDE DEF ps
  <2>4. \A type : Asked(type, ps) <=> type = "MSG_REQ_CONVERSATIONS"
    BY <2>1, <2>2 DEF Asked
  <2>5. outbox \in Seq(Request)
    BY DEF Shapes
  <2> QED BY <2>2, <2>3, <2>4, <2>5, AskedMore
<1>3. ~handled_at_once(Head(inbox)) => Head(inbox).type # "MSG_CONV_CREATED"
  BY DEF handled_at_once
<1> QED BY <1>1, <1>2, <1>3 DEF Receives

LEMMA ConversationsComingKept == Shapes /\ Steps /\ ConversationsComing => ConversationsComing'
<1> DEFINE type == "MSG_RESP_CONVERSATIONS"
           ask == "MSG_REQ_CONVERSATIONS"
           created == "MSG_CONV_CREATED"
<1> SUFFICES ASSUME Shapes, Steps, ConversationsComing, conn' = "up", server'.conversations # {}
             PROVE  \/ Asked(ask, outbox')
                    \/ \E i \in DOMAIN inbox' : inbox'[i].type = created
                    \/ Arrives(type, app'.conversations, net'.packet, inbox',
                               {in_order(server'.conversations)})
  BY DEF ConversationsComing
<1>1. type \in Lists4
  BY DEF Lists4
<1>2. CASE UIStep
  <2>1. PICK ps \in Seq(Request) : Sent(ps)
    BY <1>2 DEF UIStep
  <2>2. /\ UNCHANGED <<net, inbox, server>> /\ app'.conversations = app.conversations
        /\ conn = "up"
    BY <1>2, <2>1 DEF UIStep, SameLists, Sent
  <2>3. Asked(ask, outbox) => Asked(ask, outbox')
    BY <2>1, StillAsked
  <2> QED BY <2>2, <2>3 DEF ConversationsComing
<1>3. CASE Receives
  <2>1. /\ conn = "up" /\ (Asked(ask, outbox) => Asked(ask, outbox'))
        /\ Head(inbox).type = created => Asked(ask, outbox')
    BY <1>3, RequestsAtReception
  <2>2. server' = server /\ app'.conversations = app.conversations
    BY <1>3 DEF Receives, Keeps, SameLists
  <2>3. inbox \in Seq(Packet) /\ inbox # <<>> /\ inbox' = Tail(inbox)
    BY <1>3 DEF Receives, Shapes
  <2>4. ASSUME NEW i \in DOMAIN inbox, inbox[i].type = created
        PROVE  Head(inbox).type = created \/ \E j \in DOMAIN inbox' : inbox'[j].type = created
    BY <2>3, <2>4, Rest
  <2> DEFINE list == app.conversations
             Good == {in_order(server.conversations)}
  <2>5. Arrives(type, list, net.packet, inbox, Good) => Arrives(type, list, net'.packet, inbox', Good)
    <3> HIDE DEF type, list, Good
    <3> QED BY <1>1, <1>3, ArrivesTaken
  <2> QED BY <2>1, <2>2, <2>4, <2>5 DEF ConversationsComing
<1>4. CASE Stores
  <2>1. /\ UNCHANGED <<server, inbox, outbox, conn>>
        /\ net.packet.type = type => app'.conversations = net.packet.list
        /\ net.packet.type # type => app'.conversations = app.conversations
    BY <1>4 DEF Stores
  <2> DEFINE list == app.conversations
             list2 == app'.conversations
             Good == {in_order(server.conversations)}
  <2>2. /\ net.packet.type = type => list2 = net.packet.list
        /\ net.packet.type # type => (list \in Good => list2 \in Good)
    BY <2>1
  <2>3. Arrives(type, list, net.packet, inbox, Good) => Arrives(type, list2, net'.packet, inbox', Good)
    <3> HIDE DEF type, list, list2, Good
    <3> QED BY <1>1, <1>4, <2>2, ArrivesStored
  <2> QED BY <2>1, <2>3 DEF ConversationsComing
<1>5. CASE Waits
  <2>1. UNCHANGED <<app, server, outbox, inbox, conn>> /\ net'.packet = net.packet
    BY <1>5 DEF Waits
  <2> QED BY <2>1 DEF ConversationsComing
<1>6. CASE ServerStep
  <2>1. PICK ps \in Seq(Packet) : inbox' = inbox \o ps /\ Tells(ps) /\ (Handles(ps) \/ Pushes(ps))
    BY <1>6 DEF ServerStep
  <2>2. UNCHANGED <<app, net, conn>> /\ server' \in ServerState /\ conn = "up"
    BY <1>6 DEF ServerStep
  <2>3. inbox \in Seq(Packet) /\ outbox \in Seq(Request)
    BY DEF Shapes
  <2> DEFINE Good == {in_order(server'.conversations)}
  <2>4. in_order(server'.conversations) # <<>>
    BY <2>2, Lists
  <2>5. ASSUME NEW k \in DOMAIN ps, ps[k].type = type
        PROVE  carries(ps[k], type) /\ ps[k].list \in Good
    BY <2>1, <2>4, <2>5 DEF Tells, carries
  <2>6. \A k \in DOMAIN ps : carries(ps[k], type) => ps[k].list \in Good
    BY <2>5 DEF carries
  <2>7. ASSUME \/ Arrives(type, app.conversations, net.packet, inbox, Good)
               \/ \E k \in DOMAIN ps : ps[k].type = type
        PROVE  Arrives(type, app'.conversations, net'.packet, inbox', Good)
    <3>1. \/ Arrives(type, app.conversations, net.packet, inbox, Good)
          \/ \E k \in DOMAIN ps : carries(ps[k], type)
      BY <2>5, <2>7
    <3> DEFINE list == app.conversations
               held == net.packet
    <3> HIDE DEF type, Good
    <3>2. Arrives(type, list, held, inbox \o ps, Good)
      <4> HIDE DEF list, held
      <4>1. \/ Arrives(type, list, held, inbox, Good)
            \/ \E k \in DOMAIN ps : carries(ps[k], type)
        BY <3>1 DEF list, held
      <4> QED BY <2>3, <2>6, <4>1, ArrivesMore
    <3> QED BY <2>1, <2>2, <3>2
  <2>8. CASE \E k \in DOMAIN ps : ps[k].type = type
    BY <2>7, <2>8
  <2>9. CASE \E k \in DOMAIN ps : ps[k].type = created
    <3>1. PICK k \in DOMAIN ps : ps[k].type = created
      BY <2>9
    <3>2. Len(inbox) + k \in DOMAIN inbox' /\ inbox'[Len(inbox) + k] = ps[k]
      <4>1. /\ inbox' \in Seq(Packet) /\ Len(inbox') = Len(inbox) + Len(ps)
            /\ Len(inbox) \in Nat /\ Len(ps) \in Nat
            /\ \A i \in 1..Len(ps) : inbox'[Len(inbox) + i] = ps[i]
        BY <2>1, <2>3, Joined
      <4>2. k \in 1..Len(ps)
        OBVIOUS
      <4> QED BY <4>1, <4>2
    <3> QED BY <3>1, <3>2
  <2>10. CASE \A k \in DOMAIN ps : ps[k].type # type /\ ps[k].type # created
    <3>1. server'.conversations = server.conversations
      BY <2>1, <2>10 DEF Tells
    <3>2. CASE Asked(ask, outbox)
      <4>1. CASE outbox' = outbox
        BY <3>2, <4>1
      <4>2. CASE outbox # <<>> /\ outbox' = Tail(outbox) /\ Answers(Head(outbox), ps)
        <5>1. Head(outbox).type = ask => ps = <<conversations_packet(server')>>
          BY <4>2 DEF Answers
        <5>2. conversations_packet(server').type = type
          BY DEF conversations_packet
        <5>3. Head(outbox).type # ask
          <6> SUFFICES ASSUME ps = <<conversations_packet(server')>>
                       PROVE  FALSE
            BY <5>1
          <6>1. 1 \in DOMAIN ps /\ ps[1] = conversations_packet(server')
            OBVIOUS
          <6> QED BY <2>10, <5>2, <6>1
        <5> HIDE DEF ask
        <5> QED BY <2>3, <3>2, <4>2, <5>3, AskedLess
      <4> QED BY <2>1, <4>1, <4>2 DEF Handles, Pushes
    <3>3. CASE \E i \in DOMAIN inbox : inbox[i].type = created
      <4>1. PICK i \in DOMAIN inbox : inbox[i].type = created
        BY <3>3
      <4>2. i \in DOMAIN inbox' /\ inbox'[i] = inbox[i]
        <5>1. /\ inbox' \in Seq(Packet) /\ Len(inbox') = Len(inbox) + Len(ps)
              /\ Len(inbox) \in Nat /\ Len(ps) \in Nat
              /\ \A j \in 1..Len(inbox) : inbox'[j] = inbox[j]
          BY <2>1, <2>3, Joined
        <5>2. i \in 1..Len(inbox)
          BY <2>3
        <5> QED BY <5>1, <5>2
      <4> QED BY <4>1, <4>2
    <3>4. CASE Arrives(type, app.conversations, net.packet, inbox, {in_order(server.conversations)})
      BY <2>7, <3>1, <3>4
    <3> QED BY <2>2, <3>1, <3>2, <3>3, <3>4 DEF ConversationsComing
  <2> QED BY <2>8, <2>9, <2>10
<1>7. CASE Gone
  BY <1>7 DEF Gone
<1> QED BY <1>2, <1>3, <1>4, <1>5, <1>6, <1>7 DEF Steps

LEMMA ContactsComingKept == Shapes /\ Steps /\ ContactsComing => ContactsComing'
<1> DEFINE type == "MSG_RESP_CONTACTS"
           ask == "MSG_REQ_CONTACTS"
<1> SUFFICES ASSUME Shapes, Steps, ContactsComing, conn' = "up", server'.contacts # {}
             PROVE  \/ Asked(ask, outbox')
                    \/ Arrives(type, app'.contacts, net'.packet, inbox',
                               {in_order(server'.contacts)})
  BY DEF ContactsComing
<1>1. type \in Lists4
  BY DEF Lists4
<1>2. CASE UIStep
  <2>1. PICK ps \in Seq(Request) : Sent(ps)
    BY <1>2 DEF UIStep
  <2>2. /\ UNCHANGED <<net, inbox, server>> /\ app'.contacts = app.contacts
        /\ conn = "up"
    BY <1>2, <2>1 DEF UIStep, SameLists, Sent
  <2>3. Asked(ask, outbox) => Asked(ask, outbox')
    BY <2>1, StillAsked
  <2> QED BY <2>2, <2>3 DEF ContactsComing
<1>3. CASE Receives
  <2>1. conn = "up" /\ (Asked(ask, outbox) => Asked(ask, outbox'))
    BY <1>3, RequestsAtReception
  <2>2. server' = server /\ app'.contacts = app.contacts
    BY <1>3 DEF Receives, Keeps, SameLists
  <2> DEFINE list == app.contacts
             Good == {in_order(server.contacts)}
  <2>3. Arrives(type, list, net.packet, inbox, Good) => Arrives(type, list, net'.packet, inbox', Good)
    <3> HIDE DEF type, list, Good
    <3> QED BY <1>1, <1>3, ArrivesTaken
  <2> QED BY <2>1, <2>2, <2>3 DEF ContactsComing
<1>4. CASE Stores
  <2>1. /\ UNCHANGED <<server, inbox, outbox, conn>>
        /\ net.packet.type = type => app'.contacts = net.packet.list
        /\ net.packet.type # type => app'.contacts = app.contacts
    BY <1>4 DEF Stores
  <2> DEFINE list == app.contacts
             list2 == app'.contacts
             Good == {in_order(server.contacts)}
  <2>2. /\ net.packet.type = type => list2 = net.packet.list
        /\ net.packet.type # type => (list \in Good => list2 \in Good)
    BY <2>1
  <2>3. Arrives(type, list, net.packet, inbox, Good) => Arrives(type, list2, net'.packet, inbox', Good)
    <3> HIDE DEF type, list, list2, Good
    <3> QED BY <1>1, <1>4, <2>2, ArrivesStored
  <2> QED BY <2>1, <2>3 DEF ContactsComing
<1>5. CASE Waits
  <2>1. UNCHANGED <<app, server, outbox, inbox, conn>> /\ net'.packet = net.packet
    BY <1>5 DEF Waits
  <2> QED BY <2>1 DEF ContactsComing
<1>6. CASE ServerStep
  <2>1. PICK ps \in Seq(Packet) : inbox' = inbox \o ps /\ Tells(ps) /\ (Handles(ps) \/ Pushes(ps))
    BY <1>6 DEF ServerStep
  <2>2. UNCHANGED <<app, net, conn>> /\ server' \in ServerState /\ conn = "up"
    BY <1>6 DEF ServerStep
  <2>3. inbox \in Seq(Packet) /\ outbox \in Seq(Request)
    BY DEF Shapes
  <2> DEFINE Good == {in_order(server'.contacts)}
  <2>4. in_order(server'.contacts) # <<>>
    BY <2>2, Lists
  <2>5. ASSUME NEW k \in DOMAIN ps, ps[k].type = type
        PROVE  carries(ps[k], type) /\ ps[k].list \in Good
    BY <2>1, <2>4, <2>5 DEF Tells, carries
  <2>6. \A k \in DOMAIN ps : carries(ps[k], type) => ps[k].list \in Good
    BY <2>5 DEF carries
  <2>7. ASSUME \/ Arrives(type, app.contacts, net.packet, inbox, Good)
               \/ \E k \in DOMAIN ps : ps[k].type = type
        PROVE  Arrives(type, app'.contacts, net'.packet, inbox', Good)
    <3>1. \/ Arrives(type, app.contacts, net.packet, inbox, Good)
          \/ \E k \in DOMAIN ps : carries(ps[k], type)
      BY <2>5, <2>7
    <3> DEFINE list == app.contacts
               held == net.packet
    <3> HIDE DEF type, Good
    <3>2. Arrives(type, list, held, inbox \o ps, Good)
      <4> HIDE DEF list, held
      <4>1. \/ Arrives(type, list, held, inbox, Good)
            \/ \E k \in DOMAIN ps : carries(ps[k], type)
        BY <3>1 DEF list, held
      <4> QED BY <2>3, <2>6, <4>1, ArrivesMore
    <3> QED BY <2>1, <2>2, <3>2
  <2>8. CASE \E k \in DOMAIN ps : ps[k].type = type
    BY <2>7, <2>8
  <2>9. CASE \A k \in DOMAIN ps : ps[k].type # type
    <3>1. server'.contacts = server.contacts
      BY <2>1, <2>9 DEF Tells
    <3>2. CASE Asked(ask, outbox)
      <4>1. CASE outbox' = outbox
        BY <3>2, <4>1
      <4>2. CASE outbox # <<>> /\ outbox' = Tail(outbox) /\ Answers(Head(outbox), ps)
        <5>1. Head(outbox).type = ask => ps = <<contacts_packet(server')>>
          BY <4>2 DEF Answers
        <5>2. contacts_packet(server').type = type
          BY DEF contacts_packet
        <5>3. Head(outbox).type # ask
          <6> SUFFICES ASSUME ps = <<contacts_packet(server')>>
                       PROVE  FALSE
            BY <5>1
          <6>1. 1 \in DOMAIN ps /\ ps[1] = contacts_packet(server')
            OBVIOUS
          <6> QED BY <2>9, <5>2, <6>1
        <5> HIDE DEF ask
        <5> QED BY <2>3, <3>2, <4>2, <5>3, AskedLess
      <4> QED BY <2>1, <4>1, <4>2 DEF Handles, Pushes
    <3>3. CASE Arrives(type, app.contacts, net.packet, inbox, {in_order(server.contacts)})
      BY <2>7, <3>1, <3>3
    <3> QED BY <2>2, <3>1, <3>2, <3>3 DEF ContactsComing
  <2> QED BY <2>8, <2>9
<1>7. CASE Gone
  BY <1>7 DEF Gone
<1> QED BY <1>2, <1>3, <1>4, <1>5, <1>6, <1>7 DEF Steps

LEMMA ComingAtLogin == Init => ConversationsComing /\ ContactsComing
<1> SUFFICES ASSUME NEW s \in Sessions, ContextInit(s.keys), ServerInit(s)
             PROVE  Asked("MSG_REQ_CONVERSATIONS", outbox) /\ Asked("MSG_REQ_CONTACTS", outbox)
  BY DEF Init, ConversationsComing, ContactsComing
<1>1. /\ DOMAIN outbox = 1..3 /\ outbox[1].type = "MSG_REQ_CONTACTS"
      /\ outbox[3].type = "MSG_REQ_CONVERSATIONS"
  BY AtLogin
<1> QED BY <1>1 DEF Asked

(* Once all is settled, the lists are here.                                *)
LEMMA SettledLists ==
  ASSUME Settled, NEW type, type # "none", NEW list, NEW Good,
         Shapes, Arrives(type, list, net.packet, inbox, Good)
  PROVE  list \in Good
<1>1. inbox = <<>> /\ net.packet = NoPacket
  BY DEF Settled, Shapes, AtHand
<1>2. ~carries(net.packet, type)
  BY <1>1, NothingHeld
<1>3. DOMAIN inbox = {}
  BY <1>1
<1> QED BY <1>2, <1>3 DEF Arrives

(* Whatever others did, and whichever answers and pushes crossed: once all *)
(* has arrived, the conversations and the contacts are those of the server.*)
THEOREM ListsAreCurrent == Spec => []ConversationsCurrent
<1> DEFINE Inv == Shapes /\ ConversationsComing /\ ContactsComing
<1>1. Init => Inv
  BY InitShapes, ComingAtLogin
<1>2. Inv /\ [Next]_vars => Inv'
  <2>1. CASE UNCHANGED vars
    BY <2>1, Stutter DEF vars, ConversationsComing, ContactsComing
  <2> QED BY <2>1, NextSteps, ShapesKept, ConversationsComingKept, ContactsComingKept
<1>3. Inv => ConversationsCurrent
  <2> SUFFICES ASSUME Inv, Settled
               PROVE  /\ CacheCurrent("conversations", server.conversations)
                      /\ CacheCurrent("contacts", server.contacts)
    BY DEF ConversationsCurrent
  <2>1. conn = "up" /\ outbox = <<>> /\ inbox = <<>>
    BY DEF Settled
  <2>2. DOMAIN outbox = {} /\ DOMAIN inbox = {}
    BY <2>1
  <2>3. ASSUME server.conversations # {}
        PROVE  app["conversations"] = in_order(server.conversations)
    <3>1. Arrives("MSG_RESP_CONVERSATIONS", app.conversations, net.packet, inbox,
                  {in_order(server.conversations)})
      BY <2>1, <2>2, <2>3 DEF ConversationsComing, Asked
    <3>2. app.conversations \in {in_order(server.conversations)}
      BY <3>1, SettledLists
    <3> QED BY <3>2
  <2>4. ASSUME server.contacts # {}
        PROVE  app["contacts"] = in_order(server.contacts)
    <3>1. Arrives("MSG_RESP_CONTACTS", app.contacts, net.packet, inbox,
                  {in_order(server.contacts)})
      BY <2>1, <2>2, <2>4 DEF ContactsComing, Asked
    <3>2. app.contacts \in {in_order(server.contacts)}
      BY <3>1, SettledLists
    <3> QED BY <3>2
  <2> QED BY <2>3, <2>4 DEF CacheCurrent
<1> QED BY <1>1, <1>2, <1>3, PTL DEF Spec

-----------------------------------------------------------------------------
(* Texts                                                                   *)

(* A text that has been written: those others are still to write have the  *)
(* ids 1 to texts, those of this user the ones below -written.             *)
Known(l, texts, written) == l.id \notin 1..texts /\ -l.id <= written

KnownPacket(k, texts, written) ==
  /\ k.type = "MSG_RESP_HISTORY" =>
       Len(k.list) <= 1 /\ \A i \in DOMAIN k.list : Known(k.list[i], texts, written)
  /\ k.type = "MSG_RTE_TEXT" => k.text.id > 0 /\ Known(k.text, texts, written)

KnownRequest(r, texts, written) ==
  r.type = "MSG_SEND_TEXT" => r.text.id < 0 /\ Known(r.text, texts, written)

LogsKnown(log, texts, written) ==
  \A c \in Convs : \A i \in DOMAIN log[c] :
    log[c][i].conv_id = c /\ Known(log[c][i], texts, written)

TextsKnown ==
  /\ LogsKnown(server.log, server.texts, ui.written)
  /\ conn = "up" =>
       \A i \in DOMAIN outbox : KnownRequest(outbox[i], server.texts, ui.written)
  /\ \A i \in DOMAIN app.chat_history : Known(app.chat_history[i], server.texts, ui.written)
  /\ KnownPacket(net.packet, server.texts, ui.written)
  /\ \A i \in DOMAIN inbox : KnownPacket(inbox[i], server.texts, ui.written)

LEMMA KnownLater ==
  ASSUME NEW l \in Line, NEW m \in Nat, NEW n \in 0..m, NEW v \in Nat, NEW w \in Nat, v <= w,
         Known(l, m, v)
  PROVE  Known(l, n, w)
BY DEF Known, Line

LEMMA PacketKnownLater ==
  ASSUME NEW k \in Packet \cup {NoPacket}, NEW m \in Nat, NEW n \in 0..m, NEW v \in Nat, NEW w \in Nat,
         v <= w, KnownPacket(k, m, v)
  PROVE  KnownPacket(k, n, w)
<1>1. CASE k.type = "MSG_RESP_HISTORY"
  <2>1. k.list \in Seq(Line)
    BY <1>1, PacketParts DEF NoPacket
  <2>2. \A i \in DOMAIN k.list : k.list[i] \in Line
    BY <2>1
  <2> QED BY <1>1, <2>2, KnownLater DEF KnownPacket
<1>2. CASE k.type = "MSG_RTE_TEXT"
  <2>1. k.text \in Line
    BY <1>2, PacketParts DEF NoPacket
  <2> QED BY <1>2, <2>1, KnownLater DEF KnownPacket
<1> QED BY <1>1, <1>2 DEF KnownPacket

LEMMA LogsKnownLater ==
  ASSUME NEW log \in [Convs -> Seq(Line)], NEW m \in Nat, NEW n \in 0..m, NEW v \in Nat, NEW w \in Nat,
         v <= w, LogsKnown(log, m, v)
  PROVE  LogsKnown(log, n, w)
<1> SUFFICES ASSUME NEW c \in Convs, NEW i \in DOMAIN log[c]
             PROVE  log[c][i].conv_id = c /\ Known(log[c][i], n, w)
  BY DEF LogsKnown
<1>1. log[c] \in Seq(Line)
  OBVIOUS
<1>2. log[c][i] \in Line
  BY <1>1
<1>3. log[c][i].conv_id = c /\ Known(log[c][i], m, v)
  BY DEF LogsKnown
<1> QED BY <1>2, <1>3, KnownLater

LEMMA RequestKnownLater ==
  ASSUME NEW r \in Request, NEW m \in Nat, NEW n \in 0..m, NEW v \in Nat, NEW w \in Nat,
         v <= w, KnownRequest(r, m, v)
  PROVE  KnownRequest(r, n, w)
<1>1. r.type = "MSG_SEND_TEXT" => r.text \in Line
  BY RequestParts
<1> QED BY <1>1, KnownLater DEF KnownRequest

(* Counters                                                                *)
LEMMA Written ==
  ASSUME Shapes
  PROVE  server.texts \in Nat /\ ui.written \in Nat /\ server.log \in [Convs -> Seq(Line)]
         /\ net.packet \in Packet \cup {NoPacket} /\ app.chat_history \in Seq(Line)
         /\ app.current_conv_id \in AnyConv /\ inbox \in Seq(Packet) /\ outbox \in Seq(Request)
<1>1. ui.written \in 0..MaxTexts
  BY DEF Shapes, UIState
<1>2. net.packet \in Packet \cup {NoPacket}
  BY DEF Shapes, NetState
<1>3. server.texts \in Nat /\ server.log \in [Convs -> Seq(Line)]
  BY DEF Shapes, ServerState
<1>4. app.chat_history \in Seq(Line) /\ app.current_conv_id \in AnyConv
  BY DEF Shapes, AppState
<1>5. ui.written \in Nat
  BY <1>1, AnyElements
<1> QED BY <1>2, <1>3, <1>4, <1>5 DEF Shapes

(* All that is known stays known when texts are written and others arrive. *)
LEMMA KnownStays ==
  ASSUME Shapes, TextsKnown, NEW n \in 0..server.texts, NEW w \in Nat, ui.written <= w
  PROVE  /\ LogsKnown(server.log, n, w)
         /\ conn = "up" => \A i \in DOMAIN outbox : KnownRequest(outbox[i], n, w)
         /\ \A i \in DOMAIN app.chat_history : Known(app.chat_history[i], n, w)
         /\ KnownPacket(net.packet, n, w)
         /\ \A i \in DOMAIN inbox : KnownPacket(inbox[i], n, w)
<1> DEFINE m == server.texts
           v == ui.written
<1>1. m \in Nat /\ v \in Nat /\ v <= w /\ n \in 0..m
  BY Written
<1>2. /\ server.log \in [Convs -> Seq(Line)]
      /\ net.packet \in Packet \cup {NoPacket} /\ app.chat_history \in Seq(Line)
      /\ inbox \in Seq(Packet) /\ outbox \in Seq(Request)
  BY Written
<1>3. /\ LogsKnown(server.log, m, v)
      /\ conn = "up" => \A i \in DOMAIN outbox : KnownRequest(outbox[i], m, v)
      /\ \A i \in DOMAIN app.chat_history : Known(app.chat_history[i], m, v)
      /\ KnownPacket(net.packet, m, v)
      /\ \A i \in DOMAIN inbox : KnownPacket(inbox[i], m, v)
  BY DEF TextsKnown
<1> HIDE DEF m, v
<1>4. LogsKnown(server.log, n, w)
  <2> DEFINE log == server.log
  <2>1. log \in [Convs -> Seq(Line)] /\ LogsKnown(log, m, v)
    BY <1>2, <1>3
  <2> HIDE DEF log
  <2>2. LogsKnown(log, n, w)
    BY <1>1, <2>1, LogsKnownLater
  <2> QED BY <2>2 DEF log
<1>5. ASSUME conn = "up", NEW i \in DOMAIN outbox
      PROVE  KnownRequest(outbox[i], n, w)
  <2>1. outbox[i] \in Request /\ KnownRequest(outbox[i], m, v)
    BY <1>2, <1>3, <1>5
  <2> QED BY <1>1, <2>1, RequestKnownLater
<1>6. ASSUME NEW i \in DOMAIN app.chat_history
      PROVE  Known(app.chat_history[i], n, w)
  <2>1. app.chat_history[i] \in Line /\ Known(app.chat_history[i], m, v)
    BY <1>2, <1>3
  <2> QED BY <1>1, <2>1, KnownLater
<1>7. KnownPacket(net.packet, n, w)
  BY <1>1, <1>2, <1>3, PacketKnownLater
<1>8. ASSUME NEW i \in DOMAIN inbox
      PROVE  KnownPacket(inbox[i], n, w)
  <2>1. inbox[i] \in Packet /\ KnownPacket(inbox[i], m, v)
    BY <1>2, <1>3
  <2> QED BY <1>1, <2>1, PacketKnownLater
<1> QED BY <1>4, <1>5, <1>6, <1>7, <1>8

(* Own texts are written, and sent, with ids of their own.                 *)
LEMMA TextsKnownUI == Shapes /\ TextsKnown /\ UIStep => TextsKnown'
<1> SUFFICES ASSUME Shapes, TextsKnown, UIStep
             PROVE  TextsKnown'
  OBVIOUS
<1>1. PICK ps \in Seq(Request) : Sent(ps) /\ ChatStep(ps)
  BY DEF UIStep
<1>2. UNCHANGED <<net, inbox, server>> /\ ui' \in UIState
  BY DEF UIStep
<1> DEFINE n == server.texts
           w == ui'.written
<1>3. n \in Nat /\ ui.written \in Nat /\ n \in 0..server.texts
  BY Written
<1>4. w = ui.written \/ (Writes(ps) /\ w = ui.written + 1)
  BY <1>1 DEF ChatStep, Elsewhere, Enters, Opens, Shows, Writes, Appends
<1>5. w \in Nat /\ ui.written <= w
  BY <1>3, <1>4
<1> HIDE DEF n, w
<1>6. /\ LogsKnown(server.log, n, w)
      /\ conn = "up" => \A i \in DOMAIN outbox : KnownRequest(outbox[i], n, w)
      /\ \A i \in DOMAIN app.chat_history : Known(app.chat_history[i], n, w)
      /\ KnownPacket(net.packet, n, w)
      /\ \A i \in DOMAIN inbox : KnownPacket(inbox[i], n, w)
  BY <1>3, <1>5, KnownStays
<1>7. \A v \in Nat : Known(own_text(v), n, v)
  BY <1>3 DEF Known, own_text
<1>8. \A i \in DOMAIN app'.chat_history : Known(app'.chat_history[i], n, w)
  <2>1. CASE app'.chat_history = app.chat_history
    BY <1>6, <2>1
  <2>2. CASE Opens(ps)
    BY <2>2 DEF Opens
  <2>3. CASE Appends(ps)
    <3> DEFINE h == app.chat_history
               x == own_text(ui.written)
    <3>1. h \in Seq(Line) /\ x \in Line /\ app'.chat_history = Append(h, x) /\ w = ui.written
      <4>1. app.current_conv_id \in AnyConv /\ app.chat_history \in Seq(Line)
        BY Written
      <4> QED BY <1>3, <2>3, <4>1 DEF Appends, own_text, Line, w
    <3>2. Known(x, n, w)
      BY <1>3, <1>7, <3>1
    <3>3. \A i \in DOMAIN h : Known(h[i], n, w)
      BY <1>6
    <3> HIDE DEF h, x
    <3> QED BY <3>1, <3>2, <3>3, Appended
  <2> QED BY <1>1, <2>1, <2>2, <2>3
          DEF ChatStep, Elsewhere, Enters, Shows, Writes, SameChat
<1>9. ASSUME conn' = "up", NEW i \in DOMAIN outbox'
      PROVE  KnownRequest(outbox'[i], n, w)
  <2>1. conn = "up" /\ outbox' = outbox \o ps /\ outbox \in Seq(Request)
    BY <1>1, <1>9, Written DEF Sent
  <2>2. ASSUME NEW k \in DOMAIN ps
        PROVE  KnownRequest(ps[k], n, w)
    <3>1. CASE Writes(ps)
      <4> DEFINE x == own_text(ui.written + 1)
                 r == service_send_text(x)
      <4>1. ps = <<r>> /\ w = ui.written + 1
        BY <3>1 DEF Writes, w
      <4>2. r.text = x /\ x.id < 0 /\ Known(x, n, w)
        BY <1>3, <1>7, <4>1 DEF service_send_text, own_text
      <4> HIDE DEF x, r
      <4>3. ps[k] = r
        BY <4>1
      <4> QED BY <4>2, <4>3 DEF KnownRequest
    <3>2. CASE Shows(ps)
      <4> DEFINE r == service_req_history(app.current_conv_id)
      <4>1. ps = <<r>> /\ r.type = "MSG_REQ_HISTORY"
        BY <3>2 DEF Shows, service_req_history
      <4> HIDE DEF r
      <4>2. ps[k] = r
        BY <4>1
      <4> QED BY <4>1, <4>2 DEF KnownRequest
    <3>3. CASE ps[k].type # "MSG_SEND_TEXT"
      BY <3>3 DEF KnownRequest
    <3>4. CASE ps = <<>>
      BY <3>4
    <3> QED BY <1>1, <3>1, <3>2, <3>3, <3>4 DEF ChatStep, Elsewhere, Enters, Opens, Appends
  <2>3. \/ i \in DOMAIN outbox /\ (outbox \o ps)[i] = outbox[i]
        \/ \E k \in DOMAIN ps : (outbox \o ps)[i] = ps[k]
    BY <2>1, Joined
  <2> QED BY <1>6, <2>1, <2>2, <2>3
<1> QED BY <1>2, <1>6, <1>8, <1>9 DEF TextsKnown, n, w

LEMMA TextsKnownNet ==
  Shapes /\ TextsKnown /\ (Receives \/ Stores \/ Waits \/ Gone) => TextsKnown'
<1> SUFFICES ASSUME Shapes, TextsKnown, Receives \/ Stores \/ Waits \/ Gone
             PROVE  TextsKnown'
  OBVIOUS
<1> DEFINE n == server.texts
           w == ui.written
<1>1. /\ LogsKnown(server.log, n, w)
      /\ conn = "up" => \A i \in DOMAIN outbox : KnownRequest(outbox[i], n, w)
      /\ \A i \in DOMAIN app.chat_history : Known(app.chat_history[i], n, w)
      /\ KnownPacket(net.packet, n, w)
      /\ \A i \in DOMAIN inbox : KnownPacket(inbox[i], n, w)
  BY DEF TextsKnown
<1>2. UNCHANGED <<server, ui>>
  BY DEF Receives, Stores, Waits, Gone
<1>3. inbox \in Seq(Packet) /\ outbox \in Seq(Request) /\ app.chat_history \in Seq(Line)
      /\ net.packet \in Packet \cup {NoPacket}
  BY Written
<1>4. \A m, v : KnownPacket(NoPacket, m, v)
  BY DEF KnownPacket, NoPacket
<1> HIDE DEF n, w
<1> SUFFICES
      /\ conn' = "up" => \A i \in DOMAIN outbox' : KnownRequest(outbox'[i], n, w)
      /\ \A i \in DOMAIN app'.chat_history : Known(app'.chat_history[i], n, w)
      /\ KnownPacket(net'.packet, n, w)
      /\ \A i \in DOMAIN inbox' : KnownPacket(inbox'[i], n, w)
  BY <1>1, <1>2 DEF TextsKnown, n, w
<1>5. CASE Receives
  <2>1. inbox # <<>> /\ inbox' = Tail(inbox) /\ app'.chat_history = app.chat_history
    BY <1>5 DEF Receives, Keeps, SameChat
  <2>2. Head(inbox) = inbox[1] /\ 1 \in DOMAIN inbox
        /\ \A i \in DOMAIN inbox' : i + 1 \in DOMAIN inbox /\ inbox'[i] = inbox[i + 1]
    BY <1>3, <2>1, Rest
  <2>3. net'.packet = Head(inbox) \/ net'.packet = net.packet
    BY <1>5 DEF Receives
  <2>4. ASSUME conn' = "up", NEW i \in DOMAIN outbox'
        PROVE  KnownRequest(outbox'[i], n, w)
    <3>1. CASE UNCHANGED <<outbox, conn>>
      BY <1>1, <2>4, <3>1
    <3>2. CASE Sent(<<service_req_conversations>>)
      <4> DEFINE r == service_req_conversations
                 ps == <<r>>
      <4>1. r \in Request /\ r.type = "MSG_REQ_CONVERSATIONS"
        BY RequestMade DEF service_req_conversations, plain
      <4> HIDE DEF r
      <4>2. ps \in Seq(Request) /\ DOMAIN ps = {1} /\ ps[1] = r
        BY <4>1, OneRequest
      <4>3. outbox' = outbox \o ps /\ conn = "up"
        BY <2>4, <3>2 DEF Sent, r
      <4> HIDE DEF ps
      <4>4. \/ i \in DOMAIN outbox /\ (outbox \o ps)[i] = outbox[i]
            \/ \E k \in DOMAIN ps : (outbox \o ps)[i] = ps[k]
        <5>1. i \in DOMAIN (outbox \o ps)
          BY <4>3
        <5> QED BY <1>3, <4>2, <5>1, Joined
      <4>5. KnownRequest(r, n, w)
        BY <4>1 DEF KnownRequest
      <4> QED BY <1>1, <4>2, <4>3, <4>4, <4>5
    <3> QED BY <1>5, <3>1, <3>2 DEF Receives
  <2> QED BY <1>1, <2>1, <2>2, <2>3, <2>4
<1>6. CASE Stores
  <2>1. UNCHANGED <<inbox, outbox, conn>> /\ net'.packet = NoPacket /\ net.packet \in Packet
    BY <1>6 DEF Stores
  <2>2. \A i \in DOMAIN app'.chat_history : Known(app'.chat_history[i], n, w)
    <3>1. CASE net.packet.type = "MSG_RESP_HISTORY" /\ app'.chat_history = net.packet.list
      BY <1>1, <3>1 DEF KnownPacket
    <3>2. CASE app'.chat_history = app.chat_history
      BY <1>1, <3>2
    <3>3. CASE /\ net.packet.type = "MSG_RTE_TEXT"
               /\ app'.chat_history = Append(app.chat_history, net.packet.text)
      <4> DEFINE h == app.chat_history
                 x == net.packet.text
      <4>1. h \in Seq(Line) /\ x \in Line /\ app'.chat_history = Append(h, x)
        BY <1>3, <2>1, <3>3, PacketParts
      <4>2. Known(x, n, w) /\ \A i \in DOMAIN h : Known(h[i], n, w)
        BY <1>1, <3>3 DEF KnownPacket
      <4> HIDE DEF h, x
      <4> QED BY <4>1, <4>2, Appended
    <3> QED BY <1>6, <3>1, <3>2, <3>3 DEF Stores
  <2> QED BY <1>1, <1>4, <2>1, <2>2
<1>7. CASE Waits
  <2>1. /\ UNCHANGED <<app, outbox>>
        /\ inbox' = inbox \/ (inbox' = <<>> /\ DOMAIN inbox' = {})
        /\ net'.packet = net.packet \/ net'.packet = NoPacket
        /\ conn' = "up" => conn = "up"
    BY <1>7 DEF Waits
  <2> QED BY <1>1, <1>4, <2>1
<1>8. CASE Gone
  <2>1. UNCHANGED <<app, net>> /\ conn' = "down"
        /\ \E k \in 0..Len(inbox) : inbox' = SubSeq(inbox, 1, k)
    BY <1>8 DEF Gone
  <2>2. \A i \in DOMAIN inbox' : i \in DOMAIN inbox /\ inbox'[i] = inbox[i]
    BY <1>3, <2>1, Beginning
  <2> QED BY <1>1, <2>1, <2>2
<1> QED BY <1>5, <1>6, <1>7, <1>8

LEMMA TextsKnownServer == Shapes /\ TextsKnown /\ conn = "up" /\ ServerStep => TextsKnown'
<1> SUFFICES ASSUME Shapes, TextsKnown, conn = "up", ServerStep
             PROVE  TextsKnown'
  OBVIOUS
<1>1. PICK ps \in Seq(Packet) : inbox' = inbox \o ps /\ (Handles(ps) \/ Pushes(ps))
  BY DEF ServerStep
<1>2. UNCHANGED <<app, ui, net, conn>> /\ server' \in ServerState
  BY DEF ServerStep
<1> DEFINE n == server'.texts
           w == ui.written
           t == server.texts
<1>3. /\ n \in Nat /\ w \in Nat /\ t \in Nat /\ server'.log \in [Convs -> Seq(Line)]
      /\ server.log \in [Convs -> Seq(Line)]
      /\ app.current_conv_id \in AnyConv /\ inbox \in Seq(Packet) /\ outbox \in Seq(Request)
  BY <1>2, Written DEF ServerState
<1>4. /\ n \in 0..t
      /\ t # n => n = t - 1 /\ t > 0
  BY <1>1, <1>3 DEF Handles, Pushes, Erases
<1>5. /\ LogsKnown(server.log, n, w)
      /\ conn = "up" => \A i \in DOMAIN outbox : KnownRequest(outbox[i], n, w)
      /\ \A i \in DOMAIN app.chat_history : Known(app.chat_history[i], n, w)
      /\ KnownPacket(net.packet, n, w)
      /\ \A i \in DOMAIN inbox : KnownPacket(inbox[i], n, w)
  <2>1. n \in 0..server.texts /\ w \in Nat /\ ui.written <= w
    BY <1>3, <1>4
  <2> HIDE DEF n, w
  <2> QED BY <2>1, KnownStays
<1>6. ASSUME conn = "up", NEW i \in DOMAIN outbox'
      PROVE  KnownRequest(outbox'[i], n, w)
  <2>1. CASE outbox' = outbox
    BY <1>5, <1>6, <2>1
  <2>2. CASE outbox # <<>> /\ outbox' = Tail(outbox)
    <3>1. i + 1 \in DOMAIN outbox /\ outbox'[i] = outbox[i + 1]
      BY <1>3, <1>6, <2>2, Rest
    <3> QED BY <1>5, <1>6, <3>1
  <2> QED BY <1>1, <2>1, <2>2 DEF Handles, Pushes
<1> HIDE DEF n, w, t
<1>7. ASSUME NEW text \in Line, Logs(text), Known(text, n, w)
      PROVE  LogsKnown(server'.log, n, w)
  <2> SUFFICES ASSUME NEW c \in Convs, NEW i \in DOMAIN server'.log[c]
               PROVE  server'.log[c][i].conv_id = c /\ Known(server'.log[c][i], n, w)
    BY DEF LogsKnown
  <2> DEFINE old == server.log[c]
             new == server'.log[c]
  <2>1. old \in Seq(Line) /\ \A k \in DOMAIN old : old[k].conv_id = c /\ Known(old[k], n, w)
    BY <1>3, <1>5 DEF LogsKnown
  <2>2. new = IF c = text.conv_id THEN Append(old, text) ELSE old
    BY <1>7 DEF Logs
  <2>3. i \in DOMAIN new
    OBVIOUS
  <2> HIDE DEF old, new
  <2>4. CASE c = text.conv_id
    <3>1. new = Append(old, text)
      BY <2>2, <2>4
    <3>2. \/ i \in DOMAIN old /\ Append(old, text)[i] = old[i]
          \/ Append(old, text)[i] = text
      BY <2>1, <2>3, <3>1, Appended
    <3>3. new[i].conv_id = c /\ Known(new[i], n, w)
      BY <1>7, <2>1, <2>4, <3>1, <3>2
    <3> QED BY <3>3 DEF new
  <2>5. CASE c # text.conv_id
    <3>1. new[i].conv_id = c /\ Known(new[i], n, w)
      BY <2>1, <2>2, <2>3, <2>5
    <3> QED BY <3>1 DEF new
  <2> QED BY <2>4, <2>5
<1>8. ASSUME \A c \in Convs : server'.log[c] = server.log[c] \/ server'.log[c] = <<>>
      PROVE  LogsKnown(server'.log, n, w)
  <2> SUFFICES ASSUME NEW c \in Convs, NEW i \in DOMAIN server'.log[c]
               PROVE  server'.log[c][i].conv_id = c /\ Known(server'.log[c][i], n, w)
    BY DEF LogsKnown
  <2>1. CASE server'.log[c] = server.log[c]
    BY <1>5, <2>1 DEF LogsKnown
  <2>2. CASE server'.log[c] = <<>>
    BY <2>2
  <2> QED BY <1>8, <2>1, <2>2
<1>9. ASSUME NEW k \in DOMAIN ps, ps[k].type = "MSG_RESP_HISTORY"
      PROVE  KnownPacket(ps[k], n, w)
  <2> DEFINE r == Head(outbox)
  <2>1. /\ outbox # <<>> /\ r.type = "MSG_REQ_HISTORY" /\ ps = <<history_packet(server, r.conv_id)>>
    BY <1>1, <1>9 DEF Handles, Pushes, Answers, None
  <2>2. r \in Request /\ server \in ServerState
    BY <1>3, <2>1, Rest DEF Shapes
  <2>3. r.conv_id \in AnyConv
    BY <2>1, <2>2, RequestParts
  <2> DEFINE c == r.conv_id
             p == history_packet(server, c)
  <2>4. \/ p.list = <<>>
        \/ c \in Convs /\ server.log[c] # <<>> /\ p.list = <<server.log[c][1]>>
    BY <2>2, <2>3, HistoryPacket
  <2>5. ps[k] = p
    BY <2>1
  <2> HIDE DEF c, p
  <2>6. CASE p.list = <<>>
    <3>1. Len(p.list) <= 1 /\ \A i \in DOMAIN p.list : Known(p.list[i], n, w)
      BY <2>6
    <3> QED BY <1>9, <2>5, <3>1 DEF KnownPacket
  <2>7. CASE c \in Convs /\ server.log[c] # <<>> /\ p.list = <<server.log[c][1]>>
    <3> DEFINE x == server.log[c][1]
    <3>1. server.log[c] \in Seq(Line) /\ 1 \in DOMAIN server.log[c]
      <4>1. server.log[c] \in Seq(Line)
        BY <1>3, <2>7
      <4> QED BY <2>7, <4>1, Rest
    <3>2. Known(x, n, w)
      BY <1>5, <2>7, <3>1 DEF LogsKnown
    <3> HIDE DEF x
    <3>3. Len(<<x>>) <= 1 /\ \A i \in DOMAIN <<x>> : Known(<<x>>[i], n, w)
      BY <3>2
    <3>4. p.list = <<x>>
      BY <2>7 DEF x
    <3> QED BY <1>9, <2>5, <3>3, <3>4 DEF KnownPacket
  <2> QED BY <2>4, <2>6, <2>7
<1>10. /\ LogsKnown(server'.log, n, w)
       /\ \A k \in DOMAIN ps : KnownPacket(ps[k], n, w)
  <2>1. CASE Erases(ps)
    <3>1. \A k \in DOMAIN ps : ps[k].type # "MSG_RTE_TEXT"
      BY <2>1 DEF Erases, None
    <3>2. \A k \in DOMAIN ps : KnownPacket(ps[k], n, w)
      BY <1>9, <3>1 DEF KnownPacket
    <3> QED BY <1>8, <2>1, <3>2 DEF Erases
  <2>2. CASE /\ Handles(ps) /\ Head(outbox).type = "MSG_SEND_TEXT" /\ Logs(Head(outbox).text)
             /\ server'.texts = server.texts /\ ps = <<>>
    <3> DEFINE r == Head(outbox)
    <3>1. r \in Request /\ r = outbox[1] /\ 1 \in DOMAIN outbox /\ conn = "up"
      <4>1. outbox # <<>>
        BY <2>2 DEF Handles
      <4> QED BY <1>3, <4>1, Rest
    <3>2. r.text \in Line /\ Known(r.text, n, w)
      BY <1>5, <2>2, <3>1, RequestParts DEF KnownRequest
    <3>3. DOMAIN ps = {}
      BY <2>2
    <3> QED BY <1>7, <2>2, <3>2, <3>3
  <2>3. CASE \E text \in Line :
               /\ text.id = server.texts /\ server.texts > 0 /\ Logs(text)
               /\ server'.texts = server.texts - 1
               /\ ps = <<[type |-> "MSG_RTE_TEXT", text |-> text]>>
    <3>1. PICK text \in Line :
               /\ text.id = server.texts /\ server.texts > 0 /\ Logs(text)
               /\ server'.texts = server.texts - 1
               /\ ps = <<[type |-> "MSG_RTE_TEXT", text |-> text]>>
      BY <2>3
    <3>2. Known(text, n, w) /\ text.id > 0
      BY <1>3, <3>1 DEF Known, n, t
    <3> DEFINE k == [type |-> "MSG_RTE_TEXT", text |-> text]
    <3>3. ps = <<k>> /\ k.type = "MSG_RTE_TEXT" /\ k.text = text
      BY <3>1
    <3> HIDE DEF k
    <3>4. KnownPacket(k, n, w)
      BY <3>2, <3>3 DEF KnownPacket
    <3>5. \A i \in DOMAIN ps : KnownPacket(ps[i], n, w)
      BY <3>3, <3>4
    <3> QED BY <1>7, <3>1, <3>2, <3>5
  <2> QED BY <1>1, <2>1, <2>2, <2>3 DEF Handles, Pushes
<1>11. ASSUME NEW i \in DOMAIN inbox'
       PROVE  KnownPacket(inbox'[i], n, w)
  <2>1. \/ i \in DOMAIN inbox /\ (inbox \o ps)[i] = inbox[i]
        \/ \E k \in DOMAIN ps : (inbox \o ps)[i] = ps[k]
    BY <1>1, <1>3, <1>11, Joined
  <2> QED BY <1>1, <1>5, <1>10, <2>1
<1> QED BY <1>2, <1>5, <1>6, <1>10, <1>11 DEF TextsKnown, n, w

LEMMA TextsKnownKept == Shapes /\ Steps /\ TextsKnown => TextsKnown'
BY TextsKnownUI, TextsKnownNet, TextsKnownServer DEF Steps

LEMMA TextsKnownAtLogin == Init => TextsKnown
<1> SUFFICES ASSUME NEW s \in Sessions, ContextInit(s.keys), ServerInit(s)
             PROVE  TextsKnown
  BY DEF Init
<1>1. Shapes
  BY InitShapes DEF Init
<1>2. server.texts \in Nat /\ ui.written = 0
  BY <1>1, AtLogin, Written
<1>3. ASSUME NEW c \in Convs, NEW i \in DOMAIN server.log[c]
      PROVE  server.log[c][i].conv_id = c /\ Known(server.log[c][i], server.texts, ui.written)
  <2> DEFINE x == [conv_id |-> c, id |-> 0]
  <2>1. server.log[c] = <<x>> \/ server.log[c] = <<>>
    BY AtLogin
  <2>2. x.conv_id = c /\ x.id = 0
    OBVIOUS
  <2> HIDE DEF x
  <2>3. server.log[c][i] = x
    BY <2>1
  <2> QED BY <1>2, <2>2, <2>3 DEF Known
<1>4. ASSUME NEW i \in DOMAIN outbox
      PROVE  outbox[i].type # "MSG_SEND_TEXT"
  <2>1. /\ i \in 1..3 /\ outbox[1].type = "MSG_REQ_CONTACTS" /\ outbox[2].type = "MSG_GET_REQUESTS"
        /\ outbox[3].type = "MSG_REQ_CONVERSATIONS"
    BY AtLogin
  <2>2. i = 1 \/ i = 2 \/ i = 3
    BY <2>1
  <2> QED BY <2>1, <2>2
<1>5. inbox = <<>> /\ net.packet = NoPacket /\ app.chat_history = <<>>
  BY AtLogin DEF app_init
<1> QED BY <1>3, <1>4, <1>5 DEF TextsKnown, LogsKnown, KnownRequest, KnownPacket, NoPacket

-----------------------------------------------------------------------------
(* The chat                                                                *)

LinesOf(c) == {h \in Seq(Line) : \A i \in DOMAIN h : h[i].conv_id = c}

(* While the connection is up and a chat with messages is on the screen:   *)
(* the last history asked for is its own, and if it has been answered, what*)
(* is coming ends in lines of its own.                                     *)
ChatComing ==
  LET c == app.current_conv_id
  IN  conn = "up" /\ ui.pc \notin {"open", "show"} /\ c \in HadMessages =>
        /\ LastIs("MSG_REQ_HISTORY", c, outbox)
        /\ ~Asked("MSG_REQ_HISTORY", outbox) =>
             Arrives("MSG_RESP_HISTORY", app.chat_history, net.packet, inbox, LinesOf(c))

(* No chat comes to have a message of before the login.                    *)
LEMMA HadMessagesLost ==
  ASSUME Shapes, TextsKnown, conn = "up", ServerStep
  PROVE  HadMessages' \subseteq HadMessages
<1> SUFFICES ASSUME NEW c \in Convs, server'.log[c] # <<>>, Head(server'.log[c]).id = 0
             PROVE  server.log[c] # <<>> /\ Head(server.log[c]).id = 0
  BY DEF HadMessages
<1> DEFINE old == server.log[c]
           new == server'.log[c]
<1>1. old \in Seq(Line) /\ outbox \in Seq(Request)
  BY Written
<1>2. PICK ps \in Seq(Packet) : Handles(ps) \/ Pushes(ps)
  BY DEF ServerStep
<1>3. ASSUME NEW text \in Line, text.id # 0, Logs(text)
      PROVE  old # <<>> /\ Head(old).id = 0
  <2>1. new = IF c = text.conv_id THEN Append(old, text) ELSE old
    BY <1>3 DEF Logs
  <2>2. new # <<>> /\ Head(new).id = 0
    OBVIOUS
  <2> HIDE DEF old, new
  <2>3. CASE new = old
    BY <2>2, <2>3
  <2>4. CASE new = Append(old, text)
    <3>1. /\ new \in Seq(Line) /\ Head(new) = new[1] /\ 1 \in DOMAIN new
      BY <1>1, <2>2, <2>4, Appended, Rest
    <3>2. \/ 1 \in DOMAIN old /\ new[1] = old[1]
          \/ new[1] = text
      BY <1>1, <2>4, <3>1, Appended
    <3>3. 1 \in DOMAIN old /\ new[1] = old[1]
      BY <1>3, <2>2, <3>1, <3>2
    <3>4. old # <<>>
      BY <3>3
    <3>5. Head(old) = old[1]
      BY <1>1, <3>4, Rest
    <3> QED BY <2>2, <3>1, <3>3, <3>4, <3>5
  <2> QED BY <2>1, <2>3, <2>4
<1>4. CASE Erases(ps)
  BY <1>4 DEF Erases
<1>5. CASE Handles(ps) /\ Head(outbox).type = "MSG_SEND_TEXT" /\ Logs(Head(outbox).text)
  <2> DEFINE r == Head(outbox)
  <2>1. outbox # <<>>
    BY <1>5 DEF Handles
  <2>2. r \in Request /\ r = outbox[1] /\ 1 \in DOMAIN outbox
    BY <1>1, <2>1, Rest
  <2>3. r.text \in Line /\ r.text.id < 0
    BY <1>5, <2>2, RequestParts DEF TextsKnown, KnownRequest
  <2>4. r.text.id # 0
    BY <2>3 DEF Line
  <2> QED BY <1>3, <1>5, <2>3, <2>4
<1>6. CASE \E text \in Line : text.id = server.texts /\ server.texts > 0 /\ Logs(text)
  <2>1. PICK text \in Line : text.id = server.texts /\ server.texts > 0 /\ Logs(text)
    BY <1>6
  <2>2. text.id # 0
    BY <2>1
  <2> QED BY <1>3, <2>1, <2>2
<1> QED BY <1>2, <1>4, <1>5, <1>6 DEF Handles, Pushes

LEMMA ChatComingUI == Shapes /\ ChatComing /\ UIStep => ChatComing'
<1> DEFINE c == app.current_conv_id
           d == app'.current_conv_id
           type == "MSG_RESP_HISTORY"
           ask == "MSG_REQ_HISTORY"
<1> SUFFICES ASSUME Shapes, ChatComing, UIStep,
                    conn' = "up", ui'.pc \notin {"open", "show"}, d \in HadMessages'
             PROVE  /\ LastIs(ask, d, outbox')
                    /\ ~Asked(ask, outbox') =>
                         Arrives(type, app'.chat_history, net'.packet, inbox', LinesOf(d))
  BY DEF ChatComing
<1>1. PICK ps \in Seq(Request) : Sent(ps) /\ ChatStep(ps)
  BY DEF UIStep
<1>2. /\ UNCHANGED <<net, inbox, server>> /\ conn = "up" /\ outbox' = outbox \o ps
      /\ outbox \in Seq(Request)
  BY <1>1, Written DEF UIStep, Sent
<1>3. HadMessages' = HadMessages
  BY <1>2 DEF HadMessages
<1>4. ASSUME d = c, ui.pc \notin {"open", "show"}, ~Asked(ask, ps),
             app.chat_history \in LinesOf(c) => app'.chat_history \in LinesOf(c)
      PROVE  /\ LastIs(ask, d, outbox')
             /\ ~Asked(ask, outbox') =>
                  Arrives(type, app'.chat_history, net'.packet, inbox', LinesOf(d))
  <2>1. /\ LastIs(ask, c, outbox)
        /\ ~Asked(ask, outbox) => Arrives(type, app.chat_history, net.packet, inbox, LinesOf(c))
    BY <1>2, <1>3, <1>4 DEF ChatComing
  <2> DEFINE h == app.chat_history
             h2 == app'.chat_history
             held == net.packet
             Good == LinesOf(c)
  <2>2. ASSUME Arrives(type, h, held, inbox, Good)
        PROVE  Arrives(type, h2, held, inbox, Good)
    <3>1. h \in Good => h2 \in Good
      BY <1>4
    <3> HIDE DEF h, h2, held, Good, type
    <3>2. (IF carries(held, type) THEN held.list \in Good ELSE h \in Good) =>
            IF carries(held, type) THEN held.list \in Good ELSE h2 \in Good
      BY <3>1
    <3> QED BY <2>2, <3>2, ArrivesHere
  <2> HIDE DEF ask, c
  <2>3. /\ LastIs(ask, c, outbox \o ps)
        /\ Asked(ask, outbox) => Asked(ask, outbox \o ps)
    BY <1>2, <1>4, <2>1, AskedMore
  <2> QED BY <1>2, <1>4, <2>1, <2>2, <2>3
<1>5. CASE Elsewhere(ps)
  <2>1. d = c /\ ui.pc \notin {"open", "show"} /\ app'.chat_history = app.chat_history
    BY <1>5 DEF Elsewhere, SameChat
  <2>2. ~Asked(ask, ps)
    BY <1>5 DEF Elsewhere, Asked
  <2> QED BY <1>4, <2>1, <2>2
<1>6. CASE Shows(ps)
  <2> DEFINE r == service_req_history(c)
  <2>1. r.type = ask /\ r.conv_id = c /\ ps = <<r>> /\ d = c
    BY <1>6 DEF Shows, SameChat, service_req_history
  <2> HIDE DEF r, ask, c, d
  <2>2. ps # <<>> /\ ps[Len(ps)].type = ask /\ ps[Len(ps)].conv_id = c
    BY <2>1
  <2>3. LastIs(ask, c, outbox \o ps) /\ Asked(ask, outbox \o ps)
    BY <1>2, <2>2, AskedMore
  <2> QED BY <1>2, <2>1, <2>3
<1>7. CASE Writes(ps)
  <2> DEFINE r == service_send_text(own_text(ui.written + 1))
  <2>1. r.type = "MSG_SEND_TEXT" /\ ps = <<r>> /\ d = c /\ app'.chat_history = app.chat_history
        /\ ui.pc = "input"
    BY <1>7 DEF Writes, SameChat, service_send_text
  <2> HIDE DEF r
  <2>2. ~Asked(ask, ps)
    BY <2>1 DEF Asked
  <2> QED BY <1>4, <2>1, <2>2
<1>8. CASE Appends(ps)
  <2> DEFINE h == app.chat_history
             x == own_text(ui.written)
  <2>1. /\ ui.pc = "append" /\ app'.chat_history = Append(h, x) /\ d = c /\ ps = <<>>
    BY <1>8 DEF Appends
  <2>2. ~Asked(ask, ps)
    BY <2>1 DEF Asked
  <2>3. x \in Line /\ x.conv_id = c /\ h \in Seq(Line)
    BY Written DEF own_text, Line
  <2> HIDE DEF x
  <2>4. ASSUME h \in LinesOf(c)
        PROVE  Append(h, x) \in LinesOf(c)
    <3>1. \A i \in DOMAIN h : h[i].conv_id = c
      BY <2>4 DEF LinesOf
    <3> HIDE DEF h, c
    <3>2. Append(h, x) \in Seq(Line)
      BY <2>3, Appended
    <3>3. \A i \in DOMAIN Append(h, x) : Append(h, x)[i].conv_id = c
      BY <2>3, <3>1, Appended
    <3> QED BY <3>2, <3>3 DEF LinesOf
  <2> QED BY <1>4, <2>1, <2>2, <2>4
<1>9. ~Enters(ps) /\ ~Opens(ps)
  BY DEF Enters, Opens
<1> QED BY <1>1, <1>5, <1>6, <1>7, <1>8, <1>9 DEF ChatStep

LEMMA ChatComingNet == Shapes /\ ChatComing /\ (Receives \/ Stores) => ChatComing'
<1> DEFINE c == app.current_conv_id
           type == "MSG_RESP_HISTORY"
           ask == "MSG_REQ_HISTORY"
           Good == LinesOf(c)
<1> SUFFICES ASSUME Shapes, ChatComing, Receives \/ Stores, conn' = "up"
             PROVE  ChatComing'
  BY DEF ChatComing
<1>1. UNCHANGED <<server, ui>> /\ app'.current_conv_id = c
  BY DEF Receives, Stores, Keeps, SameChat
<1>2. HadMessages' = HadMessages
  BY <1>1 DEF HadMessages
<1>3. type \in Lists4
  BY DEF Lists4
<1> SUFFICES ASSUME ui.pc \notin {"open", "show"}, c \in HadMessages
             PROVE  /\ LastIs(ask, c, outbox')
                    /\ ~Asked(ask, outbox') =>
                         Arrives(type, app'.chat_history, net'.packet, inbox', Good)
  BY <1>1, <1>2 DEF ChatComing
<1>4. /\ conn = "up" => LastIs(ask, c, outbox)
      /\ conn = "up" /\ ~Asked(ask, outbox) =>
           Arrives(type, app.chat_history, net.packet, inbox, Good)
  BY DEF ChatComing
<1>5. CASE Receives
  <2>1. /\ conn = "up" /\ (LastIs(ask, c, outbox) => LastIs(ask, c, outbox'))
        /\ (Asked(ask, outbox) => Asked(ask, outbox'))
    <3> HIDE DEF c
    <3> QED BY <1>5, RequestsAtReception
  <2>2. app'.chat_history = app.chat_history
    BY <1>5 DEF Receives, Keeps, SameChat
  <2> DEFINE h == app.chat_history
  <2>3. Arrives(type, h, net.packet, inbox, Good) => Arrives(type, h, net'.packet, inbox', Good)
    <3> HIDE DEF type, h, Good
    <3> QED BY <1>3, <1>5, ArrivesTaken
  <2> QED BY <1>4, <2>1, <2>2, <2>3
<1>6. CASE Stores
  <2>1. UNCHANGED <<inbox, outbox, conn>> /\ net.packet \in Packet
    BY <1>6 DEF Stores
  <2> DEFINE h == app.chat_history
             h2 == app'.chat_history
  <2>2. net.packet.type = type => h2 = net.packet.list
    BY <1>6 DEF Stores
  <2>3. ASSUME net.packet.type # type, h \in Good
        PROVE  h2 \in Good
    <3>1. CASE h2 = h
      BY <2>3, <3>1
    <3>2. CASE /\ net.packet.type = "MSG_RTE_TEXT" /\ net.packet.text.conv_id = c
               /\ h2 = Append(h, net.packet.text)
      <4> DEFINE x == net.packet.text
      <4>1. h \in Seq(Line) /\ x \in Line /\ x.conv_id = c /\ h2 = Append(h, x)
            /\ \A i \in DOMAIN h : h[i].conv_id = c
        BY <2>1, <2>3, <3>2, PacketParts DEF LinesOf
      <4> HIDE DEF h, x, c, h2
      <4>2. h2 \in Seq(Line) /\ \A i \in DOMAIN h2 : h2[i].conv_id = c
        BY <4>1, Appended
      <4> QED BY <4>2 DEF LinesOf
    <3> QED BY <1>6, <2>3, <3>1, <3>2 DEF Stores
  <2>4. Arrives(type, h, net.packet, inbox, Good) => Arrives(type, h2, net'.packet, inbox', Good)
    <3> HIDE DEF type, h, h2, Good
    <3> QED BY <1>3, <1>6, <2>2, <2>3, ArrivesStored
  <2> QED BY <1>4, <2>1, <2>4
<1> QED BY <1>5, <1>6

LEMMA ChatComingServer ==
  Shapes /\ TextsKnown /\ ChatComing /\ conn = "up" /\ ServerStep => ChatComing'
<1> DEFINE c == app.current_conv_id
           type == "MSG_RESP_HISTORY"
           ask == "MSG_REQ_HISTORY"
           Good == LinesOf(c)
           h == app.chat_history
           held == net.packet
<1> SUFFICES ASSUME Shapes, TextsKnown, ChatComing, conn = "up", ServerStep
             PROVE  ChatComing'
  OBVIOUS
<1>1. UNCHANGED <<app, ui, net>>
  BY DEF ServerStep
<1> SUFFICES ASSUME ui.pc \notin {"open", "show"}, c \in HadMessages'
             PROVE  /\ LastIs(ask, c, outbox')
                    /\ ~Asked(ask, outbox') => Arrives(type, h, held, inbox', Good)
  BY <1>1 DEF ChatComing
<1>2. PICK ps \in Seq(Packet) : inbox' = inbox \o ps /\ (Handles(ps) \/ Pushes(ps))
  BY DEF ServerStep
<1>3. c \in HadMessages
  BY HadMessagesLost
<1>4. /\ LastIs(ask, c, outbox)
      /\ ~Asked(ask, outbox) => Arrives(type, h, held, inbox, Good)
  BY <1>3 DEF ChatComing
<1>5. inbox \in Seq(Packet) /\ outbox \in Seq(Request) /\ server \in ServerState
      /\ server.log \in [Convs -> Seq(Line)]
  BY Written DEF Shapes
<1> HIDE DEF h, held
<1>6. ASSUME \A k \in DOMAIN ps : ps[k].type # type
      PROVE  Arrives(type, h, held, inbox, Good) => Arrives(type, h, held, inbox', Good)
  <2>1. \A k \in DOMAIN ps : ~carries(ps[k], type)
    BY <1>6 DEF carries
  <2> HIDE DEF type, Good
  <2> QED BY <1>2, <1>5, <2>1, ArrivesMore
<1>7. CASE Pushes(ps)
  <2>1. outbox' = outbox /\ \A k \in DOMAIN ps : ps[k].type # type
    BY <1>7 DEF Pushes, None
  <2> QED BY <1>4, <1>6, <2>1
<1>8. CASE Handles(ps)
  <2> DEFINE r == Head(outbox)
  <2>1. outbox # <<>> /\ outbox' = Tail(outbox) /\ Answers(r, ps)
    BY <1>8 DEF Handles
  <2>2. r \in Request
    BY <1>5, <2>1, Rest
  <2>3. /\ LastIs(ask, c, outbox')
        /\ Asked(ask, outbox) => r.type = ask \/ Asked(ask, outbox')
        /\ ~Asked(ask, outbox') /\ r.type = ask => r.conv_id = c
    <3> HIDE DEF ask, c
    <3> QED BY <1>4, <1>5, <2>1, AskedLess
  <2> HIDE DEF r
  <2>4. CASE r.type # ask
    <3>1. \A k \in DOMAIN ps : ps[k].type # type
      BY <2>1, <2>4 DEF Answers, None
    <3> QED BY <1>4, <1>6, <2>3, <2>4, <3>1
  <2>5. CASE r.type = ask /\ ~Asked(ask, outbox')
    <3> DEFINE p == history_packet(server, c)
    <3>1. ps = <<p>> /\ c \in AnyConv
      BY <2>1, <2>2, <2>3, <2>5, RequestParts DEF Answers
    <3>2. c \in Convs /\ server.log[c] # <<>> /\ server.log[c] \in Seq(Line)
      BY <1>3, <1>5 DEF HadMessages
    <3> DEFINE x == server.log[c][1]
    <3>3. p.type = type /\ p.list = <<x>> /\ p \in Packet
      BY <1>5, <3>1, <3>2, HistoryPacket
    <3>4. 1 \in DOMAIN server.log[c] /\ x \in Line
      BY <3>2, Rest
    <3>5. x.conv_id = c
      BY <3>2, <3>4 DEF TextsKnown, LogsKnown
    <3> HIDE DEF p, x
    <3>6. <<x>> \in Good /\ <<x>> # <<>>
      BY <3>4, <3>5 DEF LinesOf
    <3>7. carries(p, type) /\ p.list \in Good
      BY <3>3, <3>6 DEF carries
    <3>8. ps \in Seq(Packet) /\ 1 \in DOMAIN ps /\ \A k \in DOMAIN ps : ps[k] = p
      BY <3>1, <3>3
    <3>9. Arrives(type, h, held, inbox', Good)
      <4>1. \E k \in DOMAIN ps : carries(ps[k], type)
        BY <3>7, <3>8
      <4>2. \A k \in DOMAIN ps : carries(ps[k], type) => ps[k].list \in Good
        BY <3>7, <3>8
      <4> HIDE DEF type, Good
      <4> QED BY <1>2, <1>5, <4>1, <4>2, ArrivesMore
    <3> QED BY <2>3, <3>9
  <2> QED BY <2>3, <2>4, <2>5
<1> QED BY <1>2, <1>7, <1>8

LEMMA ChatComingKept == Shapes /\ TextsKnown /\ Steps /\ ChatComing => ChatComing'
<1> SUFFICES ASSUME Shapes, TextsKnown, ChatComing, Waits \/ Gone
             PROVE  ChatComing'
  BY ChatComingUI, ChatComingNet, ChatComingServer DEF Steps
<1>1. CASE conn' = "up"
  <2>1. UNCHANGED <<app, ui, server, outbox, inbox, conn>> /\ net'.packet = net.packet
    BY <1>1 DEF Waits, Gone
  <2> QED BY <2>1 DEF ChatComing, HadMessages
<1>2. CASE conn' # "up"
  BY <1>2 DEF ChatComing
<1> QED BY <1>1, <1>2

(* However the answers for several chats, texts and own texts overlap, the *)
(* open chat ends up with lines of its own conversation, provided that had *)
(* messages at the login.                                                  *)
THEOREM ChatShowsItsOwn == Spec => []HistoryBelongsToChat
<1> DEFINE Inv == Shapes /\ TextsKnown /\ ChatComing
<1>1. Init => Inv
  <2> SUFFICES ASSUME NEW s \in Sessions, ContextInit(s.keys), ServerInit(s)
               PROVE  ChatComing
    BY InitShapes, TextsKnownAtLogin DEF Init
  <2>1. app.current_conv_id \notin Convs
    BY AtLogin, AnyElements DEF app_init
  <2> QED BY <2>1 DEF ChatComing, HadMessages
<1>2. Inv /\ [Next]_vars => Inv'
  <2>1. CASE UNCHANGED vars
    <3>1. TextsKnown => TextsKnown'
      BY <2>1 DEF vars, TextsKnown
    <3>2. ChatComing => ChatComing'
      BY <2>1 DEF vars, ChatComing, HadMessages
    <3> QED BY <2>1, <3>1, <3>2, Stutter
  <2> QED BY <2>1, NextSteps, ShapesKept, TextsKnownKept, ChatComingKept
<1>3. Inv => HistoryBelongsToChat
  <2> DEFINE c == app.current_conv_id
             h == app.chat_history
  <2> SUFFICES ASSUME Inv, Settled, c \in HadMessages
               PROVE  \A i \in DOMAIN h : h[i].conv_id = c
    BY DEF HistoryBelongsToChat
  <2>1. conn = "up" /\ outbox = <<>> /\ ui.pc \notin {"open", "show"}
    BY DEF Settled
  <2>2. DOMAIN outbox = {}
    BY <2>1
  <2>3. Arrives("MSG_RESP_HISTORY", h, net.packet, inbox, LinesOf(c))
    BY <2>1, <2>2 DEF ChatComing, Asked
  <2>4. h \in LinesOf(c)
    BY <2>3, SettledLists
  <2> QED BY <2>4 DEF LinesOf
<1> QED BY <1>1, <1>2, <1>3, PTL DEF Spec

-----------------------------------------------------------------------------
(* The members                                                             *)

MembersOf(c) == {h \in Seq(AnyUser) : \A i \in DOMAIN h : h[i] \in MembersAtStart[c]}

(* Groups lose members only.                                               *)
MembersKnown == \A c \in Groups : server.members[c] \subseteq MembersAtStart[c]

(* While the connection is up and the members of a group are on the screen:*)
(* the last members asked for are its own, and if that has been answered,  *)
(* what is coming ends in members of its own.                              *)
MembersComing ==
  LET c == app.current_conv_id
  IN  conn = "up" /\ app.current_state = "MANAGE_MEMBERS" /\ c \in Groups =>
        /\ LastIs("MSG_REQ_MEMBERS", c, outbox)
        /\ ~Asked("MSG_REQ_MEMBERS", outbox) /\ server.members[c] # {} =>
             Arrives("MSG_RESP_MEMBERS", app.current_group_members, net.packet, inbox,
                     MembersOf(c))

LEMMA MembersComingUI == Shapes /\ MembersComing /\ UIStep => MembersComing'
<1> DEFINE c == app.current_conv_id
           d == app'.current_conv_id
           type == "MSG_RESP_MEMBERS"
           ask == "MSG_REQ_MEMBERS"
<1> SUFFICES ASSUME Shapes, MembersComing, UIStep,
                    conn' = "up", app'.current_state = "MANAGE_MEMBERS", d \in Groups
             PROVE  /\ LastIs(ask, d, outbox')
                    /\ ~Asked(ask, outbox') /\ server'.members[d] # {} =>
                         Arrives(type, app'.current_group_members, net'.packet, inbox', MembersOf(d))
  BY DEF MembersComing
<1>1. PICK ps \in Seq(Request) : Sent(ps) /\ MembersStep(ps)
  BY DEF UIStep
<1>2. /\ UNCHANGED <<net, inbox, server>> /\ conn = "up" /\ outbox' = outbox \o ps
      /\ outbox \in Seq(Request) /\ app'.current_group_members = app.current_group_members
  BY <1>1, Written DEF UIStep, Sent, SameLists
<1>3. CASE ps # <<>> /\ ps[Len(ps)] = service_req_members(d)
  <2> DEFINE r == service_req_members(d)
  <2>1. r.type = ask /\ r.conv_id = d
    BY DEF service_req_members
  <2>2. ps # <<>> /\ ps[Len(ps)].type = ask /\ ps[Len(ps)].conv_id = d
    BY <1>3, <2>1
  <2> HIDE DEF r, ask, d
  <2>3. LastIs(ask, d, outbox \o ps) /\ Asked(ask, outbox \o ps)
    BY <1>2, <2>2, AskedMore
  <2> QED BY <1>2, <2>3
<1>4. CASE /\ app.current_state = "MANAGE_MEMBERS" /\ d = c
           /\ \A k \in DOMAIN ps : ps[k].type # "MSG_REQ_MEMBERS"
  <2>1. ~Asked(ask, ps)
    BY <1>4 DEF Asked
  <2>2. /\ LastIs(ask, c, outbox)
        /\ ~Asked(ask, outbox) /\ server.members[c] # {} =>
             Arrives(type, app.current_group_members, net.packet, inbox, MembersOf(c))
    BY <1>2, <1>4 DEF MembersComing
  <2> HIDE DEF ask, c
  <2>3. /\ LastIs(ask, c, outbox \o ps)
        /\ Asked(ask, outbox) => Asked(ask, outbox \o ps)
    BY <1>2, <2>1, <2>2, AskedMore
  <2> QED BY <1>2, <1>4, <2>2, <2>3 DEF c
<1> QED BY <1>1, <1>3, <1>4 DEF MembersStep

LEMMA MembersComingNet == Shapes /\ MembersComing /\ (Receives \/ Stores) => MembersComing'
<1> DEFINE c == app.current_conv_id
           type == "MSG_RESP_MEMBERS"
           ask == "MSG_REQ_MEMBERS"
           Good == MembersOf(c)
           h == app.current_group_members
           h2 == app'.current_group_members
           some == server.members[c] # {}
<1> SUFFICES ASSUME Shapes, MembersComing, Receives \/ Stores, conn' = "up",
                    app'.current_state = "MANAGE_MEMBERS", app'.current_conv_id \in Groups
             PROVE  MembersComing'
  BY DEF MembersComing
<1>1. UNCHANGED <<server, ui>> /\ app'.current_conv_id = c /\ app'.current_state = app.current_state
  BY DEF Receives, Stores, Keeps, SameChat
<1>2. type \in Lists4
  BY DEF Lists4
<1> SUFFICES /\ LastIs(ask, c, outbox')
             /\ ~Asked(ask, outbox') /\ some => Arrives(type, h2, net'.packet, inbox', Good)
  BY <1>1 DEF MembersComing
<1>3. /\ conn = "up" => LastIs(ask, c, outbox)
      /\ conn = "up" /\ ~Asked(ask, outbox) /\ some => Arrives(type, h, net.packet, inbox, Good)
  BY <1>1 DEF MembersComing
<1>4. CASE Receives
  <2>1. /\ conn = "up" /\ (LastIs(ask, c, outbox) => LastIs(ask, c, outbox'))
        /\ (Asked(ask, outbox) => Asked(ask, outbox'))
    <3> HIDE DEF c
    <3> QED BY <1>4, RequestsAtReception
  <2>2. h2 = h
    BY <1>4 DEF Receives, Keeps, SameLists
  <2>3. Arrives(type, h, net.packet, inbox, Good) => Arrives(type, h, net'.packet, inbox', Good)
    <3> HIDE DEF type, h, Good
    <3> QED BY <1>2, <1>4, ArrivesTaken
  <2> HIDE DEF some
  <2> QED BY <1>3, <2>1, <2>2, <2>3
<1>5. CASE Stores
  <2>1. UNCHANGED <<inbox, outbox, conn>>
    BY <1>5 DEF Stores
  <2>2. /\ net.packet.type = type => h2 = net.packet.list
        /\ net.packet.type # type => (h \in Good => h2 \in Good)
    BY <1>5 DEF Stores
  <2>3. Arrives(type, h, net.packet, inbox, Good) => Arrives(type, h2, net'.packet, inbox', Good)
    <3> HIDE DEF type, h, h2, Good
    <3> QED BY <1>2, <1>5, <2>2, ArrivesStored
  <2> HIDE DEF some
  <2> QED BY <1>3, <2>1, <2>3
<1> QED BY <1>4, <1>5

LEMMA MembersComingServer ==
  Shapes /\ MembersKnown /\ MembersComing /\ conn = "up" /\ ServerStep => MembersComing'
<1> DEFINE c == app.current_conv_id
           type == "MSG_RESP_MEMBERS"
           ask == "MSG_REQ_MEMBERS"
           Good == MembersOf(c)
           h == app.current_group_members
           held == net.packet
<1> SUFFICES ASSUME Shapes, MembersKnown, MembersComing, conn = "up", ServerStep
             PROVE  MembersComing'
  OBVIOUS
<1>1. UNCHANGED <<app, ui, net>>
  BY DEF ServerStep
<1> SUFFICES ASSUME app.current_state = "MANAGE_MEMBERS", c \in Groups
             PROVE  /\ LastIs(ask, c, outbox')
                    /\ ~Asked(ask, outbox') /\ server'.members[c] # {} =>
                         Arrives(type, h, held, inbox', Good)
  BY <1>1 DEF MembersComing
<1>2. PICK ps \in Seq(Packet) : inbox' = inbox \o ps /\ (Handles(ps) \/ Pushes(ps))
  BY DEF ServerStep
<1>3. /\ server'.members[c] \subseteq server.members[c]
      /\ server.members[c] \subseteq MembersAtStart[c]
  BY DEF ServerStep, MembersKnown
<1>4. /\ LastIs(ask, c, outbox)
      /\ ~Asked(ask, outbox) /\ server'.members[c] # {} => Arrives(type, h, held, inbox, Good)
  BY <1>3 DEF MembersComing
<1>5. inbox \in Seq(Packet) /\ outbox \in Seq(Request) /\ server \in ServerState
  BY Written DEF Shapes
<1> HIDE DEF h, held
<1>6. ASSUME \A k \in DOMAIN ps : ps[k].type # type
      PROVE  Arrives(type, h, held, inbox, Good) => Arrives(type, h, held, inbox', Good)
  <2>1. \A k \in DOMAIN ps : ~carries(ps[k], type)
    BY <1>6 DEF carries
  <2> HIDE DEF type, Good
  <2> QED BY <1>2, <1>5, <2>1, ArrivesMore
<1>7. CASE Pushes(ps)
  <2>1. outbox' = outbox /\ \A k \in DOMAIN ps : ps[k].type # type
    BY <1>7 DEF Pushes, None
  <2> QED BY <1>4, <1>6, <2>1
<1>8. CASE Handles(ps)
  <2> DEFINE r == Head(outbox)
  <2>1. outbox # <<>> /\ outbox' = Tail(outbox) /\ Answers(r, ps)
    BY <1>8 DEF Handles
  <2>2. /\ LastIs(ask, c, outbox')
        /\ Asked(ask, outbox) => r.type = ask \/ Asked(ask, outbox')
        /\ ~Asked(ask, outbox') /\ r.type = ask => r.conv_id = c
    <3> HIDE DEF ask, c
    <3> QED BY <1>4, <1>5, <2>1, AskedLess
  <2> HIDE DEF r
  <2>3. CASE r.type # ask
    <3>1. \A k \in DOMAIN ps : ps[k].type # type
      BY <2>1, <2>3 DEF Answers, None
    <3> QED BY <1>4, <1>6, <2>2, <2>3, <3>1
  <2>4. CASE r.type = ask /\ ~Asked(ask, outbox') /\ server'.members[c] # {}
    <3> DEFINE p == members_packet(server, c)
               list == in_order(server.members[c])
    <3>1. ps = <<p>> /\ c \in AnyConv
      BY <2>1, <2>2, <2>4, AnyElements DEF Answers
    <3>2. p.type = type /\ p.list = list /\ p \in Packet
      BY <1>5, <3>1, MembersPacket
    <3>3. list \in Seq(AnyUser) /\ list # <<>> /\ \A i \in DOMAIN list : list[i] \in server.members[c]
      BY <1>3, <1>5, <2>4, Lists
    <3> HIDE DEF p, list
    <3>4. carries(p, type) /\ p.list \in Good
      BY <1>3, <3>2, <3>3 DEF carries, MembersOf
    <3>5. ps \in Seq(Packet) /\ 1 \in DOMAIN ps /\ \A k \in DOMAIN ps : ps[k] = p
      BY <3>1, <3>2
    <3>6. /\ \E k \in DOMAIN ps : carries(ps[k], type)
          /\ \A k \in DOMAIN ps : carries(ps[k], type) => ps[k].list \in Good
      BY <3>4, <3>5
    <3>7. Arrives(type, h, held, inbox', Good)
      <4> HIDE DEF type, Good
      <4> QED BY <1>2, <1>5, <3>6, ArrivesMore
    <3> QED BY <2>2, <3>7
  <2> QED BY <2>2, <2>3, <2>4
<1> QED BY <1>2, <1>7, <1>8

LEMMA MembersComingKept == Shapes /\ MembersKnown /\ Steps /\ MembersComing => MembersComing'
<1> SUFFICES ASSUME Shapes, MembersKnown, MembersComing, Waits \/ Gone
             PROVE  MembersComing'
  BY MembersComingUI, MembersComingNet, MembersComingServer DEF Steps
<1>1. CASE conn' = "up"
  <2>1. UNCHANGED <<app, ui, server, outbox, inbox, conn>> /\ net'.packet = net.packet
    BY <1>1 DEF Waits, Gone
  <2> QED BY <2>1 DEF MembersComing
<1>2. CASE conn' # "up"
  BY <1>2 DEF MembersComing
<1> QED BY <1>1, <1>2

LEMMA MembersKnownKept == Steps /\ MembersKnown => MembersKnown'
<1>1. ASSUME Steps
      PROVE  \A c \in Groups : server'.members[c] \subseteq server.members[c]
  BY <1>1 DEF Steps, UIStep, Receives, Stores, Waits, ServerStep, Gone
<1> QED BY <1>1 DEF MembersKnown

(* Whichever groups were looked at, and whoever left meanwhile: once all   *)
(* has arrived, the members on the screen, among whom the admin picks whom *)
(* to kick, are members of the group on the screen.                        *)
THEOREM MembersShownAreOfGroup == Spec => []MembersOfGroup
<1> DEFINE Inv == Shapes /\ MembersKnown /\ MembersComing
<1>1. Init => Inv
  <2> SUFFICES ASSUME NEW s \in Sessions, ContextInit(s.keys), ServerInit(s)
               PROVE  MembersKnown /\ MembersComing
    BY InitShapes DEF Init
  <2>1. app.current_state = "HOME" /\ server.members = MembersAtStart
    BY AtLogin DEF app_init
  <2> QED BY <2>1 DEF MembersKnown, MembersComing
<1>2. Inv /\ [Next]_vars => Inv'
  <2>1. CASE UNCHANGED vars
    BY <2>1, Stutter DEF vars, MembersKnown, MembersComing
  <2> QED BY <2>1, NextSteps, ShapesKept, MembersKnownKept, MembersComingKept
<1>3. Inv => MembersOfGroup
  <2> DEFINE c == app.current_conv_id
             h == app.current_group_members
  <2> SUFFICES ASSUME Inv, Settled, app.current_state = "MANAGE_MEMBERS", c \in Groups,
                      server.members[c] # {}
               PROVE  \A i \in DOMAIN h : h[i] \in MembersAtStart[c]
    BY DEF MembersOfGroup
  <2>1. conn = "up" /\ outbox = <<>>
    BY DEF Settled
  <2>2. DOMAIN outbox = {}
    BY <2>1
  <2>3. Arrives("MSG_RESP_MEMBERS", h, net.packet, inbox, MembersOf(c))
    BY <2>1, <2>2 DEF MembersComing, Asked
  <2>4. h \in MembersOf(c)
    BY <2>3, SettledLists
  <2> QED BY <2>4 DEF MembersOf
<1> QED BY <1>1, <1>2, <1>3, PTL DEF Spec

-----------------------------------------------------------------------------
(* Each text once                                                          *)

ids_in(h) == {h[i].id : i \in DOMAIN h}

(* The texts a packet puts on the screen.                                  *)
shows(k) ==
  IF k.type = "MSG_RESP_HISTORY" THEN ids_in(k.list)
  ELSE IF k.type = "MSG_RTE_TEXT" THEN {k.text.id} ELSE {}

(* A text that is pushed is not on the screen, nor is it put there by what *)
(* comes before it.                                                        *)
Fresh(history, held, coming) ==
  /\ held.type = "MSG_RTE_TEXT" => held.text.id \notin ids_in(history)
  /\ \A j \in DOMAIN coming : coming[j].type = "MSG_RTE_TEXT" =>
       /\ coming[j].text.id \notin ids_in(history) /\ coming[j].text.id \notin shows(held)
       /\ \A i \in DOMAIN coming : i < j => coming[j].text.id \notin shows(coming[i])

Absent(id, history, held, coming) ==
  /\ id \notin ids_in(history) /\ id \notin shows(held)
  /\ \A i \in DOMAIN coming : id \notin shows(coming[i])

(* No history is asked for after the text was sent.                        *)
AnsweredBefore(id, out, log) ==
  /\ \A i, j \in DOMAIN out :
       out[i].type = "MSG_SEND_TEXT" /\ out[i].text.id = id /\ j > i =>
         out[j].type # "MSG_REQ_HISTORY"
  /\ (\E c \in Convs : \E k \in DOMAIN log[c] : log[c][k].id = id) =>
       ~Asked("MSG_REQ_HISTORY", out)

(* Between sending a text of its own and putting it on the screen, the UI  *)
(* thread can count on the other thread not to put it there.               *)
Appending ==
  ui.pc = "append" =>
    /\ Absent(-ui.written, app.chat_history, net.packet, inbox)
    /\ conn = "up" => AnsweredBefore(-ui.written, outbox, server.log)

OnScreenOnce == IsInjective(app.chat_history) /\ Fresh(app.chat_history, net.packet, inbox)

LEMMA LineAppended ==
  ASSUME NEW h \in Seq(Line), NEW x \in Line
  PROVE  /\ ids_in(Append(h, x)) = ids_in(h) \cup {x.id}
         /\ IsInjective(h) /\ x.id \notin ids_in(h) => IsInjective(Append(h, x))
<1> DEFINE t == Append(h, x)
           n == Len(h) + 1
<1>1. /\ \A i \in DOMAIN h : i \in DOMAIN t /\ t[i] = h[i]
      /\ \A i \in DOMAIN t :
           \/ i \in DOMAIN h /\ t[i] = h[i]
           \/ i = n /\ i \notin DOMAIN h /\ t[i] = x
  BY Appended
<1>2. n \in DOMAIN t /\ t[n] = x
  BY AppendProperties
<1> HIDE DEF t, n
<1>3. ids_in(t) = ids_in(h) \cup {x.id}
  BY <1>1, <1>2 DEF ids_in
<1>4. ASSUME IsInjective(h), x.id \notin ids_in(h)
      PROVE  IsInjective(t)
  <2> SUFFICES ASSUME NEW a \in DOMAIN t, NEW b \in DOMAIN t, t[a] = t[b]
               PROVE  a = b
    BY DEF IsInjective
  <2>1. \A i \in DOMAIN h : h[i] # x
    BY <1>4 DEF ids_in
  <2>2. \A i, j \in DOMAIN h : h[i] = h[j] => i = j
    BY <1>4 DEF IsInjective
  <2> QED BY <1>1, <2>1, <2>2
<1> QED BY <1>3, <1>4 DEF t

LEMMA OneLine ==
  ASSUME NEW h \in Seq(Line), Len(h) <= 1
  PROVE  IsInjective(h)
<1>1. \A a, b \in 1..Len(h) : a = b
  OBVIOUS
<1> QED BY <1>1 DEF IsInjective

(* A text not yet written is nowhere.                                      *)
LEMMA NotWritten ==
  ASSUME Shapes, TextsKnown, NEW id, id \in 1..server.texts \/ ~(-id <= ui.written)
  PROVE  /\ Absent(id, app.chat_history, net.packet, inbox)
         /\ \A c \in Convs : \A k \in DOMAIN server.log[c] : server.log[c][k].id # id
         /\ conn = "up" => \A i \in DOMAIN outbox :
                             outbox[i].type = "MSG_SEND_TEXT" => outbox[i].text.id # id
<1>1. \A l : Known(l, server.texts, ui.written) => l.id # id
  BY DEF Known
<1>2. ASSUME NEW k, KnownPacket(k, server.texts, ui.written)
      PROVE  id \notin shows(k)
  BY <1>1, <1>2 DEF KnownPacket, shows, ids_in
<1>3. id \notin ids_in(app.chat_history)
  BY <1>1 DEF TextsKnown, ids_in
<1>4. Absent(id, app.chat_history, net.packet, inbox)
  BY <1>2, <1>3 DEF Absent, TextsKnown
<1>5. \A c \in Convs : \A k \in DOMAIN server.log[c] : server.log[c][k].id # id
  BY <1>1 DEF TextsKnown, LogsKnown
<1>6. ASSUME conn = "up", NEW i \in DOMAIN outbox, outbox[i].type = "MSG_SEND_TEXT"
      PROVE  outbox[i].text.id # id
  BY <1>1, <1>6 DEF TextsKnown, KnownRequest
<1> QED BY <1>4, <1>5, <1>6

LEMMA OnceUI == Shapes /\ TextsKnown /\ OnScreenOnce /\ Appending /\ UIStep => OnScreenOnce'
<1> DEFINE h == app.chat_history
           h2 == app'.chat_history
           x == own_text(ui.written)
<1> SUFFICES ASSUME Shapes, TextsKnown, OnScreenOnce, Appending, UIStep
             PROVE  IsInjective(h2) /\ Fresh(h2, net.packet, inbox)
  BY DEF UIStep, OnScreenOnce
<1>1. PICK ps \in Seq(Request) : ChatStep(ps)
  BY DEF UIStep
<1>2. IsInjective(h) /\ Fresh(h, net.packet, inbox) /\ h \in Seq(Line)
  BY Written DEF OnScreenOnce
<1>3. CASE h2 = h
  BY <1>2, <1>3
<1>4. CASE h2 = <<>>
  <2>1. h2 \in Seq(Line) /\ Len(h2) <= 1 /\ ids_in(h2) = {}
    BY <1>4 DEF ids_in
  <2>2. IsInjective(h2)
    BY <2>1, OneLine
  <2> QED BY <1>2, <2>1, <2>2 DEF Fresh
<1>5. CASE ui.pc = "append" /\ h2 = Append(h, x)
  <2>1. x \in Line /\ x.id = -ui.written /\ ui.written \in Nat
    BY Written DEF own_text, Line
  <2>2. x.id \notin ids_in(h)
    BY <1>5, <2>1 DEF Appending, Absent
  <2>3. /\ net.packet.type = "MSG_RTE_TEXT" => net.packet.text.id > 0
        /\ \A i \in DOMAIN inbox : inbox[i].type = "MSG_RTE_TEXT" => inbox[i].text.id > 0
    BY DEF TextsKnown, KnownPacket
  <2>4. ~(x.id > 0)
    BY <2>1
  <2> HIDE DEF h, x, h2
  <2>5. ids_in(h2) = ids_in(h) \cup {x.id} /\ IsInjective(h2)
    BY <1>2, <1>5, <2>1, <2>2, LineAppended
  <2> QED BY <1>2, <2>3, <2>4, <2>5 DEF Fresh
<1> QED BY <1>1, <1>3, <1>4, <1>5
        DEF ChatStep, Elsewhere, Enters, Opens, Shows, Writes, Appends, SameChat

(* The packet that was read first comes first.                             *)
LEMMA OnceReceives == Shapes /\ OnScreenOnce /\ Receives => OnScreenOnce'
<1> DEFINE h == app.chat_history
           held == net.packet
           coming == inbox
           next == net'.packet
           rest == Tail(inbox)
<1> SUFFICES ASSUME Shapes, OnScreenOnce, Receives
             PROVE  Fresh(h, next, rest)
  BY DEF Receives, Keeps, SameChat, OnScreenOnce
<1>1. /\ coming # <<>> /\ coming \in Seq(Packet) /\ held = NoPacket
      /\ next = Head(coming) \/ next = held
  BY Written DEF Receives
<1>2. /\ Head(coming) = coming[1] /\ 1 \in DOMAIN coming
      /\ \A i \in DOMAIN rest : i + 1 \in DOMAIN coming /\ rest[i] = coming[i + 1]
      /\ DOMAIN rest \subseteq Nat \ {0}
  <2>1. rest \in Seq(Packet)
    BY <1>1, Rest
  <2> QED BY <1>1, <2>1, Rest
<1>3. Fresh(h, held, coming)
  BY DEF OnScreenOnce
<1>4. held.type # "MSG_RTE_TEXT" /\ shows(held) = {}
  BY <1>1 DEF NoPacket, shows
<1> HIDE DEF h, held, coming, next, rest
<1>5. next.type = "MSG_RTE_TEXT" => next.text.id \notin ids_in(h)
  BY <1>1, <1>2, <1>3, <1>4 DEF Fresh
<1>6. ASSUME NEW j \in DOMAIN rest, rest[j].type = "MSG_RTE_TEXT"
      PROVE  /\ rest[j].text.id \notin ids_in(h) /\ rest[j].text.id \notin shows(next)
             /\ \A i \in DOMAIN rest : i < j => rest[j].text.id \notin shows(rest[i])
  <2>1. /\ j + 1 \in DOMAIN coming /\ rest[j] = coming[j + 1]
        /\ 1 < j + 1 /\ \A i \in DOMAIN rest : i < j => i + 1 < j + 1
    BY <1>2
  <2>2. /\ coming[j + 1].text.id \notin ids_in(h)
        /\ \A i \in DOMAIN coming : i < j + 1 => coming[j + 1].text.id \notin shows(coming[i])
    BY <1>3, <1>6, <2>1 DEF Fresh
  <2>3. rest[j].text.id \notin shows(next)
    BY <1>1, <1>2, <1>4, <2>1, <2>2
  <2>4. ASSUME NEW i \in DOMAIN rest, i < j
        PROVE  rest[j].text.id \notin shows(rest[i])
    BY <1>2, <2>1, <2>2, <2>4
  <2> QED BY <2>1, <2>2, <2>3, <2>4
<1> QED BY <1>5, <1>6 DEF Fresh

(* What storing the packet shows was shown or comes from the packet.       *)
LEMMA StoredLines ==
  ASSUME Shapes, TextsKnown, Stores
  PROVE  /\ ids_in(app'.chat_history) \subseteq ids_in(app.chat_history) \cup shows(net.packet)
         /\ OnScreenOnce => IsInjective(app'.chat_history)
<1> DEFINE h == app.chat_history
           h2 == app'.chat_history
           k == net.packet
<1>1. h \in Seq(Line) /\ k \in Packet
  BY Written DEF Stores
<1>2. CASE k.type = "MSG_RESP_HISTORY" /\ h2 = k.list
  <2>1. k.list \in Seq(Line) /\ Len(k.list) <= 1
    BY <1>1, <1>2, PacketParts DEF TextsKnown, KnownPacket
  <2>2. IsInjective(h2)
    BY <1>2, <2>1, OneLine
  <2> QED BY <1>2, <2>2 DEF shows
<1>3. CASE h2 = h
  BY <1>3 DEF OnScreenOnce
<1>4. CASE k.type = "MSG_RTE_TEXT" /\ h2 = Append(h, k.text)
  <2> DEFINE x == k.text
  <2>1. x \in Line
    BY <1>1, <1>4, PacketParts
  <2>2. OnScreenOnce => IsInjective(h) /\ x.id \notin ids_in(h)
    BY <1>4 DEF OnScreenOnce, Fresh
  <2>3. shows(k) = {x.id} /\ h2 = Append(h, x)
    BY <1>4 DEF shows
  <2> HIDE DEF h, h2, x, k
  <2>4. /\ ids_in(h2) \subseteq ids_in(h) \cup shows(k)
        /\ OnScreenOnce => IsInjective(h2)
    BY <1>1, <2>1, <2>2, <2>3, LineAppended
  <2> QED BY <2>4 DEF h, h2, k
<1> QED BY <1>2, <1>3, <1>4 DEF Stores

LEMMA OnceStores == Shapes /\ TextsKnown /\ OnScreenOnce /\ Stores => OnScreenOnce'
<1> SUFFICES ASSUME Shapes, TextsKnown, OnScreenOnce, Stores
             PROVE  OnScreenOnce'
  OBVIOUS
<1>1. inbox' = inbox /\ net'.packet = NoPacket
  BY DEF Stores
<1>2. net'.packet.type # "MSG_RTE_TEXT" /\ shows(net'.packet) = {}
  BY <1>1 DEF NoPacket, shows
<1>3. /\ ids_in(app'.chat_history) \subseteq ids_in(app.chat_history) \cup shows(net.packet)
      /\ IsInjective(app'.chat_history)
  BY StoredLines
<1>4. Fresh(app.chat_history, net.packet, inbox)
  BY DEF OnScreenOnce
<1>5. Fresh(app'.chat_history, net'.packet, inbox)
  BY <1>2, <1>3, <1>4 DEF Fresh
<1> QED BY <1>1, <1>3, <1>5 DEF OnScreenOnce

(* A text that is pushed is a new one.                                     *)
LEMMA OnceServer ==
  Shapes /\ TextsKnown /\ OnScreenOnce /\ conn = "up" /\ ServerStep => OnScreenOnce'
<1> DEFINE h == app.chat_history
           held == net.packet
           n == server.texts
<1> SUFFICES ASSUME Shapes, TextsKnown, OnScreenOnce, conn = "up", ServerStep
             PROVE  Fresh(h, held, inbox')
  BY DEF ServerStep, OnScreenOnce
<1>1. PICK ps \in Seq(Packet) : inbox' = inbox \o ps /\ (Handles(ps) \/ Pushes(ps))
  BY DEF ServerStep
<1>2. inbox \in Seq(Packet) /\ n \in Nat /\ Fresh(h, held, inbox)
  BY Written DEF OnScreenOnce
<1>3. ASSUME NEW j \in DOMAIN ps, ps[j].type = "MSG_RTE_TEXT"
      PROVE  Absent(ps[j].text.id, h, held, inbox) /\ \A i \in DOMAIN ps : ~(i < j)
  <2>1. PICK text \in Line : /\ text.id = n /\ n > 0
                             /\ ps = <<[type |-> "MSG_RTE_TEXT", text |-> text]>>
    BY <1>1, <1>3 DEF Handles, Pushes, Erases, None
  <2>2. ps[j].text.id = n /\ \A i \in DOMAIN ps : i = j
    BY <2>1
  <2>3. n \in 1..server.texts
    BY <1>2, <2>1
  <2>4. Absent(n, app.chat_history, net.packet, inbox)
    BY <2>3, NotWritten
  <2> QED BY <2>2, <2>4
<1> HIDE DEF h, held, n
<1> DEFINE all == inbox \o ps
           m == Len(inbox)
<1>4. /\ m \in Nat /\ DOMAIN inbox \subseteq 1..m
      /\ \A i \in DOMAIN all : \/ i \in DOMAIN inbox /\ all[i] = inbox[i]
                               \/ \E k \in DOMAIN ps : i = m + k /\ all[i] = ps[k]
      /\ DOMAIN ps \subseteq Nat \ {0}
  <2>1. Len(inbox) \in Nat /\ DOMAIN inbox = 1..Len(inbox) /\ DOMAIN ps \subseteq Nat \ {0}
    BY <1>2
  <2> QED BY <1>2, <2>1, Joined
<1> HIDE DEF all, m
<1>5. ASSUME NEW j \in DOMAIN all, all[j].type = "MSG_RTE_TEXT"
      PROVE  /\ all[j].text.id \notin ids_in(h) /\ all[j].text.id \notin shows(held)
             /\ \A i \in DOMAIN all : i < j => all[j].text.id \notin shows(all[i])
  <2>1. CASE j \in DOMAIN inbox /\ all[j] = inbox[j]
    <3>1. \A i \in DOMAIN all : i < j => i \in DOMAIN inbox /\ all[i] = inbox[i]
      BY <1>4, <2>1
    <3> QED BY <1>2, <1>5, <2>1, <3>1 DEF Fresh
  <2>2. CASE \E k \in DOMAIN ps : j = m + k /\ all[j] = ps[k]
    <3>1. PICK k \in DOMAIN ps : j = m + k /\ all[j] = ps[k]
      BY <2>2
    <3>2. Absent(ps[k].text.id, h, held, inbox) /\ \A i \in DOMAIN ps : ~(i < k)
      BY <1>3, <1>5, <3>1
    <3>3. \A i \in DOMAIN all : i < j => i \in DOMAIN inbox /\ all[i] = inbox[i]
      BY <1>4, <3>1, <3>2
    <3> QED BY <3>1, <3>2, <3>3 DEF Absent
  <2> QED BY <1>4, <2>1, <2>2
<1>6. held.type = "MSG_RTE_TEXT" => held.text.id \notin ids_in(h)
  BY <1>2 DEF Fresh
<1>7. Fresh(h, held, all)
  BY <1>5, <1>6 DEF Fresh
<1> QED BY <1>1, <1>7 DEF all

LEMMA OnceKept == Shapes /\ TextsKnown /\ Appending /\ Steps /\ OnScreenOnce => OnScreenOnce'
<1> SUFFICES ASSUME Shapes, OnScreenOnce, Waits \/ Gone
             PROVE  OnScreenOnce'
  BY OnceUI, OnceReceives, OnceStores, OnceServer DEF Steps
<1>1. app' = app /\ inbox \in Seq(Packet)
  BY Written DEF Waits, Gone
<1>2. \A i \in DOMAIN inbox' : i \in DOMAIN inbox /\ inbox'[i] = inbox[i]
  <2>1. CASE Gone
    <3>1. \E k \in 0..Len(inbox) : inbox' = SubSeq(inbox, 1, k)
      BY <2>1 DEF Gone
    <3> QED BY <1>1, <3>1, Beginning
  <2>2. CASE Waits
    <3>1. inbox' = inbox \/ (inbox' = <<>> /\ DOMAIN inbox' = {})
      BY <2>2 DEF Waits
    <3> QED BY <3>1
  <2> QED BY <2>1, <2>2
<1>3. net'.packet = net.packet \/ net'.packet = NoPacket
  BY DEF Waits, Gone
<1>4. NoPacket.type # "MSG_RTE_TEXT" /\ shows(NoPacket) = {}
  BY DEF NoPacket, shows
<1>5. Fresh(app.chat_history, net.packet, inbox)
  BY DEF OnScreenOnce
<1>6. Fresh(app.chat_history, net'.packet, inbox')
  BY <1>2, <1>3, <1>4, <1>5 DEF Fresh
<1> QED BY <1>1, <1>6 DEF OnScreenOnce

LEMMA AppendingUI == Shapes /\ TextsKnown /\ UIStep => Appending'
<1> DEFINE v == ui.written + 1
           id == -v
           x == own_text(v)
           r == service_send_text(x)
<1> SUFFICES ASSUME Shapes, TextsKnown, UIStep, ui'.pc = "append"
             PROVE  Appending'
  BY DEF Appending
<1>1. PICK ps \in Seq(Request) : Sent(ps) /\ ChatStep(ps)
  BY DEF UIStep
<1>2. Writes(ps)
  BY <1>1 DEF ChatStep, Elsewhere, Enters, Opens, Shows, Writes, Appends
<1>3. /\ ui'.written = v /\ app'.chat_history = app.chat_history /\ ps = <<r>>
      /\ UNCHANGED <<net, inbox, server>> /\ ui.written \in Nat
  BY <1>2, Written DEF Writes, SameChat, UIStep
<1>4. ~(-id <= ui.written)
  BY <1>3
<1>5. /\ Absent(id, app.chat_history, net.packet, inbox)
      /\ \A c \in Convs : \A k \in DOMAIN server.log[c] : server.log[c][k].id # id
      /\ conn = "up" => \A i \in DOMAIN outbox :
                          outbox[i].type = "MSG_SEND_TEXT" => outbox[i].text.id # id
  <2> HIDE DEF id
  <2> QED BY <1>4, NotWritten
<1>6. ASSUME conn' = "up"
      PROVE  AnsweredBefore(id, outbox', server.log)
  <2>1. /\ conn = "up" /\ outbox' = outbox \o ps /\ outbox \in Seq(Request)
    BY <1>1, <1>6, Written DEF Sent
  <2>2. r.type = "MSG_SEND_TEXT"
    BY DEF service_send_text
  <2> HIDE DEF r, id
  <2>3. \A k \in DOMAIN ps : k = 1 /\ ps[k].type # "MSG_REQ_HISTORY"
    BY <1>3, <2>2
  <2>4. ASSUME NEW i \in DOMAIN outbox', NEW j \in DOMAIN outbox',
               outbox'[i].type = "MSG_SEND_TEXT", outbox'[i].text.id = id, j > i
        PROVE  outbox'[j].type # "MSG_REQ_HISTORY"
    <3> DEFINE m == Len(outbox)
    <3>1. /\ m \in Nat /\ DOMAIN outbox \subseteq 1..m
          /\ \A k \in DOMAIN outbox' : \/ k \in DOMAIN outbox /\ outbox'[k] = outbox[k]
                                       \/ \E l \in DOMAIN ps : k = m + l /\ outbox'[k] = ps[l]
      <4>1. Len(outbox) \in Nat /\ DOMAIN outbox = 1..Len(outbox)
        BY <2>1
      <4> QED BY <2>1, <4>1, Joined
    <3> HIDE DEF m
    <3>2. i = m + 1
      BY <1>5, <2>1, <2>3, <2>4, <3>1
    <3> QED BY <2>3, <2>4, <3>1, <3>2
  <2> QED BY <1>5, <2>4 DEF AnsweredBefore
<1> QED BY <1>3, <1>5, <1>6 DEF Appending

LEMMA AppendingNet ==
  Shapes /\ TextsKnown /\ Appending /\ (Receives \/ Stores \/ Waits \/ Gone) => Appending'
<1> DEFINE id == -ui.written
<1> SUFFICES ASSUME Shapes, TextsKnown, Appending, Receives \/ Stores \/ Waits \/ Gone,
                    ui.pc = "append"
             PROVE  Appending'
  BY DEF Receives, Stores, Waits, Gone, Appending
<1>1. UNCHANGED <<ui, server>>
  BY DEF Receives, Stores, Waits, Gone
<1>2. /\ Absent(id, app.chat_history, net.packet, inbox)
      /\ conn = "up" => AnsweredBefore(id, outbox, server.log)
  BY DEF Appending
<1>3. inbox \in Seq(Packet) /\ outbox \in Seq(Request)
  BY Written
<1>4. shows(NoPacket) = {}
  BY DEF NoPacket, shows
<1> HIDE DEF id
<1> SUFFICES /\ Absent(id, app'.chat_history, net'.packet, inbox')
             /\ conn' = "up" => AnsweredBefore(id, outbox', server.log)
  BY <1>1 DEF Appending, id
<1>5. CASE Receives
  <2>1. /\ inbox # <<>> /\ inbox' = Tail(inbox) /\ app'.chat_history = app.chat_history
        /\ net'.packet = Head(inbox) \/ net'.packet = net.packet
    BY <1>5 DEF Receives, Keeps, SameChat
  <2>2. /\ Head(inbox) = inbox[1] /\ 1 \in DOMAIN inbox
        /\ \A i \in DOMAIN inbox' : i + 1 \in DOMAIN inbox /\ inbox'[i] = inbox[i + 1]
    BY <1>3, <2>1, Rest
  <2>3. Absent(id, app'.chat_history, net'.packet, inbox')
    BY <1>2, <2>1, <2>2 DEF Absent
  <2>4. ASSUME conn' = "up"
        PROVE  AnsweredBefore(id, outbox', server.log)
    <3>1. CASE UNCHANGED <<outbox, conn>>
      BY <1>2, <2>4, <3>1
    <3>2. CASE Sent(<<service_req_conversations>>)
      <4> DEFINE r == service_req_conversations
                 ps == <<r>>
                 m == Len(outbox)
      <4>1. r \in Request /\ r.type = "MSG_REQ_CONVERSATIONS"
        BY RequestMade DEF service_req_conversations, plain
      <4> HIDE DEF r
      <4>2. ps \in Seq(Request) /\ DOMAIN ps = {1} /\ ps[1] = r
        BY <4>1, OneRequest
      <4>3. outbox' = outbox \o ps /\ conn = "up"
        BY <2>4, <3>2 DEF Sent, r
      <4> HIDE DEF ps
      <4>4. /\ m \in Nat /\ DOMAIN outbox \subseteq 1..m
            /\ \A k \in DOMAIN outbox' : \/ k \in DOMAIN outbox /\ outbox'[k] = outbox[k]
                                         \/ k = m + 1 /\ outbox'[k] = r
        <5>1. Len(outbox) \in Nat /\ DOMAIN outbox = 1..Len(outbox)
          BY <1>3
        <5> QED BY <1>3, <4>2, <4>3, <5>1, Joined
      <4> HIDE DEF m
      <4> QED BY <1>2, <4>1, <4>3, <4>4 DEF AnsweredBefore, Asked
    <3> QED BY <1>5, <3>1, <3>2 DEF Receives
  <2> QED BY <2>3, <2>4
<1>6. CASE Stores
  <2>1. UNCHANGED <<inbox, outbox, conn>> /\ net'.packet = NoPacket
    BY <1>6 DEF Stores
  <2>2. ids_in(app'.chat_history) \subseteq ids_in(app.chat_history) \cup shows(net.packet)
    BY <1>6, StoredLines
  <2> QED BY <1>2, <1>4, <2>1, <2>2 DEF Absent
<1>7. CASE Waits \/ Gone
  <2>1. /\ app' = app /\ (net'.packet = net.packet \/ net'.packet = NoPacket)
        /\ conn' = "up" => conn = "up" /\ outbox' = outbox
    BY <1>7 DEF Waits, Gone
  <2>2. \A i \in DOMAIN inbox' : i \in DOMAIN inbox /\ inbox'[i] = inbox[i]
    <3>1. CASE Gone
      <4>1. \E k \in 0..Len(inbox) : inbox' = SubSeq(inbox, 1, k)
        BY <3>1 DEF Gone
      <4> QED BY <1>3, <4>1, Beginning
    <3>2. CASE Waits
      <4>1. inbox' = inbox \/ (inbox' = <<>> /\ DOMAIN inbox' = {})
        BY <3>2 DEF Waits
      <4> QED BY <4>1
    <3> QED BY <1>7, <3>1, <3>2
  <2> QED BY <1>2, <1>4, <2>1, <2>2 DEF Absent
<1> QED BY <1>5, <1>6, <1>7

LEMMA AppendingServer ==
  Shapes /\ TextsKnown /\ Appending /\ conn = "up" /\ ServerStep => Appending'
<1> DEFINE id == -ui.written
           h == app.chat_history
           held == net.packet
           ask == "MSG_REQ_HISTORY"
           InLog(l) == \E c \in Convs : \E k \in DOMAIN l[c] : l[c][k].id = id
<1> SUFFICES ASSUME Shapes, TextsKnown, Appending, conn = "up", ServerStep, ui.pc = "append"
             PROVE  Appending'
  BY DEF ServerStep, Appending
<1>1. UNCHANGED <<app, ui, net, conn>>
  BY DEF ServerStep
<1>2. Absent(id, h, held, inbox) /\ AnsweredBefore(id, outbox, server.log)
  BY DEF Appending
<1>3. PICK ps \in Seq(Packet) : inbox' = inbox \o ps /\ (Handles(ps) \/ Pushes(ps))
  BY DEF ServerStep
<1>4. /\ inbox \in Seq(Packet) /\ outbox \in Seq(Request) /\ server \in ServerState
      /\ server.log \in [Convs -> Seq(Line)] /\ ui.written \in Nat /\ server.texts \in Nat
  BY Written DEF Shapes
<1>5. ~(id > 0)
  BY <1>4
<1> HIDE DEF id
<1> SUFFICES Absent(id, h, held, inbox') /\ AnsweredBefore(id, outbox', server'.log)
  BY <1>1 DEF Appending, id
<1>6. ASSUME NEW k \in DOMAIN ps
      PROVE  id \notin shows(ps[k])
  <2>1. CASE ps[k].type = "MSG_RTE_TEXT"
    <3>1. PICK text \in Line : /\ text.id = server.texts /\ server.texts > 0
                               /\ ps = <<[type |-> "MSG_RTE_TEXT", text |-> text]>>
      BY <1>3, <2>1 DEF Handles, Pushes, Erases, None
    <3>2. ps[k].text.id = server.texts
      BY <3>1
    <3>3. id # ps[k].text.id
      BY <1>5, <3>1, <3>2
    <3> QED BY <2>1, <3>3 DEF shows
  <2>2. CASE ps[k].type = "MSG_RESP_HISTORY"
    <3> DEFINE r == Head(outbox)
               c == r.conv_id
               p == history_packet(server, c)
    <3>1. outbox # <<>> /\ r.type = ask /\ ps = <<p>>
      BY <1>3, <2>2 DEF Handles, Pushes, Answers, None
    <3>2. r \in Request /\ r = outbox[1] /\ 1 \in DOMAIN outbox
      BY <1>4, <3>1, Rest
    <3>3. Asked(ask, outbox)
      BY <3>1, <3>2 DEF Asked
    <3>4. ~InLog(server.log)
      BY <1>2, <3>3 DEF AnsweredBefore
    <3>5. c \in AnyConv
      BY <3>1, <3>2, RequestParts
    <3>6. \/ p.list = <<>>
          \/ c \in Convs /\ server.log[c] # <<>> /\ p.list = <<server.log[c][1]>>
      BY <1>4, <3>5, HistoryPacket
    <3>7. ps[k] = p
      BY <3>1
    <3>8. ASSUME c \in Convs, server.log[c] # <<>>, p.list = <<server.log[c][1]>>
          PROVE  id \notin ids_in(p.list)
      <4>1. server.log[c] \in Seq(Line)
        BY <1>4, <3>8
      <4>2. 1 \in DOMAIN server.log[c]
        BY <3>8, <4>1, Rest
      <4>3. server.log[c][1].id # id
        BY <3>4, <3>8, <4>2
      <4> DEFINE x == server.log[c][1]
      <4> HIDE DEF x, p
      <4>4. \A i \in DOMAIN <<x>> : <<x>>[i] = x
        OBVIOUS
      <4>5. p.list = <<x>> /\ x.id # id
        BY <3>8, <4>3 DEF x
      <4> QED BY <4>4, <4>5 DEF ids_in
    <3>9. id \notin ids_in(<<>>)
      BY DEF ids_in
    <3> HIDE DEF p, c
    <3>10. id \notin ids_in(p.list)
      BY <3>6, <3>8, <3>9
    <3> QED BY <2>2, <3>7, <3>10 DEF shows
  <2> QED BY <2>1, <2>2 DEF shows
<1>7. Absent(id, h, held, inbox')
  <2>1. \A i \in DOMAIN inbox' : \/ i \in DOMAIN inbox /\ inbox'[i] = inbox[i]
                                 \/ \E k \in DOMAIN ps : inbox'[i] = ps[k]
    BY <1>3, <1>4, Joined
  <2> QED BY <1>2, <1>6, <2>1 DEF Absent
<1>8. \/ outbox' = outbox
      \/ /\ outbox # <<>> /\ outbox[1] = Head(outbox) /\ 1 \in DOMAIN outbox
         /\ \A i \in DOMAIN outbox' : i \in Nat /\ i > 0 /\ i + 1 \in DOMAIN outbox
                                      /\ outbox'[i] = outbox[i + 1]
  <2>1. CASE outbox' = outbox
    BY <2>1
  <2>2. CASE outbox # <<>> /\ outbox' = Tail(outbox)
    <3>1. outbox' \in Seq(Request) /\ outbox[1] = Head(outbox) /\ 1 \in DOMAIN outbox
          /\ \A i \in DOMAIN outbox' : i + 1 \in DOMAIN outbox /\ outbox'[i] = outbox[i + 1]
      BY <1>4, <2>2, Rest
    <3> QED BY <2>2, <3>1
  <2> QED BY <1>3, <2>1, <2>2 DEF Handles, Pushes
<1>9. Asked(ask, outbox') => Asked(ask, outbox)
  BY <1>8 DEF Asked
<1>10. ASSUME NEW i \in DOMAIN outbox', NEW j \in DOMAIN outbox',
              outbox'[i].type = "MSG_SEND_TEXT", outbox'[i].text.id = id, j > i
       PROVE  outbox'[j].type # ask
  <2>1. CASE outbox' = outbox
    BY <1>2, <1>10, <2>1 DEF AnsweredBefore
  <2>2. CASE \A k \in DOMAIN outbox' : k \in Nat /\ k > 0 /\ k + 1 \in DOMAIN outbox
                                       /\ outbox'[k] = outbox[k + 1]
    <3>1. j + 1 > i + 1 /\ i + 1 \in DOMAIN outbox /\ j + 1 \in DOMAIN outbox
      BY <1>10, <2>2
    <3> QED BY <1>2, <1>10, <2>2, <3>1 DEF AnsweredBefore
  <2> QED BY <1>8, <2>1, <2>2
<1>11. ASSUME NEW text \in Line, Logs(text), NEW c \in Convs, NEW k \in DOMAIN server'.log[c],
              server'.log[c][k].id = id
       PROVE  InLog(server.log) \/ text.id = id
  <2> DEFINE old == server.log[c]
             new == server'.log[c]
  <2>1. old \in Seq(Line) /\ k \in DOMAIN new /\ new[k].id = id
    BY <1>4, <1>11
  <2>2. new = old \/ new = Append(old, text)
    BY <1>11 DEF Logs
  <2> HIDE DEF new, old
  <2>3. (k \in DOMAIN old /\ old[k].id = id) \/ text.id = id
    BY <2>1, <2>2, Appended
  <2> QED BY <2>3 DEF old
<1>12. ASSUME NEW c \in Convs, NEW k \in DOMAIN server'.log[c], server'.log[c][k].id = id
       PROVE  ~Asked(ask, outbox')
  <2>1. InLog(server.log) => ~Asked(ask, outbox')
    BY <1>2, <1>9 DEF AnsweredBefore
  <2>2. CASE Erases(ps)
    <3>1. server'.log[c] = server.log[c] \/ server'.log[c] = <<>>
      BY <2>2 DEF Erases
    <3>2. InLog(server.log)
      BY <1>12, <3>1
    <3> QED BY <2>1, <3>2
  <2>3. CASE /\ Handles(ps) /\ Head(outbox).type = "MSG_SEND_TEXT" /\ Logs(Head(outbox).text)
    <3> DEFINE r == Head(outbox)
    <3>1. outbox # <<>> /\ outbox' = Tail(outbox)
      BY <2>3 DEF Handles
    <3>2. /\ r \in Request /\ r = outbox[1] /\ 1 \in DOMAIN outbox /\ outbox' \in Seq(Request)
          /\ \A i \in DOMAIN outbox' : i + 1 \in DOMAIN outbox /\ outbox'[i] = outbox[i + 1]
      BY <1>4, <3>1, Rest
    <3>3. r.text \in Line
      BY <2>3, <3>2, RequestParts
    <3>4. CASE r.text.id = id
      <4>1. \A j \in DOMAIN outbox : j > 1 => outbox[j].type # ask
        BY <1>2, <2>3, <3>2, <3>4 DEF AnsweredBefore
      <4>2. \A i \in DOMAIN outbox' : i + 1 > 1
        BY <3>2
      <4> QED BY <3>2, <4>1, <4>2 DEF Asked
    <3> HIDE DEF r
    <3>5. InLog(server.log) \/ r.text.id = id
      BY <1>11, <1>12, <2>3, <3>3 DEF r
    <3> QED BY <2>1, <3>4, <3>5
  <2>4. CASE \E text \in Line : text.id = server.texts /\ server.texts > 0 /\ Logs(text)
    <3>1. PICK text \in Line : text.id = server.texts /\ server.texts > 0 /\ Logs(text)
      BY <2>4
    <3>2. text.id # id
      BY <1>5, <3>1
    <3>3. InLog(server.log)
      BY <1>11, <1>12, <3>1, <3>2
    <3> QED BY <2>1, <3>3
  <2> QED BY <1>3, <2>2, <2>3, <2>4 DEF Handles, Pushes
<1> QED BY <1>7, <1>10, <1>12 DEF AnsweredBefore

LEMMA AppendingKept == Shapes /\ TextsKnown /\ Steps /\ Appending => Appending'
BY AppendingUI, AppendingNet, AppendingServer DEF Steps

(* A text is on the screen once: an own line, which the UI thread adds     *)
(* after sending the text, is not there again in the answer to a history   *)
(* asked for before, nor is a pushed line that the history brought already.*)
THEOREM EachTextOnce == Spec => []NoTextTwice
<1> DEFINE Inv == Shapes /\ TextsKnown /\ OnScreenOnce /\ Appending
<1>1. Init => Inv
  <2> SUFFICES ASSUME NEW s \in Sessions, ContextInit(s.keys), ServerInit(s)
               PROVE  OnScreenOnce /\ Appending
    BY InitShapes, TextsKnownAtLogin DEF Init
  <2>1. /\ ui.pc = "render" /\ inbox = <<>> /\ net.packet = NoPacket
        /\ app.chat_history = <<>> /\ <<>> \in Seq(Line) /\ Len(<<>>) <= 1
    BY AtLogin DEF app_init
  <2>2. IsInjective(app.chat_history)
    BY <2>1, OneLine
  <2>3. DOMAIN inbox = {} /\ NoPacket.type # "MSG_RTE_TEXT"
    BY <2>1 DEF NoPacket
  <2> QED BY <2>1, <2>2, <2>3 DEF OnScreenOnce, Fresh, Appending
<1>2. Inv /\ [Next]_vars => Inv'
  <2>1. CASE UNCHANGED vars
    <3>1. TextsKnown => TextsKnown'
      BY <2>1 DEF vars, TextsKnown
    <3>2. (OnScreenOnce => OnScreenOnce') /\ (Appending => Appending')
      BY <2>1 DEF vars, OnScreenOnce, Appending
    <3> QED BY <2>1, <3>1, <3>2, Stutter
  <2> QED BY <2>1, NextSteps, ShapesKept, TextsKnownKept, OnceKept, AppendingKept
<1>3. Inv => NoTextTwice
  BY DEF OnScreenOnce, NoTextTwice
<1> QED BY <1>1, <1>2, <1>3, PTL DEF Spec
=============================================================================
