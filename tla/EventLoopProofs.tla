-------------------------- MODULE EventLoopProofs ---------------------------
(***************************************************************************)
(* What the loop of src/server/main.c keeps, for any number of peers,      *)
(* descriptors and packets: its type invariant, the correspondence of      *)
(* clients, descriptors and epoll_fd, the events of a batch, and the       *)
(* alternation of headers and payloads on a connection.                    *)
(***************************************************************************)
EXTENDS EventLoop, TLAPS, FiniteSetTheorems, SequenceTheorems, WellFoundedInduction

(***************************************************************************)
(* The inductive invariant.                                                *)
(***************************************************************************)
Places == {"wait", "next", "handshake", "header", "payload", "write"}

LoopShape ==
  loop \in [pc : Places, events : Seq(Fds \cup {server_fd}),
            fd : Fds \cup {server_fd}, targets : SUBSET Fds]

(* An accepted connection belongs to one peer, and is its only one.        *)
OnePeerEach ==
  \A fd \in Fds : owner[fd] # NoPeer =>
    /\ peer[owner[fd]].at = "in"
    /\ \A other \in Fds : owner[other] = owner[fd] => other = fd

WaitInBacklog == \A i \in DOMAIN backlog : peer[backlog[i]].at = "backlog"

ConnectionsOwned == \A fd \in epoll : owner[fd] # NoPeer

EventsOnce ==
  /\ IsInjective(loop.events)
  /\ loop.pc = "wait" <=> loop.events = <<>>

(* Between epoll_wait and accept nobody else takes from the backlog.       *)
SomeoneWaits ==
  loop.pc # "handshake" /\ (\E i \in DOMAIN loop.events : loop.events[i] = server_fd) =>
    backlog # <<>>

(* The descriptor at hand is that of the first event left, except in a     *)
(* handshake, when it is on its way into epoll_fd.                         *)
AtHand ==
  /\ loop.pc = "handshake" =>
       /\ loop.fd \in Fds \ epoll /\ owner[loop.fd] # NoPeer
       /\ Head(loop.events) = server_fd
  /\ loop.pc \in {"header", "payload", "write"} =>
       loop.fd \in epoll /\ loop.fd = Head(loop.events)
  /\ loop.targets \subseteq epoll

(* The header of a packet has been read, its payload has not.              *)
mid_packet(p) == loop.pc = "payload" /\ owner[loop.fd] = p

(* A stream is cut between units, and each payload follows its header.     *)
InTurn(stream, mid) ==
  /\ stream # <<>> => (stream[1] = "payload" <=> mid)
  /\ \A i \in 1..(Len(stream) - 1) :
       stream[i + 1] = "payload" <=> stream[i] = "header"

(* A payload is what has to be sent after the stream.                      *)
EndsInHeader(stream, mid) ==
  IF stream = <<>> THEN mid ELSE stream[Len(stream)] = "header"

Alternate ==
  \A p \in Peers :
    /\ InTurn(peer[p].stream, mid_packet(p))
    /\ ~peer[p].hung => (peer[p].half <=> EndsInHeader(peer[p].stream, mid_packet(p)))

Inv ==
  /\ LoopShape /\ TypeOK /\ ClientsAreConnections /\ EventsBelongToConnections
  /\ OnePeerEach /\ WaitInBacklog /\ ConnectionsOwned
  /\ EventsOnce /\ SomeoneWaits /\ AtHand /\ Alternate

(* The conjuncts about the batch, and those about the descriptors.         *)
Batch ==
  LoopShape /\ EventsBelongToConnections /\ EventsOnce /\ SomeoneWaits /\ AtHand

Table ==
  /\ clients \in Seq(Fds) /\ epoll \subseteq Fds
  /\ owner \in [Fds -> Peers \cup {NoPeer}]
  /\ backlog \in Seq(Peers) /\ IsInjective(backlog)
  /\ peer \in [Peers -> PeerState]

-----------------------------------------------------------------------------
(* Sequences                                                               *)

LEMMA InvParts ==
  /\ Inv <=> /\ Batch /\ Table /\ ClientsAreConnections /\ OnePeerEach
             /\ WaitInBacklog /\ ConnectionsOwned /\ Alternate
  /\ LoopShape /\ Table => TypeOK
<1>1. LoopShape /\ Table => TypeOK
  BY DEF LoopShape, Table, TypeOK, Places
<1>2. TypeOK => Table
  BY DEF Table, TypeOK
<1> QED BY <1>1, <1>2 DEF Inv, Batch

LEMMA InvPartsAfter ==
  Batch' /\ Table' /\ ClientsAreConnections' /\ OnePeerEach' /\ WaitInBacklog'
    /\ ConnectionsOwned' /\ Alternate' => Inv'
<1>1. LoopShape' /\ Table' => TypeOK'
  BY DEF LoopShape, Table, TypeOK, Places
<1> QED BY <1>1 DEF Inv, Batch

(* A sequence and its tail.                                                *)
LEMMA TailElements ==
  ASSUME NEW S, NEW s \in Seq(S), s # <<>>
  PROVE  /\ Head(s) = s[1] /\ Head(s) \in S /\ Len(s) \in Nat \ {0}
         /\ DOMAIN s = 1..Len(s) /\ 1 \in DOMAIN s
         /\ Tail(s) \in Seq(S) /\ Len(Tail(s)) = Len(s) - 1
         /\ DOMAIN Tail(s) = 1..(Len(s) - 1)
         /\ \A i \in 1..(Len(s) - 1) :
              i + 1 \in DOMAIN s /\ Tail(s)[i] = s[i + 1] /\ s[i + 1] \in S
         /\ Tail(s) = <<>> <=> Len(s) = 1
<1>1. /\ Head(s) = s[1] /\ Len(s) \in Nat \ {0}
      /\ DOMAIN s = 1..Len(s) /\ 1 \in DOMAIN s
  OBVIOUS
<1>2. \A i \in DOMAIN s : s[i] \in S
  OBVIOUS
<1>3. /\ Tail(s) \in Seq(S) /\ Len(Tail(s)) = Len(s) - 1
      /\ DOMAIN Tail(s) = 1..(Len(s) - 1)
  OBVIOUS
<1>4. \A i \in 1..(Len(s) - 1) : Tail(s)[i] = s[i + 1]
  OBVIOUS
<1>5. Tail(s) = <<>> <=> Len(s) = 1
  <2> DEFINE t == Tail(s)
  <2>1. t \in Seq(S) /\ Len(t) = Len(s) - 1
    BY <1>3
  <2> HIDE DEF t
  <2>2. t = <<>> <=> Len(t) = 0
    BY <2>1, EmptySeq
  <2> QED BY <1>1, <2>1, <2>2 DEF t
<1>6. \A i \in 1..(Len(s) - 1) : i + 1 \in DOMAIN s
  BY <1>1
<1> QED BY <1>1, <1>2, <1>3, <1>4, <1>5, <1>6

(* In a sequence without repetition the head does not come again.          *)
LEMMA TailInjective ==
  ASSUME NEW S, NEW s \in Seq(S), s # <<>>, IsInjective(s)
  PROVE  /\ IsInjective(Tail(s))
         /\ \A i \in DOMAIN Tail(s) : Tail(s)[i] # Head(s)
BY TailElements DEF IsInjective

LEMMA AppendedOnce ==
  ASSUME NEW S, NEW s \in Seq(S), NEW e \in S, IsInjective(s),
         \A i \in DOMAIN s : s[i] # e
  PROVE  IsInjective(Append(s, e))
<1> DEFINE t == Append(s, e)
<1>1. /\ Len(s) \in Nat /\ DOMAIN s = 1..Len(s)
      /\ DOMAIN t = 1..(Len(s) + 1)
      /\ \A i \in 1..Len(s) : t[i] = s[i]
      /\ t[Len(s) + 1] = e
  OBVIOUS
<1> HIDE DEF t
<1>2. ASSUME NEW i \in DOMAIN t, NEW j \in DOMAIN t, t[i] = t[j], i < j
      PROVE  FALSE
  <2>1. i \in DOMAIN s /\ t[i] = s[i]
    BY <1>1, <1>2 DEF t
  <2>2. CASE j = Len(s) + 1
    BY <1>1, <1>2, <2>1, <2>2 DEF t
  <2>3. CASE j # Len(s) + 1
    <3>1. j \in DOMAIN s /\ t[j] = s[j]
      BY <1>1, <2>3 DEF t
    <3>2. i = j
      BY <1>2, <2>1, <3>1 DEF IsInjective
    <3> QED BY <1>1, <1>2, <2>1, <3>2
  <2> QED BY <2>2, <2>3
<1>3. \A i, j \in DOMAIN t : t[i] = t[j] => i = j
  BY <1>1, <1>2 DEF t
<1>4. IsInjective(t)
  BY <1>3 DEF IsInjective
<1> QED BY <1>4 DEF t

(* add_client: the new one comes first.                                    *)
LEMMA Prepended ==
  ASSUME NEW S, NEW s \in Seq(S), NEW e \in S, IsInjective(s), e \notin Range(s)
  PROVE  /\ <<e>> \o s \in Seq(S)
         /\ IsInjective(<<e>> \o s)
         /\ Range(<<e>> \o s) = Range(s) \cup {e}
<1> DEFINE t == <<e>> \o s
<1>1. /\ Len(s) \in Nat /\ DOMAIN s = 1..Len(s)
      /\ t \in Seq(S) /\ DOMAIN t = 1..(Len(s) + 1)
      /\ t[1] = e
      /\ \A i \in 1..Len(s) : t[i + 1] = s[i]
  OBVIOUS
<1>2. \A i \in 2..(Len(s) + 1) : i - 1 \in DOMAIN s /\ t[i] = s[i - 1]
  <2> SUFFICES ASSUME NEW i \in 2..(Len(s) + 1)
               PROVE  i - 1 \in DOMAIN s /\ t[i] = s[i - 1]
    OBVIOUS
  <2>1. i - 1 \in 1..Len(s) /\ (i - 1) + 1 = i
    BY <1>1
  <2> QED BY <1>1, <2>1
<1> HIDE DEF t
<1>3. IsInjective(t)
  <2>1. \A i \in 2..(Len(s) + 1) : t[i] # e
    BY <1>2 DEF Range
  <2>2. \A i \in 1..(Len(s) + 1) : i = 1 \/ i \in 2..(Len(s) + 1)
    BY <1>1
  <2>3. ASSUME NEW i \in 2..(Len(s) + 1), NEW j \in 2..(Len(s) + 1), t[i] = t[j]
        PROVE  i = j
    <3>1. s[i - 1] = s[j - 1] /\ i - 1 \in DOMAIN s /\ j - 1 \in DOMAIN s
      BY <1>2, <2>3
    <3>2. i - 1 = j - 1
      BY <3>1 DEF IsInjective
    <3>3. i \in Int /\ j \in Int
      BY <1>1
    <3> QED BY <3>2, <3>3
  <2>4. ASSUME NEW i \in DOMAIN t, NEW j \in DOMAIN t, t[i] = t[j]
        PROVE  i = j
    <3>1. (i = 1 \/ i \in 2..(Len(s) + 1)) /\ (j = 1 \/ j \in 2..(Len(s) + 1))
      BY <1>1, <2>2
    <3>2. t[1] = e
      BY <1>1
    <3> QED BY <2>1, <2>3, <2>4, <3>1, <3>2
  <2> QED BY <2>4 DEF IsInjective
<1>4. Range(t) = Range(s) \cup {e}
  <2>1. ASSUME NEW i \in DOMAIN t PROVE t[i] \in Range(s) \cup {e}
    <3>1. i = 1 \/ i \in 2..(Len(s) + 1)
      BY <1>1
    <3>2. CASE i = 1
      BY <1>1, <3>2
    <3>3. CASE i \in 2..(Len(s) + 1)
      BY <1>2, <3>3 DEF Range
    <3> QED BY <3>1, <3>2, <3>3
  <2>2. ASSUME NEW i \in DOMAIN s PROVE s[i] \in Range(t)
    <3>1. i + 1 \in DOMAIN t /\ t[i + 1] = s[i]
      BY <1>1
    <3> QED BY <3>1 DEF Range
  <2>3. e \in Range(t)
    <3>1. 1 \in DOMAIN t /\ t[1] = e
      BY <1>1
    <3> QED BY <3>1 DEF Range
  <2> QED BY <2>1, <2>2, <2>3 DEF Range
<1> QED BY <1>1, <1>3, <1>4 DEF t

(* RemoveAt: the others close up.                                          *)
LEMMA ClosedUp ==
  ASSUME NEW S, NEW s \in Seq(S), NEW k \in DOMAIN s
  PROVE  /\ RemoveAt(s, k) \in Seq(S)
         /\ DOMAIN RemoveAt(s, k) = 1..(Len(s) - 1)
         /\ \A i \in 1..(Len(s) - 1) :
              RemoveAt(s, k)[i] = IF i < k THEN s[i] ELSE s[i + 1]
<1> DEFINE a == SubSeq(s, 1, k - 1)
           b == SubSeq(s, k + 1, Len(s))
<1>1. Len(s) \in Nat /\ k \in 1..Len(s)
  OBVIOUS
<1>2. a \in Seq(S) /\ Len(a) = k - 1 /\ \A i \in 1..(k - 1) : a[i] = s[i]
  BY <1>1
<1>3. b \in Seq(S)
  BY <1>1
<1>4. Len(b) = Len(s) - k
  BY <1>1
<1>5. \A i \in 1..(Len(s) - k) : b[i] = s[i + k]
  BY <1>1
<1> HIDE DEF a, b
<1> DEFINE t == a \o b
<1>6. t \in Seq(S) /\ DOMAIN t = 1..(Len(s) - 1)
  BY <1>1, <1>2, <1>3, <1>4
<1>7. ASSUME NEW i \in 1..(Len(s) - 1)
      PROVE  t[i] = IF i < k THEN s[i] ELSE s[i + 1]
  <2>1. CASE i < k
    BY <1>1, <1>2, <1>3, <1>4, <2>1
  <2>2. CASE ~(i < k)
    <3>1. i - (k - 1) \in 1..(Len(s) - k) /\ (i - (k - 1)) + k = i + 1
      BY <1>1, <2>2
    <3>2. t[i] = b[i - (k - 1)]
      <4>1. i \in 1..(Len(a) + Len(b)) /\ ~(i <= Len(a))
        BY <1>1, <1>2, <1>4, <2>2
      <4>2. a \in Seq(S) /\ b \in Seq(S)
        BY <1>2, <1>3
      <4>3. t[i] = b[i - Len(a)]
        BY <4>1, <4>2
      <4> QED BY <1>2, <4>3
    <3> QED BY <1>5, <2>2, <3>1, <3>2
  <2> QED BY <2>1, <2>2
<1>8. RemoveAt(s, k) = t
  BY DEF RemoveAt, a, b
<1> QED BY <1>6, <1>7, <1>8

(* RemoveFirst looks for the first position of an element.                 *)
LEMMA RemovedSomewhere ==
  ASSUME NEW S, NEW s \in Seq(S), NEW e \in Range(s)
  PROVE  \E k \in DOMAIN s : s[k] = e /\ RemoveFirst(s, e) = RemoveAt(s, k)
<1> DEFINE I == {i \in 1..Len(s) : s[i] = e}
<1>1. DOMAIN s = 1..Len(s) /\ Len(s) \in Nat
  OBVIOUS
<1>2. I # {} /\ I \subseteq Nat
  BY <1>1 DEF Range
<1>3. \E x \in I : \A y \in I : ~(<<y, x>> \in OpToRel(<, Nat))
  BY <1>2, NatLessThanWellFounded, WFMin
<1>4. \A x, y \in Nat : <<y, x>> \notin OpToRel(<, Nat) => x <= y
  BY DEF OpToRel
<1>5. \E x \in I : \A y \in I : x <= y
  BY <1>2, <1>3, <1>4
<1>6. Min(I) \in I
  BY <1>5 DEF Min
<1>7. \E i \in 1..Len(s) : s[i] = e
  BY <1>2
<1>8. SelectInSeq(s, LAMBDA v : v = e) = Min(I)
  BY <1>2 DEF SelectInSeq
<1>9. RemoveFirst(s, e) = RemoveAt(s, Min(I))
  BY <1>7, <1>8 DEF RemoveFirst
<1> QED BY <1>1, <1>6, <1>9

(* remove_client: a client is in the list once, and then no more.          *)
LEMMA Removed ==
  ASSUME NEW S, NEW s \in Seq(S), IsInjective(s), NEW e \in Range(s)
  PROVE  /\ RemoveFirst(s, e) \in Seq(S)
         /\ IsInjective(RemoveFirst(s, e))
         /\ Range(RemoveFirst(s, e)) = Range(s) \ {e}
<1>1. PICK k \in DOMAIN s : s[k] = e /\ RemoveFirst(s, e) = RemoveAt(s, k)
  BY RemovedSomewhere
<1> DEFINE t == RemoveFirst(s, e)
<1>2. /\ t \in Seq(S) /\ DOMAIN t = 1..(Len(s) - 1)
      /\ \A i \in 1..(Len(s) - 1) : t[i] = IF i < k THEN s[i] ELSE s[i + 1]
  BY <1>1, ClosedUp
<1>3. Len(s) \in Nat /\ k \in 1..Len(s) /\ DOMAIN s = 1..Len(s)
  OBVIOUS
<1> HIDE DEF t
<1> DEFINE old(i) == IF i < k THEN i ELSE i + 1
<1>4. \A i \in DOMAIN t : old(i) \in DOMAIN s /\ old(i) # k /\ t[i] = s[old(i)]
  BY <1>2, <1>3
<1>5. \A i, j \in DOMAIN t : old(i) = old(j) => i = j
  BY <1>2, <1>3
<1>6. \A j \in DOMAIN s \ {k} : \E i \in DOMAIN t : old(i) = j
  <2> SUFFICES ASSUME NEW j \in DOMAIN s \ {k}
               PROVE  \E i \in DOMAIN t : old(i) = j
    OBVIOUS
  <2>1. CASE j < k
    BY <1>2, <1>3, <2>1
  <2>2. CASE ~(j < k)
    <3>1. j - 1 \in DOMAIN t /\ ~(j - 1 < k) /\ (j - 1) + 1 = j
      BY <1>2, <1>3, <2>2
    <3> QED BY <3>1
  <2> QED BY <2>1, <2>2
<1> HIDE DEF old
<1>7. IsInjective(t)
  BY <1>4, <1>5 DEF IsInjective
<1>8. Range(t) = Range(s) \ {e}
  <2>1. \A i \in DOMAIN t : t[i] \in Range(s) /\ t[i] # e
    BY <1>1, <1>4 DEF IsInjective, Range
  <2>2. \A j \in DOMAIN s : s[j] # e => \E i \in DOMAIN t : t[i] = s[j]
    BY <1>1, <1>4, <1>6
  <2> QED BY <2>1, <2>2 DEF Range
<1> QED BY <1>2, <1>7, <1>8 DEF t

-----------------------------------------------------------------------------
(* Streams                                                                 *)

(* A stream continues as it ended.                                         *)
LEMMA SentInTurn ==
  ASSUME NEW s \in Seq(Units), NEW mid \in BOOLEAN, InTurn(s, mid),
         NEW unit \in Units,
         unit = "payload" <=> EndsInHeader(s, mid)
  PROVE  /\ InTurn(Append(s, unit), mid)
         /\ EndsInHeader(Append(s, unit), mid) <=> unit = "header"
<1> DEFINE t == Append(s, unit)
<1>1. /\ Len(s) \in Nat /\ t # <<>> /\ Len(t) = Len(s) + 1
      /\ t[Len(s) + 1] = unit
      /\ \A i \in 1..Len(s) : t[i] = s[i]
      /\ s = <<>> <=> Len(s) = 0
  BY EmptySeq
<1> HIDE DEF t
<1>2. t[1] = "payload" <=> mid
  <2>1. CASE s = <<>>
    BY <1>1, <2>1 DEF EndsInHeader
  <2>2. CASE s # <<>>
    BY <1>1, <2>2 DEF InTurn
  <2> QED BY <2>1, <2>2
<1>3. \A i \in 1..(Len(t) - 1) : t[i + 1] = "payload" <=> t[i] = "header"
  <2> SUFFICES ASSUME NEW i \in 1..Len(s)
               PROVE  t[i + 1] = "payload" <=> t[i] = "header"
    BY <1>1
  <2>1. CASE i = Len(s)
    BY <1>1, <2>1 DEF EndsInHeader
  <2>2. CASE i # Len(s)
    BY <1>1, <2>2 DEF InTurn
  <2> QED BY <2>1, <2>2
<1>4. EndsInHeader(t, mid) <=> unit = "header"
  BY <1>1 DEF EndsInHeader
<1> QED BY <1>2, <1>3, <1>4 DEF InTurn, t

(* After a header comes its payload, after another unit does not.          *)
LEMMA TakenInTurn ==
  ASSUME NEW s \in Seq(Units), s # <<>>, NEW mid \in BOOLEAN, InTurn(s, mid)
  PROVE  /\ Tail(s) \in Seq(Units)
         /\ InTurn(Tail(s), s[1] = "header")
         /\ EndsInHeader(Tail(s), s[1] = "header") <=> EndsInHeader(s, mid)
<1> DEFINE t == Tail(s)
<1>1. /\ Len(s) \in Nat \ {0} /\ t \in Seq(Units) /\ Len(t) = Len(s) - 1
      /\ \A i \in 1..(Len(s) - 1) : t[i] = s[i + 1]
      /\ t = <<>> <=> Len(s) = 1
  BY TailElements
<1> HIDE DEF t
<1>2. t # <<>> => (t[1] = "payload" <=> s[1] = "header")
  BY <1>1 DEF InTurn
<1>3. \A i \in 1..(Len(t) - 1) : t[i + 1] = "payload" <=> t[i] = "header"
  <2> SUFFICES ASSUME NEW i \in 1..(Len(t) - 1)
               PROVE  t[i + 1] = "payload" <=> t[i] = "header"
    OBVIOUS
  <2>1. t[i] = s[i + 1] /\ t[i + 1] = s[(i + 1) + 1] /\ i + 1 \in 1..(Len(s) - 1)
    BY <1>1
  <2> QED BY <2>1 DEF InTurn
<1>4. EndsInHeader(t, s[1] = "header") <=> EndsInHeader(s, mid)
  <2>1. CASE t = <<>>
    BY <1>1, <2>1 DEF EndsInHeader
  <2>2. CASE t # <<>>
    <3>1. t[Len(t)] = s[Len(s)]
      BY <1>1, <2>2
    <3> QED BY <2>2, <3>1 DEF EndsInHeader
  <2> QED BY <2>1, <2>2
<1> QED BY <1>1, <1>2, <1>3, <1>4 DEF InTurn, t

(* What is left of a stream that was cut.                                  *)
LEMMA CutInTurn ==
  ASSUME NEW s \in Seq(Units), NEW mid \in BOOLEAN, InTurn(s, mid),
         NEW n \in 0..Len(s)
  PROVE  SubSeq(s, 1, n) \in Seq(Units) /\ InTurn(SubSeq(s, 1, n), mid)
<1> DEFINE t == SubSeq(s, 1, n)
<1>1. /\ t \in Seq(Units) /\ Len(t) = n /\ Len(s) \in Nat
      /\ \A i \in 1..n : t[i] = s[i]
      /\ t = <<>> <=> n = 0
      /\ s = <<>> <=> Len(s) = 0
  BY EmptySeq
<1> HIDE DEF t
<1>2. t # <<>> => (t[1] = "payload" <=> mid)
  BY <1>1 DEF InTurn
<1>3. \A i \in 1..(Len(t) - 1) : t[i + 1] = "payload" <=> t[i] = "header"
  BY <1>1 DEF InTurn
<1> QED BY <1>1, <1>2, <1>3 DEF InTurn, t

-----------------------------------------------------------------------------
(* The batch                                                               *)

LEMMA InitInv == Init => Inv
<1> SUFFICES ASSUME Init PROVE Inv
  OBVIOUS
<1>1. Away \in PeerState
  BY LoopConstants DEF Away, PeerState
<1>2. Table
  BY <1>1 DEF Init, Table, IsInjective
<1>3. Batch
  BY DEF Init, Idle, Batch, LoopShape, Places, EventsBelongToConnections,
         EventsOnce, SomeoneWaits, AtHand, IsInjective
<1>4. ClientsAreConnections /\ OnePeerEach /\ WaitInBacklog /\ ConnectionsOwned
  BY DEF Init, ClientsAreConnections, IsInjective, Range, OnePeerEach,
         WaitInBacklog, ConnectionsOwned
<1>5. Alternate
  BY DEF Init, Alternate, Away, Idle, mid_packet, InTurn, EndsInHeader
<1> QED BY <1>2, <1>3, <1>4, <1>5, InvParts

(* next_event: the batch without its first event.                          *)
LEMMA NextEvent ==
  ASSUME LoopShape, loop.events # <<>>
  PROVE  /\ next_event \in [pc : {"wait", "next"}, events : Seq(Fds \cup {server_fd}),
                             fd : Fds \cup {server_fd}, targets : {{}}]
         /\ next_event.events = Tail(loop.events)
         /\ next_event.pc = "wait" <=> next_event.events = <<>>
<1> DEFINE s == loop.events
<1>1. s \in Seq(Fds \cup {server_fd})
  BY DEF LoopShape
<1> HIDE DEF s
<1>2. /\ Tail(s) \in Seq(Fds \cup {server_fd}) /\ Len(s) \in Nat \ {0}
      /\ Tail(s) = <<>> <=> Len(s) = 1
  BY <1>1, TailElements DEF s
<1> DEFINE place == IF Len(s) > 1 THEN "next" ELSE "wait"
           rest == Tail(s)
<1>3. place \in {"wait", "next"} /\ (place = "wait" <=> rest = <<>>)
  <2>1. CASE Len(s) = 1
    BY <1>2, <2>1
  <2>2. CASE Len(s) # 1
    <3>1. Len(s) > 1
      BY <1>2, <2>2
    <3> QED BY <1>2, <2>2, <3>1
  <2> QED BY <2>1, <2>2
<1>4. next_event = [Idle EXCEPT !.pc = place, !.events = rest]
  BY DEF next_event, s
<1> HIDE DEF place, rest
<1>5. \A P, E : \A p \in P, r \in E :
        LET next == [Idle EXCEPT !.pc = p, !.events = r]
        IN  /\ next \in [pc : P, events : E, fd : {server_fd}, targets : {{}}]
            /\ next.pc = p /\ next.events = r
  BY DEF Idle
<1>6. rest \in Seq(Fds \cup {server_fd})
  BY <1>2 DEF rest
<1>7. /\ next_event \in [pc : {"wait", "next"}, events : Seq(Fds \cup {server_fd}),
                         fd : {server_fd}, targets : {{}}]
      /\ next_event.pc = place /\ next_event.events = rest
  BY <1>3, <1>4, <1>5, <1>6
<1> QED BY <1>3, <1>7 DEF rest, s

(* An event is done with: at most its own connection has been closed.      *)
LEMMA EventDone ==
  ASSUME Batch, loop.events # <<>>, loop' = next_event,
         epoll \ {Head(loop.events)} \subseteq epoll',
         \/ backlog' = backlog
         \/ Head(loop.events) = server_fd
  PROVE  Batch' /\ loop'.pc \in {"wait", "next"}
<1> DEFINE s == loop.events
           t == Tail(s)
<1>1. /\ s \in Seq(Fds \cup {server_fd}) /\ s # <<>> /\ IsInjective(s)
      /\ \A i \in DOMAIN s : s[i] = server_fd \/ s[i] \in epoll
  BY DEF Batch, LoopShape, EventsOnce, EventsBelongToConnections
<1>2. /\ loop' \in [pc : {"wait", "next"}, events : Seq(Fds \cup {server_fd}),
                     fd : Fds \cup {server_fd}, targets : {{}}]
      /\ loop'.events = t
      /\ loop'.pc = "wait" <=> t = <<>>
  BY NextEvent DEF Batch
<1> HIDE DEF s, t
<1>3. IsInjective(t) /\ \A i \in DOMAIN t : t[i] # Head(s)
  BY <1>1, TailInjective DEF t
<1>4. \A i \in DOMAIN t : \E j \in DOMAIN s : t[i] = s[j]
  BY <1>1, TailElements DEF t
<1>5. LoopShape'
  BY <1>2 DEF LoopShape, Places
<1>6. EventsBelongToConnections'
  BY <1>1, <1>2, <1>3, <1>4 DEF EventsBelongToConnections, s
<1>7. EventsOnce'
  BY <1>2, <1>3 DEF EventsOnce
<1>8. SomeoneWaits'
  <2>1. CASE Head(s) = server_fd
    BY <1>2, <1>3, <2>1 DEF SomeoneWaits
  <2>2. CASE Head(s) # server_fd
    <3>1. backlog' = backlog /\ loop.pc # "handshake"
      BY <2>2 DEF Batch, AtHand, s
    <3> QED BY <1>2, <1>4, <3>1 DEF Batch, SomeoneWaits, s
  <2> QED BY <2>1, <2>2
<1>9. AtHand'
  BY <1>2 DEF AtHand
<1> QED BY <1>2, <1>5, <1>6, <1>7, <1>8, <1>9 DEF Batch

(* Who is alone with a batch event to handle, and what it is.              *)
LEMMA EventAtHand ==
  ASSUME Inv, loop.pc # "wait"
  PROVE  /\ loop.events # <<>>
         /\ Head(loop.events) = server_fd \/ Head(loop.events) \in epoll
         /\ Head(loop.events) = server_fd /\ loop.pc # "handshake" => backlog # <<>>
<1> DEFINE s == loop.events
<1>1. s \in Seq(Fds \cup {server_fd}) /\ s # <<>>
  BY DEF Inv, LoopShape, EventsOnce
<1> HIDE DEF s
<1>2. Head(s) = s[1] /\ 1 \in DOMAIN s
  BY <1>1, TailElements
<1> QED BY <1>1, <1>2 DEF Inv, EventsBelongToConnections, SomeoneWaits, s

(* close: the peer of the descriptor is away, all others are as they were. *)
LEMMA Closed ==
  ASSUME Inv, loop.fd \in Fds, owner[loop.fd] # NoPeer, close(loop.fd),
         backlog' = backlog, epoll' = epoll \ {loop.fd},
         loop'.pc \in {"wait", "next"}
  PROVE  /\ owner' \in [Fds -> Peers \cup {NoPeer}] /\ peer' \in [Peers -> PeerState]
         /\ OnePeerEach' /\ WaitInBacklog' /\ ConnectionsOwned' /\ Alternate'
<1> DEFINE f == loop.fd
           q == owner[f]
<1>1. /\ owner \in [Fds -> Peers \cup {NoPeer}] /\ peer \in [Peers -> PeerState]
      /\ epoll \subseteq Fds /\ backlog \in Seq(Peers) /\ q \in Peers
      /\ peer[q].at = "in"
  BY DEF Inv, TypeOK, OnePeerEach
<1>2. owner' = [owner EXCEPT ![f] = NoPeer] /\ peer' = [peer EXCEPT ![q] = Away]
  BY DEF close
<1>3. Away \in PeerState
  BY LoopConstants DEF Away, PeerState
<1>4. owner' \in [Fds -> Peers \cup {NoPeer}] /\ peer' \in [Peers -> PeerState]
  BY <1>1, <1>2, <1>3
<1>5. /\ peer'[q] = Away /\ \A p \in Peers \ {q} : peer'[p] = peer[p]
      /\ owner'[f] = NoPeer /\ \A fd \in Fds \ {f} : owner'[fd] = owner[fd]
  BY <1>1, <1>2
<1>6. \A fd \in Fds \ {f} : owner[fd] # q
  BY <1>1 DEF Inv, OnePeerEach
<1> HIDE DEF f, q
<1>7. OnePeerEach'
  <2> SUFFICES ASSUME NEW fd \in Fds, owner'[fd] # NoPeer
               PROVE  /\ peer'[owner'[fd]].at = "in"
                      /\ \A other \in Fds : owner'[other] = owner'[fd] => other = fd
    BY DEF OnePeerEach
  <2>1. fd # f /\ owner'[fd] = owner[fd] /\ owner[fd] \in Peers \ {q}
    BY <1>1, <1>5, <1>6
  <2>2. peer'[owner'[fd]] = peer[owner[fd]]
    BY <1>5, <2>1
  <2> QED BY <1>5, <2>1, <2>2 DEF Inv, OnePeerEach
<1>8. WaitInBacklog'
  <2> SUFFICES ASSUME NEW i \in DOMAIN backlog
               PROVE  peer'[backlog[i]].at = "backlog"
    BY DEF WaitInBacklog
  <2>1. backlog[i] \in Peers /\ peer[backlog[i]].at = "backlog"
    BY <1>1 DEF Inv, WaitInBacklog
  <2> QED BY <1>1, <1>5, <2>1
<1>9. ConnectionsOwned'
  BY <1>1, <1>5 DEF Inv, ConnectionsOwned, f
<1>10. Alternate'
  <2> SUFFICES ASSUME NEW p \in Peers
               PROVE  /\ InTurn(peer'[p].stream, FALSE)
                      /\ ~peer'[p].hung => (peer'[p].half <=> EndsInHeader(peer'[p].stream, FALSE))
    BY DEF Alternate, mid_packet
  <2>1. CASE p = q
    BY <1>5, <2>1 DEF Away, InTurn, EndsInHeader
  <2>2. CASE p # q
    BY <1>5, <2>2 DEF Inv, Alternate, mid_packet, f, q
  <2> QED BY <2>1, <2>2
<1> QED BY <1>4, <1>7, <1>8, <1>9, <1>10

-----------------------------------------------------------------------------
(* The steps of the thread                                                 *)

LEMMA EpollWaitStep == Inv /\ EpollWait => Inv'
<1> SUFFICES ASSUME Inv, EpollWait PROVE Inv'
  OBVIOUS
<1>1. PICK batch \in SUBSET readable :
        /\ \/ batch = readable /\ Cardinality(batch) <= MAX_EVENTS
           \/ Cardinality(batch) = MAX_EVENTS
        /\ \E events \in SetToSeqs(batch) :
             loop' = [loop EXCEPT !.pc = "next", !.events = events]
  BY DEF EpollWait
<1>0. PICK events \in SetToSeqs(batch) :
        loop' = [loop EXCEPT !.pc = "next", !.events = events]
  BY <1>1
<1>2. /\ loop.pc = "wait" /\ readable # {}
      /\ UNCHANGED <<clients, epoll, owner, backlog, peer>>
  BY DEF EpollWait
<1>3. /\ batch \subseteq epoll \cup {server_fd} /\ epoll \subseteq Fds
      /\ server_fd \in batch => backlog # <<>>
  BY LoopConstants DEF Inv, TypeOK, readable
<1>4. IsFiniteSet(batch)
  <2>1. IsFiniteSet(Fds \cup {server_fd})
    BY LoopConstants, FS_Singleton, FS_Union
  <2> QED BY <1>3, <2>1, FS_Subset
<1>5. Cardinality(batch) \in Nat /\ Cardinality(batch) # 0
  <2>1. Cardinality(batch) \in Nat /\ (Cardinality(batch) = 0 <=> batch = {})
    BY <1>4, FS_CardinalityType, FS_EmptySet
  <2> QED BY <1>1, <1>2, <2>1, LoopConstants
<1> DEFINE n == Cardinality(batch)
<1> HIDE DEF n
<1>6. /\ n \in Nat \ {0} /\ events \in [1..n -> batch]
      /\ \A i, j \in 1..n : i # j => events[i] # events[j]
  BY <1>5 DEF SetToSeqs, n
<1>7. /\ events \in Seq(Fds \cup {server_fd}) /\ DOMAIN events = 1..n
      /\ IsInjective(events) /\ events # <<>>
  <2>1. events \in [1..n -> Fds \cup {server_fd}]
    BY <1>3, <1>6
  <2>2. events \in Seq(Fds \cup {server_fd}) /\ DOMAIN events = 1..n
    BY <1>6, <2>1, SeqDef
  <2>3. IsInjective(events)
    BY <1>6, <2>2 DEF IsInjective
  <2>4. 1 \in DOMAIN events
    BY <1>6, <2>2
  <2>5. events # <<>>
    BY <2>4
  <2> QED BY <2>2, <2>3, <2>5
<1>8. /\ LoopShape' /\ loop'.pc = "next" /\ loop'.events = events
      /\ loop'.targets = loop.targets
  BY <1>0, <1>7 DEF Inv, LoopShape, Places
<1>9. Batch'
  <2>1. EventsBelongToConnections' /\ SomeoneWaits'
    BY <1>2, <1>3, <1>6, <1>7, <1>8 DEF EventsBelongToConnections, SomeoneWaits
  <2>2. EventsOnce' /\ AtHand'
    BY <1>2, <1>7, <1>8 DEF EventsOnce, AtHand, Inv
  <2> QED BY <1>8, <2>1, <2>2 DEF Batch
<1>10. Table' /\ ClientsAreConnections' /\ OnePeerEach' /\ WaitInBacklog' /\ ConnectionsOwned'
  BY <1>2, InvParts DEF Inv, Table, ClientsAreConnections, OnePeerEach, WaitInBacklog,
                        ConnectionsOwned
<1>11. Alternate'
  BY <1>2, <1>8 DEF Inv, Alternate, mid_packet
<1> QED BY <1>9, <1>10, <1>11, InvPartsAfter

(* accept: the first of the backlog gets a descriptor of its own.          *)
LEMMA AcceptStep == Inv /\ Accept => Inv'
<1> SUFFICES ASSUME Inv, Accept PROVE Inv'
  OBVIOUS
<1>1. /\ loop.pc = "next" /\ Head(loop.events) = server_fd
      /\ UNCHANGED <<clients, epoll>>
  BY DEF Accept
<1>2. loop.events # <<>> /\ backlog # <<>>
  BY <1>1, EventAtHand
<1>3. CASE accepted(new_sock)
  <2> DEFINE f == new_sock
             q == Head(backlog)
  <2>1. /\ loop' = [loop EXCEPT !.pc = "handshake", !.fd = f]
        /\ owner' = [owner EXCEPT ![f] = q]
        /\ backlog' = Tail(backlog)
        /\ peer' = [peer EXCEPT ![q].at = "in"]
    BY <1>3 DEF Accept
  <2>2. f \in Fds /\ owner[f] = NoPeer
    <3>1. free_fds # {} /\ free_fds \subseteq Nat
      <4>1. free_fds \subseteq Nat
        BY LoopConstants DEF free_fds
      <4>2. free_fds = {} => new_sock = -1
        BY DEF new_sock
      <4>3. ~(-1 >= 0)
        OBVIOUS
      <4> QED BY <1>3, <4>1, <4>2, <4>3 DEF accepted
    <3>2. \E x \in free_fds : \A y \in free_fds : ~(<<y, x>> \in OpToRel(<, Nat))
      BY <3>1, NatLessThanWellFounded, WFMin
    <3>3. \A x, y \in Nat : <<y, x>> \notin OpToRel(<, Nat) => x <= y
      BY DEF OpToRel
    <3>4. \E x \in free_fds : \A y \in free_fds : x <= y
      BY <3>1, <3>2, <3>3
    <3>5. new_sock \in free_fds
      BY <3>1, <3>4 DEF new_sock
    <3> QED BY <3>5 DEF free_fds
  <2>3. /\ q \in Peers /\ peer[q].at = "backlog" /\ Tail(backlog) \in Seq(Peers)
        /\ IsInjective(Tail(backlog))
        /\ \A i \in DOMAIN Tail(backlog) :
             /\ Tail(backlog)[i] \in Peers \ {q}
             /\ peer[Tail(backlog)[i]].at = "backlog"
    <3>1. backlog \in Seq(Peers) /\ IsInjective(backlog)
      BY DEF Inv, TypeOK
    <3> QED BY <1>2, <3>1, TailElements, TailInjective DEF Inv, WaitInBacklog
  <2>4. /\ owner \in [Fds -> Peers \cup {NoPeer}] /\ peer \in [Peers -> PeerState]
        /\ epoll \subseteq Fds /\ clients \in Seq(Fds)
    BY DEF Inv, TypeOK
  <2> HIDE DEF f, q
  <2>5. /\ peer'[q] = [peer[q] EXCEPT !.at = "in"]
        /\ \A p \in Peers \ {q} : peer'[p] = peer[p]
        /\ owner'[f] = q /\ \A fd \in Fds \ {f} : owner'[fd] = owner[fd]
        /\ owner' \in [Fds -> Peers \cup {NoPeer}]
    BY <2>1, <2>2, <2>3, <2>4
  <2>6. /\ peer[q] \in PeerState /\ peer'[q] \in PeerState /\ peer'[q].at = "in"
        /\ peer'[q].stream = peer[q].stream /\ peer'[q].hung = peer[q].hung
        /\ peer'[q].half = peer[q].half
    <3>1. peer[q] \in PeerState
      BY <2>3, <2>4
    <3>2. peer'[q] = [peer[q] EXCEPT !.at = "in"]
      BY <2>5
    <3> QED BY <3>1, <3>2 DEF PeerState
  <2>7. peer' \in [Peers -> PeerState]
    BY <2>1, <2>3, <2>4, <2>5, <2>6
  <2>8. Table'
    BY <1>1, <2>1, <2>3, <2>4, <2>5, <2>7 DEF Table
  <2>9. /\ LoopShape' /\ loop'.pc = "handshake" /\ loop'.fd = f
        /\ loop'.events = loop.events /\ loop'.targets = loop.targets
    BY <2>1, <2>2 DEF Inv, LoopShape, Places
  <2>10. Batch'
    <3>1. EventsBelongToConnections' /\ SomeoneWaits' /\ EventsOnce'
      BY <1>1, <1>2, <2>9 DEF Inv, EventsBelongToConnections, SomeoneWaits, EventsOnce
    <3>2. f \notin epoll /\ q # NoPeer
      BY <2>2, <2>3, LoopConstants DEF Inv, ConnectionsOwned
    <3>3. AtHand'
      BY <1>1, <2>2, <2>5, <2>9, <3>2 DEF Inv, AtHand
    <3> QED BY <2>9, <3>1, <3>3 DEF Batch
  <2>11. OnePeerEach'
    <3>1. \A fd \in Fds : owner[fd] # q
      BY <2>3, <2>4, LoopConstants DEF Inv, OnePeerEach
    <3> SUFFICES ASSUME NEW fd \in Fds, owner'[fd] # NoPeer
                 PROVE  /\ peer'[owner'[fd]].at = "in"
                        /\ \A other \in Fds : owner'[other] = owner'[fd] => other = fd
      BY DEF OnePeerEach
    <3>2. CASE fd = f
      <4>1. \A other \in Fds \ {f} : owner'[other] # q
        BY <2>5, <3>1
      <4> QED BY <2>5, <2>6, <3>2, <4>1
    <3>3. CASE fd # f
      <4>1. owner'[fd] = owner[fd] /\ owner[fd] \in Peers \ {q}
        BY <2>4, <2>5, <3>1, <3>3
      <4>2. peer'[owner'[fd]] = peer[owner[fd]]
        BY <2>5, <4>1
      <4> QED BY <2>2, <2>5, <4>1, <4>2 DEF Inv, OnePeerEach
    <3> QED BY <3>2, <3>3
  <2>12. WaitInBacklog'
    BY <2>1, <2>3, <2>5 DEF WaitInBacklog
  <2>13. ConnectionsOwned' /\ ClientsAreConnections'
    BY <1>1, <2>2, <2>4, <2>5 DEF Inv, ConnectionsOwned, ClientsAreConnections
  <2>14. Alternate'
    <3> SUFFICES ASSUME NEW p \in Peers
                 PROVE  /\ InTurn(peer'[p].stream, FALSE)
                        /\ ~peer'[p].hung => (peer'[p].half <=> EndsInHeader(peer'[p].stream, FALSE))
      BY <2>9 DEF Alternate, mid_packet
    <3>1. /\ InTurn(peer[p].stream, FALSE)
          /\ ~peer[p].hung => (peer[p].half <=> EndsInHeader(peer[p].stream, FALSE))
      BY <1>1 DEF Inv, Alternate, mid_packet
    <3> QED BY <2>5, <2>6, <3>1
  <2> QED BY <2>8, <2>10, <2>11, <2>12, <2>13, <2>14, InvPartsAfter
<1>4. CASE ~accepted(new_sock)
  <2>1. loop' = next_event /\ UNCHANGED <<owner, backlog, peer>>
    BY <1>4 DEF Accept
  <2>2. Batch' /\ loop'.pc \in {"wait", "next"}
    BY <1>1, <1>2, <2>1, EventDone, InvParts
  <2>3. Table' /\ ClientsAreConnections' /\ OnePeerEach' /\ WaitInBacklog' /\ ConnectionsOwned'
    BY <1>1, <2>1, InvParts DEF Inv, Table, ClientsAreConnections, OnePeerEach,
                                WaitInBacklog, ConnectionsOwned
  <2>4. Alternate'
    BY <1>1, <2>1, <2>2 DEF Inv, Alternate, mid_packet
  <2> QED BY <2>2, <2>3, <2>4, InvPartsAfter
<1> QED BY <1>3, <1>4

(* The handshake is over: epoll_fd and the client list get the connection. *)
LEMMA HandshakeDoneStep == Inv /\ HandshakeDone => Inv'
<1> SUFFICES ASSUME Inv, HandshakeDone PROVE Inv'
  OBVIOUS
<1>1. /\ loop.pc = "handshake" /\ epoll' = epoll \cup {loop.fd}
      /\ clients' = <<loop.fd>> \o clients /\ loop' = next_event
      /\ UNCHANGED <<owner, backlog, peer>>
  BY DEF HandshakeDone, add_client
<1>2. /\ loop.fd \in Fds \ epoll /\ owner[loop.fd] # NoPeer
      /\ Head(loop.events) = server_fd
  BY <1>1 DEF Inv, AtHand
<1>3. Batch' /\ loop'.pc \in {"wait", "next"}
  BY <1>1, <1>2, EventAtHand, EventDone, InvParts
<1>4. /\ clients \in Seq(Fds) /\ IsInjective(clients) /\ Range(clients) = epoll
      /\ epoll \subseteq Fds
  BY DEF Inv, TypeOK, ClientsAreConnections
<1>5. clients' \in Seq(Fds) /\ ClientsAreConnections'
  BY <1>1, <1>2, <1>4, Prepended DEF ClientsAreConnections
<1>6. Table' /\ OnePeerEach' /\ WaitInBacklog' /\ ConnectionsOwned'
  BY <1>1, <1>2, <1>5 DEF Inv, TypeOK, Table, OnePeerEach, WaitInBacklog, ConnectionsOwned
<1>7. Alternate'
  BY <1>1, <1>3 DEF Inv, Alternate, mid_packet
<1> QED BY <1>3, <1>5, <1>6, <1>7, InvPartsAfter

LEMMA HandshakeFailedStep == Inv /\ HandshakeFailed => Inv'
<1> SUFFICES ASSUME Inv, HandshakeFailed PROVE Inv'
  OBVIOUS
<1>1. /\ loop.pc = "handshake" /\ close(loop.fd) /\ loop' = next_event
      /\ UNCHANGED <<clients, epoll, backlog>>
  BY DEF HandshakeFailed
<1>2. /\ loop.fd \in Fds \ epoll /\ owner[loop.fd] # NoPeer
      /\ Head(loop.events) = server_fd
  BY <1>1 DEF Inv, AtHand
<1>3. Batch' /\ loop'.pc \in {"wait", "next"}
  BY <1>1, <1>2, EventAtHand, EventDone, InvParts
<1>4. epoll' = epoll \ {loop.fd}
  BY <1>1, <1>2
<1>5. /\ owner' \in [Fds -> Peers \cup {NoPeer}] /\ peer' \in [Peers -> PeerState]
      /\ OnePeerEach' /\ WaitInBacklog' /\ ConnectionsOwned' /\ Alternate'
  BY <1>1, <1>2, <1>3, <1>4, Closed
<1>6. Table' /\ ClientsAreConnections'
  BY <1>1, <1>5 DEF Inv, TypeOK, Table, ClientsAreConnections
<1> QED BY <1>3, <1>5, <1>6, InvPartsAfter

(* The branch for a descriptor without a client is never taken.            *)
LEMMA LookupStep == Inv /\ Lookup => Inv'
<1> SUFFICES ASSUME Inv, Lookup PROVE Inv'
  OBVIOUS
<1> DEFINE fd == Head(loop.events)
<1>1. loop.pc = "next" /\ fd # server_fd /\ backlog' = backlog
  BY DEF Lookup
<1>2. loop.events # <<>> /\ fd \in epoll
  BY <1>1, EventAtHand
<1>3. has_client(fd)
  BY <1>2 DEF Inv, ClientsAreConnections, Range, has_client
<1>4. /\ loop' = [loop EXCEPT !.pc = "header", !.fd = fd]
      /\ UNCHANGED <<clients, epoll, owner, peer>>
  BY <1>3 DEF Lookup
<1>5. epoll \subseteq Fds
  BY DEF Inv, TypeOK
<1> HIDE DEF fd
<1>6. /\ LoopShape' /\ loop'.pc = "header" /\ loop'.fd = fd
      /\ loop'.events = loop.events /\ loop'.targets = loop.targets
  BY <1>2, <1>4, <1>5 DEF Inv, LoopShape, Places
<1>7. EventsBelongToConnections' /\ SomeoneWaits' /\ EventsOnce' /\ AtHand'
  BY <1>1, <1>2, <1>4, <1>6
     DEF Inv, EventsBelongToConnections, SomeoneWaits, EventsOnce, AtHand, fd
<1>8. Table' /\ ClientsAreConnections' /\ OnePeerEach' /\ WaitInBacklog' /\ ConnectionsOwned'
  BY <1>1, <1>4, InvParts DEF Inv, Table, ClientsAreConnections, OnePeerEach,
                              WaitInBacklog, ConnectionsOwned
<1>9. Alternate'
  BY <1>1, <1>4, <1>6 DEF Inv, Alternate, mid_packet
<1> QED BY <1>6, <1>7, <1>8, <1>9, InvPartsAfter DEF Batch

(* A handler writes to clients only, or the event is done with.            *)
LEMMA Dispatched ==
  ASSUME Inv, loop.pc \in {"header", "payload"}, dispatched,
         UNCHANGED <<epoll, backlog>>
  PROVE  Batch' /\ loop'.pc \in {"wait", "next", "write"}
<1>1. PICK targets \in SUBSET Range(clients) :
        loop' = IF targets = {} THEN next_event
                ELSE [loop EXCEPT !.pc = "write", !.targets = targets]
  BY DEF dispatched
<1>2. loop.fd \in epoll /\ loop.fd = Head(loop.events) /\ loop.events # <<>>
  BY EventAtHand DEF Inv, AtHand
<1>3. CASE targets = {}
  BY <1>1, <1>2, <1>3, EventDone, InvParts
<1>4. CASE targets # {}
  <2>1. targets \subseteq epoll /\ epoll \subseteq Fds
    BY DEF Inv, ClientsAreConnections, TypeOK
  <2>2. /\ LoopShape' /\ loop'.pc = "write" /\ loop'.fd = loop.fd
        /\ loop'.events = loop.events /\ loop'.targets = targets
    BY <1>1, <1>4, <2>1 DEF Inv, LoopShape, Places
  <2>3. EventsBelongToConnections' /\ SomeoneWaits' /\ EventsOnce' /\ AtHand'
    BY <1>2, <2>1, <2>2
       DEF Inv, EventsBelongToConnections, SomeoneWaits, EventsOnce, AtHand
  <2> QED BY <2>2, <2>3 DEF Batch
<1> QED BY <1>3, <1>4

(* Reading a unit: the rest of the stream goes on as it should.            *)
LEMMA Taken ==
  ASSUME Inv, loop.pc \in {"header", "payload"}, sender.stream # <<>>,
         peer' = taken, UNCHANGED <<clients, epoll, owner, backlog>>,
         NEW head, head = sender.stream[1],
         \A p \in Peers :
           mid_packet(p)' <=> p = owner[loop.fd] /\ head = "header"
  PROVE  /\ Table' /\ ClientsAreConnections' /\ OnePeerEach' /\ WaitInBacklog'
         /\ ConnectionsOwned' /\ Alternate'
<1> DEFINE q == owner[loop.fd]
<1>1. /\ owner \in [Fds -> Peers \cup {NoPeer}] /\ peer \in [Peers -> PeerState]
      /\ loop.fd \in epoll /\ epoll \subseteq Fds /\ q \in Peers
      /\ backlog \in Seq(Peers)
  BY DEF Inv, TypeOK, AtHand, ConnectionsOwned
<1>2. /\ peer[q] \in PeerState /\ peer[q].stream \in Seq(Units)
      /\ peer[q].stream # <<>> /\ head = peer[q].stream[1]
  BY <1>1 DEF PeerState, sender
<1>3. /\ InTurn(peer[q].stream, mid_packet(q))
      /\ ~peer[q].hung => (peer[q].half <=> EndsInHeader(peer[q].stream, mid_packet(q)))
  BY <1>1 DEF Inv, Alternate
<1> DEFINE rest == Tail(peer[q].stream)
<1>4. /\ rest \in Seq(Units) /\ InTurn(rest, head = "header")
      /\ EndsInHeader(rest, head = "header") <=> EndsInHeader(peer[q].stream, mid_packet(q))
  <2>1. mid_packet(q) \in BOOLEAN
    BY DEF mid_packet
  <2> QED BY <1>2, <1>3, <2>1, TakenInTurn
<1>5. peer' = [peer EXCEPT ![q].stream = rest]
  BY DEF taken
<1> HIDE DEF rest, q
<1>6. /\ peer'[q] = [peer[q] EXCEPT !.stream = rest]
      /\ \A p \in Peers \ {q} : peer'[p] = peer[p]
  BY <1>1, <1>5
<1>7. /\ peer'[q] \in PeerState /\ peer'[q].stream = rest
      /\ peer'[q].at = peer[q].at /\ peer'[q].hung = peer[q].hung
      /\ peer'[q].half = peer[q].half
  BY <1>2, <1>4, <1>6 DEF PeerState
<1>8. \A p \in Peers : peer'[p] \in PeerState /\ peer'[p].at = peer[p].at
  BY <1>1, <1>6, <1>7
<1>9. peer' \in [Peers -> PeerState]
  BY <1>1, <1>5, <1>8
<1>10. Table' /\ ClientsAreConnections'
  BY <1>9 DEF Inv, TypeOK, Table, ClientsAreConnections
<1>11. OnePeerEach' /\ WaitInBacklog' /\ ConnectionsOwned'
  BY <1>1, <1>8 DEF Inv, OnePeerEach, WaitInBacklog, ConnectionsOwned
<1>12. Alternate'
  <2> SUFFICES ASSUME NEW p \in Peers
               PROVE  /\ InTurn(peer'[p].stream, mid_packet(p)')
                      /\ ~peer'[p].hung =>
                           (peer'[p].half <=> EndsInHeader(peer'[p].stream, mid_packet(p)'))
    BY DEF Alternate
  <2>1. CASE p = q
    <3>1. mid_packet(p)' <=> head = "header"
      BY <2>1 DEF q
    <3>2. InTurn(rest, mid_packet(p)')
      BY <1>4, <3>1 DEF InTurn
    <3>3. EndsInHeader(rest, mid_packet(p)') <=> EndsInHeader(rest, head = "header")
      BY <3>1 DEF EndsInHeader
    <3> QED BY <1>3, <1>4, <1>7, <2>1, <3>2, <3>3
  <2>2. CASE p # q
    <3>1. ~mid_packet(p) /\ ~mid_packet(p)'
      BY <2>2 DEF q, mid_packet
    <3>2. /\ InTurn(peer[p].stream, mid_packet(p))
          /\ ~peer[p].hung => (peer[p].half <=> EndsInHeader(peer[p].stream, mid_packet(p)))
      BY DEF Inv, Alternate
    <3> QED BY <1>6, <2>2, <3>1, <3>2 DEF InTurn, EndsInHeader
  <2> QED BY <2>1, <2>2
<1> QED BY <1>10, <1>11, <1>12

LEMMA ReceiveHeaderStep == Inv /\ ReceiveHeader => Inv'
<1> SUFFICES ASSUME Inv, ReceiveHeader PROVE Inv'
  OBVIOUS
<1>1. /\ loop.pc = "header" /\ sender.stream # <<>> /\ peer' = taken
      /\ UNCHANGED <<clients, epoll, owner, backlog>>
  BY DEF ReceiveHeader
<1>2. /\ loop.fd \in epoll /\ loop.fd = Head(loop.events) /\ loop.events # <<>>
      /\ owner[loop.fd] \in Peers
  BY <1>1, EventAtHand DEF Inv, TypeOK, AtHand, ConnectionsOwned
<1> DEFINE head == sender.stream[1]
<1>3. Head(sender.stream) = head
  <2>1. sender.stream \in Seq(Units)
    BY <1>2 DEF Inv, TypeOK, PeerState, sender
  <2> QED BY <1>1, <2>1, TailElements
<1> HIDE DEF head
<1>4. CASE head = "header"
  <2>1. loop' = [loop EXCEPT !.pc = "payload"]
    BY <1>3, <1>4 DEF ReceiveHeader
  <2>2. /\ LoopShape' /\ loop'.pc = "payload" /\ loop'.fd = loop.fd
        /\ loop'.events = loop.events /\ loop'.targets = loop.targets
    BY <2>1 DEF Inv, LoopShape, Places
  <2>3. EventsBelongToConnections' /\ SomeoneWaits' /\ EventsOnce' /\ AtHand'
    BY <1>1, <1>2, <2>2
       DEF Inv, EventsBelongToConnections, SomeoneWaits, EventsOnce, AtHand
  <2>4. \A p \in Peers : mid_packet(p)' <=> p = owner[loop.fd] /\ head = "header"
    BY <1>1, <1>4, <2>2 DEF mid_packet
  <2>5. /\ Table' /\ ClientsAreConnections' /\ OnePeerEach' /\ WaitInBacklog'
        /\ ConnectionsOwned' /\ Alternate'
    BY <1>1, <2>4, Taken DEF head
  <2> QED BY <2>2, <2>3, <2>5, InvPartsAfter DEF Batch
<1>5. CASE head # "header"
  <2>1. dispatched
    BY <1>3, <1>5 DEF ReceiveHeader
  <2>2. Batch' /\ loop'.pc \in {"wait", "next", "write"}
    BY <1>1, <2>1, Dispatched
  <2>3. \A p \in Peers : mid_packet(p)' <=> p = owner[loop.fd] /\ head = "header"
    BY <1>5, <2>2 DEF mid_packet
  <2>4. /\ Table' /\ ClientsAreConnections' /\ OnePeerEach' /\ WaitInBacklog'
        /\ ConnectionsOwned' /\ Alternate'
    BY <1>1, <2>3, Taken DEF head
  <2> QED BY <2>2, <2>4, InvPartsAfter
<1> QED BY <1>4, <1>5

(* What is read as a payload is no header.                                 *)
LEMMA ReceivePayloadStep == Inv /\ ReceivePayload => Inv'
<1> SUFFICES ASSUME Inv, ReceivePayload PROVE Inv'
  OBVIOUS
<1>1. /\ loop.pc = "payload" /\ sender.stream # <<>> /\ peer' = taken
      /\ dispatched /\ UNCHANGED <<clients, epoll, owner, backlog>>
  BY DEF ReceivePayload
<1>2. owner[loop.fd] \in Peers
  BY <1>1 DEF Inv, TypeOK, AtHand, ConnectionsOwned
<1>3. sender.stream[1] = "payload"
  <2>1. mid_packet(owner[loop.fd])
    BY <1>1 DEF mid_packet
  <2> QED BY <1>1, <1>2, <2>1 DEF Inv, Alternate, InTurn, sender
<1>4. Batch' /\ loop'.pc \in {"wait", "next", "write"}
  BY <1>1, Dispatched
<1>5. \A p \in Peers : mid_packet(p)' <=> p = owner[loop.fd] /\ sender.stream[1] = "header"
  BY <1>3, <1>4 DEF mid_packet
<1>6. /\ Table' /\ ClientsAreConnections' /\ OnePeerEach' /\ WaitInBacklog'
      /\ ConnectionsOwned' /\ Alternate'
  BY <1>1, <1>5, Taken
<1> QED BY <1>4, <1>6, InvPartsAfter

LEMMA ReceiveFailsStep == Inv /\ ReceiveFails => Inv'
<1> SUFFICES ASSUME Inv, ReceiveFails PROVE Inv'
  OBVIOUS
<1>1. /\ loop.pc \in {"header", "payload"} /\ close(loop.fd)
      /\ epoll' = epoll \ {loop.fd} /\ clients' = RemoveFirst(clients, loop.fd)
      /\ loop' = next_event /\ backlog' = backlog
  BY DEF ReceiveFails, dropped, disconnected, remove_client
<1>2. /\ loop.fd \in epoll /\ loop.fd = Head(loop.events) /\ loop.events # <<>>
      /\ loop.fd \in Fds /\ owner[loop.fd] # NoPeer
  BY <1>1, EventAtHand DEF Inv, TypeOK, AtHand, ConnectionsOwned
<1>3. Batch' /\ loop'.pc \in {"wait", "next"}
  BY <1>1, <1>2, EventDone, InvParts
<1>4. /\ owner' \in [Fds -> Peers \cup {NoPeer}] /\ peer' \in [Peers -> PeerState]
      /\ OnePeerEach' /\ WaitInBacklog' /\ ConnectionsOwned' /\ Alternate'
  BY <1>1, <1>2, <1>3, Closed
<1>5. clients' \in Seq(Fds) /\ ClientsAreConnections'
  <2>1. clients \in Seq(Fds) /\ IsInjective(clients) /\ Range(clients) = epoll
    BY DEF Inv, TypeOK, ClientsAreConnections
  <2> QED BY <1>1, <1>2, <2>1, Removed DEF ClientsAreConnections
<1>6. Table'
  BY <1>1, <1>4, <1>5 DEF Inv, TypeOK, Table
<1> QED BY <1>3, <1>4, <1>5, <1>6, InvPartsAfter

(* One peer changes, and stays where it is.                                *)
LEMMA PeerChanged ==
  ASSUME Inv, NEW q \in Peers, NEW r \in PeerState,
         peer' = [peer EXCEPT ![q] = r], r.at = peer[q].at,
         UNCHANGED <<clients, epoll, owner, backlog>>,
         \A p \in Peers : mid_packet(p)' <=> mid_packet(p),
         InTurn(r.stream, mid_packet(q)),
         ~r.hung => (r.half <=> EndsInHeader(r.stream, mid_packet(q)))
  PROVE  /\ Table' /\ ClientsAreConnections' /\ OnePeerEach' /\ WaitInBacklog'
         /\ ConnectionsOwned' /\ Alternate'
<1>1. /\ peer \in [Peers -> PeerState] /\ owner \in [Fds -> Peers \cup {NoPeer}]
      /\ backlog \in Seq(Peers)
  BY DEF Inv, TypeOK
<1>2. peer'[q] = r /\ \A p \in Peers \ {q} : peer'[p] = peer[p]
  BY <1>1
<1>3. peer' \in [Peers -> PeerState] /\ \A p \in Peers : peer'[p].at = peer[p].at
  BY <1>1, <1>2
<1>4. Table' /\ ClientsAreConnections'
  BY <1>3 DEF Inv, TypeOK, Table, ClientsAreConnections
<1>5. OnePeerEach' /\ WaitInBacklog' /\ ConnectionsOwned'
  BY <1>1, <1>3 DEF Inv, OnePeerEach, WaitInBacklog, ConnectionsOwned
<1>6. Alternate'
  <2> SUFFICES ASSUME NEW p \in Peers
               PROVE  /\ InTurn(peer'[p].stream, mid_packet(p)')
                      /\ ~peer'[p].hung =>
                           (peer'[p].half <=> EndsInHeader(peer'[p].stream, mid_packet(p)'))
    BY DEF Alternate
  <2>1. CASE p = q
    BY <1>2, <2>1 DEF InTurn, EndsInHeader
  <2>2. CASE p # q
    BY <1>2, <2>2 DEF Inv, Alternate, InTurn, EndsInHeader
  <2> QED BY <2>1, <2>2
<1> QED BY <1>4, <1>5, <1>6

(* Peers do not touch the thread.                                          *)
LEMMA ThreadUntouched ==
  ASSUME Inv, UNCHANGED <<loop, clients, epoll, owner>>,
         backlog # <<>> => backlog' # <<>>
  PROVE  Batch' /\ \A p \in Peers : mid_packet(p)' <=> mid_packet(p)
BY DEF Inv, Batch, LoopShape, EventsBelongToConnections, EventsOnce, SomeoneWaits,
       AtHand, mid_packet

(* One write of a handler, or the failure of one.                          *)
LEMMA WriteStep == Inv /\ Write => Inv'
<1> SUFFICES ASSUME Inv, Write PROVE Inv'
  OBVIOUS
<1>1. loop.pc = "write" /\ backlog' = backlog
  BY DEF Write
<1>2. PICK fd \in loop.targets :
        /\ loop' = IF loop.targets = {fd} THEN next_event
                   ELSE [loop EXCEPT !.targets = @ \ {fd}]
        /\ \/ UNCHANGED <<clients, epoll, owner, peer>>
           \/ /\ peer[owner[fd]].unread < WINDOW
              /\ peer' = [peer EXCEPT ![owner[fd]].unread = @ + 1]
              /\ UNCHANGED <<clients, epoll, owner>>
  BY DEF Write, write_failed
<1>3. /\ loop.fd \in epoll /\ loop.fd = Head(loop.events) /\ loop.events # <<>>
      /\ loop.targets \subseteq epoll /\ owner[fd] \in Peers
      /\ peer \in [Peers -> PeerState]
  BY <1>1, EventAtHand DEF Inv, TypeOK, AtHand, ConnectionsOwned
<1>4. epoll' = epoll
  BY <1>2
<1>5. Batch' /\ loop'.pc \in {"wait", "next", "write"}
  <2>1. CASE loop.targets = {fd}
    BY <1>1, <1>2, <1>3, <2>1, EventDone, InvParts
  <2>2. CASE loop.targets # {fd}
    <3>1. loop' = [loop EXCEPT !.targets = loop.targets \ {fd}]
      BY <1>2, <2>2
    <3>2. /\ LoopShape' /\ loop'.pc = "write" /\ loop'.fd = loop.fd
          /\ loop'.events = loop.events /\ loop'.targets = loop.targets \ {fd}
      BY <1>1, <3>1 DEF Inv, LoopShape, Places
    <3>3. EventsBelongToConnections' /\ SomeoneWaits' /\ EventsOnce' /\ AtHand'
      BY <1>1, <1>3, <1>4, <3>2
         DEF Inv, EventsBelongToConnections, SomeoneWaits, EventsOnce, AtHand
    <3> QED BY <3>2, <3>3 DEF Batch
  <2> QED BY <2>1, <2>2
<1>6. \A p \in Peers : mid_packet(p)' <=> mid_packet(p)
  BY <1>1, <1>5 DEF mid_packet
<1>7. CASE UNCHANGED <<clients, epoll, owner, peer>>
  <2>1. Table' /\ ClientsAreConnections' /\ OnePeerEach' /\ WaitInBacklog' /\ ConnectionsOwned'
    BY <1>1, <1>7, InvParts DEF Inv, Table, ClientsAreConnections, OnePeerEach,
                                WaitInBacklog, ConnectionsOwned
  <2>2. Alternate'
    BY <1>6, <1>7 DEF Inv, Alternate, InTurn, EndsInHeader
  <2> QED BY <1>5, <2>1, <2>2, InvPartsAfter
<1>8. CASE /\ peer[owner[fd]].unread < WINDOW
           /\ peer' = [peer EXCEPT ![owner[fd]].unread = @ + 1]
           /\ UNCHANGED <<clients, epoll, owner>>
  <2> DEFINE q == owner[fd]
             r == [peer[q] EXCEPT !.unread = peer[q].unread + 1]
  <2>1. q \in Peers /\ peer[q] \in PeerState /\ WINDOW \in Nat /\ peer[q].unread < WINDOW
    BY <1>3, <1>8, LoopConstants
  <2>2. peer' = [peer EXCEPT ![q] = r]
    BY <1>8
  <2> HIDE DEF q
  <2>3. /\ r \in PeerState /\ r.at = peer[q].at /\ r.stream = peer[q].stream
        /\ r.hung = peer[q].hung /\ r.half = peer[q].half
    BY <2>1 DEF PeerState
  <2> HIDE DEF r
  <2>4. /\ InTurn(r.stream, mid_packet(q))
        /\ ~r.hung => (r.half <=> EndsInHeader(r.stream, mid_packet(q)))
    BY <2>1, <2>3 DEF Inv, Alternate
  <2>5. /\ Table' /\ ClientsAreConnections' /\ OnePeerEach' /\ WaitInBacklog'
        /\ ConnectionsOwned' /\ Alternate'
    BY <1>1, <1>6, <1>8, <2>1, <2>2, <2>3, <2>4, PeerChanged
  <2> QED BY <1>5, <2>5, InvPartsAfter
<1> QED BY <1>2, <1>7, <1>8

-----------------------------------------------------------------------------
(* The steps of a peer                                                     *)

LEMMA ConnectStep ==
  ASSUME Inv, NEW q \in Peers, Connect(q), UNCHANGED <<loop, clients, epoll>>
  PROVE  Inv'
<1>1. /\ peer[q].at = "away" /\ peer' = [peer EXCEPT ![q].at = "backlog"]
      /\ backlog' = Append(backlog, q) /\ owner' = owner
  BY DEF Connect
<1>2. /\ peer \in [Peers -> PeerState] /\ owner \in [Fds -> Peers \cup {NoPeer}]
      /\ backlog \in Seq(Peers) /\ IsInjective(backlog)
      /\ \A i \in DOMAIN backlog : peer[backlog[i]].at = "backlog"
  BY DEF Inv, TypeOK, WaitInBacklog
<1>3. /\ peer'[q] = [peer[q] EXCEPT !.at = "backlog"]
      /\ \A p \in Peers \ {q} : peer'[p] = peer[p]
  BY <1>1, <1>2
<1>4. /\ peer'[q] \in PeerState /\ peer'[q].at = "backlog"
      /\ peer'[q].stream = peer[q].stream /\ peer'[q].hung = peer[q].hung
      /\ peer'[q].half = peer[q].half
  <2>1. peer[q] \in PeerState
    BY <1>2
  <2> QED BY <1>3, <2>1 DEF PeerState
<1>5. peer' \in [Peers -> PeerState]
  BY <1>1, <1>2, <1>3, <1>4
<1>6. backlog' \in Seq(Peers) /\ backlog' # <<>>
  BY <1>1, <1>2
<1>7. IsInjective(backlog')
  <2>1. \A i \in DOMAIN backlog : backlog[i] # q
    BY <1>1, <1>2
  <2> QED BY <1>1, <1>2, <2>1, AppendedOnce
<1>8. Batch' /\ \A p \in Peers : mid_packet(p)' <=> mid_packet(p)
  BY <1>1, <1>6, ThreadUntouched
<1>9. Table' /\ ClientsAreConnections' /\ ConnectionsOwned'
  BY <1>1, <1>5, <1>6, <1>7
     DEF Inv, TypeOK, Table, ClientsAreConnections, ConnectionsOwned
<1>10. OnePeerEach'
  BY <1>1, <1>2, <1>3 DEF Inv, OnePeerEach
<1>11. WaitInBacklog'
  <2> SUFFICES ASSUME NEW i \in DOMAIN Append(backlog, q)
               PROVE  peer'[Append(backlog, q)[i]].at = "backlog"
    BY <1>1 DEF WaitInBacklog
  <2>1. \/ i \in DOMAIN backlog /\ Append(backlog, q)[i] = backlog[i]
        \/ Append(backlog, q)[i] = q
    BY <1>2
  <2>2. \A j \in DOMAIN backlog : backlog[j] \in Peers
    BY <1>2
  <2>3. \A p \in Peers : peer[p].at = "backlog" => peer'[p].at = "backlog"
    BY <1>3, <1>4
  <2> QED BY <1>2, <1>4, <2>1, <2>2, <2>3
<1>12. Alternate'
  <2> SUFFICES ASSUME NEW p \in Peers
               PROVE  /\ InTurn(peer'[p].stream, mid_packet(p)')
                      /\ ~peer'[p].hung =>
                           (peer'[p].half <=> EndsInHeader(peer'[p].stream, mid_packet(p)'))
    BY DEF Alternate
  <2>1. /\ peer'[p].stream = peer[p].stream /\ peer'[p].hung = peer[p].hung
        /\ peer'[p].half = peer[p].half
    BY <1>3, <1>4
  <2> QED BY <1>8, <2>1 DEF Inv, Alternate, InTurn, EndsInHeader
<1> QED BY <1>8, <1>9, <1>10, <1>11, <1>12, InvPartsAfter

(* What a peer does on its connection.                                     *)
LEMMA PeerMoved ==
  ASSUME Inv, NEW q \in Peers, NEW r \in PeerState,
         peer' = [peer EXCEPT ![q] = r], r.at = peer[q].at,
         UNCHANGED <<loop, clients, epoll, owner, backlog>>,
         InTurn(r.stream, mid_packet(q)),
         ~r.hung => (r.half <=> EndsInHeader(r.stream, mid_packet(q)))
  PROVE  Inv'
<1>1. Batch' /\ \A p \in Peers : mid_packet(p)' <=> mid_packet(p)
  BY ThreadUntouched
<1>2. /\ Table' /\ ClientsAreConnections' /\ OnePeerEach' /\ WaitInBacklog'
      /\ ConnectionsOwned' /\ Alternate'
  BY <1>1, PeerChanged
<1> QED BY <1>1, <1>2, InvPartsAfter

LEMMA PeerStepInv ==
  ASSUME Inv, NEW q \in Peers, PeerStep(q)
  PROVE  Inv'
<1>1. UNCHANGED <<loop, clients, epoll>>
  BY DEF PeerStep
<1>2. /\ peer \in [Peers -> PeerState] /\ peer[q] \in PeerState
      /\ peer[q].stream \in Seq(Units) /\ peer[q].half \in BOOLEAN
  BY DEF Inv, TypeOK, PeerState
<1>3. /\ InTurn(peer[q].stream, mid_packet(q)) /\ mid_packet(q) \in BOOLEAN
      /\ ~peer[q].hung => (peer[q].half <=> EndsInHeader(peer[q].stream, mid_packet(q)))
  BY DEF Inv, Alternate, mid_packet
<1>4. CASE Connect(q)
  BY <1>1, <1>4, ConnectStep
<1>5. CASE FinishHandshake(q)
  <2> DEFINE r == [peer[q] EXCEPT !.finished = TRUE]
  <2>1. peer' = [peer EXCEPT ![q] = r] /\ UNCHANGED <<owner, backlog>>
    BY <1>5 DEF FinishHandshake
  <2>2. /\ r \in PeerState /\ r.at = peer[q].at /\ r.stream = peer[q].stream
        /\ r.hung = peer[q].hung /\ r.half = peer[q].half
    BY <1>2 DEF PeerState
  <2> HIDE DEF r
  <2> QED BY <1>1, <1>3, <2>1, <2>2, PeerMoved
<1>6. CASE Send(q)
  <2>1. ~peer[q].hung /\ UNCHANGED <<owner, backlog>>
    BY <1>6 DEF Send
  <2>2. PICK unit \in IF peer[q].half THEN {"payload"} ELSE {"header", "bare"} :
          peer' = [peer EXCEPT ![q].stream = Append(@, unit), ![q].sent = @ + 1,
                               ![q].half = unit = "header"]
    BY <1>6 DEF Send
  <2> DEFINE t == Append(peer[q].stream, unit)
             half == unit = "header"
             r == [peer[q] EXCEPT !.stream = t, !.sent = peer[q].sent + 1, !.half = half]
  <2>3. peer' = [peer EXCEPT ![q] = r]
    BY <1>2, <2>2
  <2>4. unit \in Units /\ (unit = "payload" <=> peer[q].half)
    BY <1>2 DEF Units
  <2>5. /\ InTurn(t, mid_packet(q)) /\ t \in Seq(Units)
        /\ EndsInHeader(t, mid_packet(q)) <=> half
    BY <1>2, <1>3, <2>1, <2>4, SentInTurn
  <2>6. half \in BOOLEAN /\ peer[q].sent + 1 \in Nat
    BY <1>2 DEF PeerState
  <2> HIDE DEF t, half
  <2>7. r \in PeerState /\ r.at = peer[q].at /\ r.stream = t /\ r.half = half
    BY <1>2, <2>5, <2>6 DEF PeerState
  <2> HIDE DEF r
  <2> QED BY <1>1, <2>1, <2>3, <2>5, <2>7, PeerMoved
<1>7. CASE Read(q)
  <2> DEFINE r == [peer[q] EXCEPT !.unread = peer[q].unread - 1]
  <2>1. /\ peer' = [peer EXCEPT ![q] = r] /\ peer[q].unread > 0
        /\ UNCHANGED <<owner, backlog>>
    BY <1>7 DEF Read
  <2>2. peer[q].unread - 1 \in 0..WINDOW
    <3>1. peer[q].unread \in 0..WINDOW
      BY <1>2 DEF PeerState
    <3> QED BY <2>1, <3>1, LoopConstants
  <2>3. /\ r \in PeerState /\ r.at = peer[q].at /\ r.stream = peer[q].stream
        /\ r.hung = peer[q].hung /\ r.half = peer[q].half
    BY <1>2, <2>2 DEF PeerState
  <2> HIDE DEF r
  <2> QED BY <1>1, <1>3, <2>1, <2>3, PeerMoved
<1>8. CASE HangUp(q)
  <2>1. PICK n \in 0..Len(peer[q].stream) :
          peer' = [peer EXCEPT ![q].hung = TRUE, ![q].stream = SubSeq(@, 1, n)]
    BY <1>8 DEF HangUp
  <2>2. UNCHANGED <<owner, backlog>>
    BY <1>8 DEF HangUp
  <2> DEFINE t == SubSeq(peer[q].stream, 1, n)
             r == [peer[q] EXCEPT !.hung = TRUE, !.stream = t]
  <2>3. peer' = [peer EXCEPT ![q] = r]
    BY <1>2, <2>1
  <2>4. t \in Seq(Units) /\ InTurn(t, mid_packet(q))
    BY <1>2, <1>3, CutInTurn
  <2> HIDE DEF t
  <2>5. r \in PeerState /\ r.at = peer[q].at /\ r.stream = t /\ r.hung
    BY <1>2, <2>4 DEF PeerState
  <2> HIDE DEF r
  <2> QED BY <1>1, <2>2, <2>3, <2>4, <2>5, PeerMoved
<1> QED BY <1>4, <1>5, <1>6, <1>7, <1>8 DEF PeerStep

LEMMA InvStep == Inv /\ [Next]_vars => Inv'
<1> SUFFICES ASSUME Inv, [Next]_vars PROVE Inv'
  OBVIOUS
<1>1. CASE ServerStep
  BY <1>1, EpollWaitStep, AcceptStep, HandshakeDoneStep, HandshakeFailedStep, LookupStep,
     ReceiveHeaderStep, ReceivePayloadStep, ReceiveFailsStep, WriteStep DEF ServerStep
<1>2. CASE \E p \in Peers : PeerStep(p)
  BY <1>2, PeerStepInv
<1>3. CASE UNCHANGED vars
  BY <1>3 DEF vars, Inv, LoopShape, TypeOK, ClientsAreConnections, EventsBelongToConnections,
              OnePeerEach, WaitInBacklog, ConnectionsOwned, EventsOnce, SomeoneWaits,
              AtHand, Alternate, mid_packet
<1> QED BY <1>1, <1>2, <1>3 DEF Next

LEMMA AlwaysInv == Spec => []Inv
BY InitInv, InvStep, PTL DEF Spec

-----------------------------------------------------------------------------
(* Results                                                                 *)

(* The four parts of the server keep their shapes: in particular the       *)
(* handle of accept is a descriptor, and the peer it is for was waiting.   *)
THEOREM LoopTypeOK == Spec => []TypeOK
<1>1. Inv => TypeOK
  BY DEF Inv
<1> QED BY <1>1, AlwaysInv, PTL

(* main.c:152, "Should not happen if logic is correct": clients and        *)
(* epoll_fd hold the same connections, with any number of peers that come, *)
(* go and leave their descriptors to others.                               *)
THEOREM ClientsMatchConnections == Spec => []ClientsAreConnections
<1>1. Inv => ClientsAreConnections
  BY DEF Inv
<1> QED BY <1>1, AlwaysInv, PTL

(* No event of a batch outlives its connection: an earlier event of the    *)
(* same batch never closes or reuses the descriptor of a later one.        *)
THEOREM EventsAreCurrent == Spec => []EventsBelongToConnections
<1>1. Inv => EventsBelongToConnections
  BY DEF Inv
<1> QED BY <1>1, AlwaysInv, PTL

(* Headers are read as headers: a connection whose packet was cut short is *)
(* closed, never read on.                                                  *)
THEOREM HeadersAreHeaders == Spec => []NeverOutOfStep
<1>1. Inv => NeverOutOfStep
  <2> SUFFICES ASSUME Inv, loop.pc = "header", sender.stream # <<>>
               PROVE  Head(sender.stream) # "payload"
    BY DEF NeverOutOfStep
  <2>1. owner[loop.fd] \in Peers /\ ~mid_packet(owner[loop.fd])
    BY DEF Inv, TypeOK, AtHand, ConnectionsOwned, mid_packet
  <2>2. sender.stream \in Seq(Units) /\ sender.stream[1] # "payload"
    BY <2>1 DEF Inv, TypeOK, PeerState, Alternate, InTurn, sender
  <2> QED BY <2>2, TailElements
<1> QED BY <1>1, AlwaysInv, PTL
=============================================================================
