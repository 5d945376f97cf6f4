----------------------------- MODULE EventLoop ------------------------------
(***************************************************************************)
(* The loop of src/server/main.c: one thread that waits for descriptors to *)
(* become readable, accepts a connection and its TLS handshake, receives a *)
(* packet, and writes what the handler of the packet sends.  Every call is *)
(* blocking; only reads from an accepted connection have a timeout.        *)
(*                                                                         *)
(* What the handlers do is the subject of module Server.  Here a handler   *)
(* is the set of connections it writes to.                                 *)
(***************************************************************************)
EXTENDS Integers, Sequences, FiniteSets, SequencesExt, Functions

CONSTANTS
  Peers,       \* processes that connect
  NoPeer,      \* nobody
  Fds,         \* the descriptors the process has left for connections
  MAX_EVENTS,  \* events one epoll_wait returns
  WINDOW,      \* writes a connection buffers before its peer reads
  MaxUnits,    \* bound: headers and payloads each peer sends on a connection
  Prompt,      \* peers that finish a handshake once it has begun
  Readers      \* peers that read what is sent to them

server_fd == 0

(* The descriptors fit into one batch: which of them epoll_wait leaves for *)
(* the next one plays no part.                                             *)
ASSUME LoopConstants ==
  /\ NoPeer \notin Peers
  /\ Fds \subseteq Nat \ {server_fd} /\ IsFiniteSet(Fds)
  /\ MAX_EVENTS \in Nat \ {0}
  /\ WINDOW \in Nat \ {0} /\ MaxUnits \in [Peers -> Nat]
  /\ Prompt \subseteq Peers /\ Readers \subseteq Peers

VARIABLES
  loop,      \* the thread: where it is, the events left, the descriptor at
             \* hand, and the connections its handler has yet to write to
  clients,   \* the client list, newest first
  epoll,     \* the connections added to epoll_fd
  owner,     \* whose connection a descriptor is
  backlog,   \* connections accept has not returned yet
  peer       \* each peer, and its side of its connection

vars == <<loop, clients, epoll, owner, backlog, peer>>

(* header: a MessageHeader with a payload to follow, bare: one without.    *)
Units == {"header", "payload", "bare"}

(* finished: the peer's part of the handshake; hung: it has closed; stream:*)
(* what it sent and the server has not read; unread: what it has not read. *)
Away == [at |-> "away", finished |-> FALSE, hung |-> FALSE,
         stream |-> <<>>, sent |-> 0, half |-> FALSE, unread |-> 0]

PeerState == [at : {"away", "backlog", "in"}, finished : BOOLEAN, hung : BOOLEAN,
              stream : Seq(Units), sent : Nat, half : BOOLEAN,
              unread : 0..WINDOW]

Idle == [pc |-> "wait", events |-> <<>>, fd |-> server_fd, targets |-> {}]

Init ==
  /\ loop = Idle
  /\ clients = <<>> /\ epoll = {} /\ backlog = <<>>
  /\ owner = [fd \in Fds |-> NoPeer]
  /\ peer = [p \in Peers |-> Away]

(* The four parts of the server have the shapes of their declarations.     *)
TypeOK ==
  /\ loop.pc \in {"wait", "next", "handshake", "header", "payload", "write"}
  /\ loop.events \in Seq(Fds \cup {server_fd})
  /\ loop.fd \in Fds \cup {server_fd} /\ loop.targets \subseteq Fds
  /\ clients \in Seq(Fds) /\ epoll \subseteq Fds
  /\ owner \in [Fds -> Peers \cup {NoPeer}]
  /\ backlog \in Seq(Peers) /\ IsInjective(backlog)
  /\ peer \in [Peers -> PeerState]

-----------------------------------------------------------------------------
(* Waiting, and the next event of the batch                                *)

readable ==
  {fd \in epoll : peer[owner[fd]].stream # <<>> \/ peer[owner[fd]].hung} \cup
    (IF backlog = <<>> THEN {} ELSE {server_fd})

(* All that is ready, in any order, or as much of it as the array takes.   *)
EpollWait ==
  /\ loop.pc = "wait"
  /\ readable # {}
  /\ \E batch \in SUBSET readable :
       /\ \/ batch = readable /\ Cardinality(batch) <= MAX_EVENTS
          \/ Cardinality(batch) = MAX_EVENTS
       /\ \E events \in SetToSeqs(batch) :
            loop' = [loop EXCEPT !.pc = "next", !.events = events]
  /\ UNCHANGED <<clients, epoll, owner, backlog, peer>>

(* This event is done with.                                                *)
next_event == [Idle EXCEPT !.pc = IF Len(loop.events) > 1 THEN "next" ELSE "wait",
                           !.events = Tail(loop.events)]

has_client(fd) == \E i \in DOMAIN clients : clients[i] = fd

add_client(fd) == <<fd>> \o clients
remove_client(fd) == RemoveFirst(clients, fd)

(* accept returns the lowest free descriptor, or -1 when there is none:    *)
(* the peer then stays in the backlog.                                     *)
free_fds == {fd \in Fds : owner[fd] = NoPeer}

new_sock ==
  IF free_fds = {} THEN -1
  ELSE CHOOSE fd \in free_fds : \A other \in free_fds : fd <= other

(* Mutant: the result of accept is not looked at.                          *)
AnySocket(sock) == TRUE

accepted(sock) == sock >= 0

Accept ==
  /\ loop.pc = "next" /\ Head(loop.events) = server_fd
  /\ IF accepted(new_sock)
       THEN /\ loop' = [loop EXCEPT !.pc = "handshake", !.fd = new_sock]
            /\ owner' = [owner EXCEPT ![new_sock] = Head(backlog)]
            /\ backlog' = Tail(backlog)
            /\ peer' = [peer EXCEPT ![Head(backlog)].at = "in"]
       ELSE loop' = next_event /\ UNCHANGED <<owner, backlog, peer>>
  /\ UNCHANGED <<clients, epoll>>

HandshakeDone ==
  /\ loop.pc = "handshake" /\ peer[owner[loop.fd]].finished
  /\ epoll' = epoll \cup {loop.fd}
  /\ clients' = add_client(loop.fd)
  /\ loop' = next_event
  /\ UNCHANGED <<owner, backlog, peer>>

close(fd) ==
  /\ owner' = [owner EXCEPT ![fd] = NoPeer]
  /\ peer' = [peer EXCEPT ![owner[fd]] = Away]

(* Mutant: no SO_RCVTIMEO at all.                                          *)
NeverTimesOut == FALSE

(* Two seconds without data end a read; SO_RCVTIMEO is set once the        *)
(* handshake is done, when the descriptor goes to epoll_fd.                *)
times_out == loop.fd \in epoll

HandshakeFailed ==
  /\ loop.pc = "handshake"
  /\ ~peer[owner[loop.fd]].finished
  /\ peer[owner[loop.fd]].hung \/ times_out
  /\ close(loop.fd)
  /\ loop' = next_event
  /\ UNCHANGED <<clients, epoll, backlog>>

-----------------------------------------------------------------------------
(* Receiving a packet                                                      *)

(* Mutant: the client stays in the list.                                   *)
ClientLeftBehind(fd) ==
  /\ close(fd) /\ epoll' = epoll \ {fd} /\ UNCHANGED clients

(* close also takes the descriptor out of epoll_fd.                        *)
disconnected(fd) ==
  /\ close(fd) /\ epoll' = epoll \ {fd} /\ clients' = remove_client(fd)

(* Without a client for it, the descriptor is closed.                      *)
Lookup ==
  LET fd == Head(loop.events)
  IN  /\ loop.pc = "next" /\ fd # server_fd
      /\ UNCHANGED backlog
      /\ IF has_client(fd)
           THEN /\ loop' = [loop EXCEPT !.pc = "header", !.fd = fd]
                /\ UNCHANGED <<clients, epoll, owner, peer>>
           ELSE disconnected(fd) /\ loop' = next_event

sender == peer[owner[loop.fd]]

taken == [peer EXCEPT ![owner[loop.fd]].stream = Tail(@)]

(* The handler writes to the connections it chooses, in some order.        *)
dispatched ==
  \E targets \in SUBSET Range(clients) :
    loop' = IF targets = {} THEN next_event
            ELSE [loop EXCEPT !.pc = "write", !.targets = targets]

ReceiveHeader ==
  /\ loop.pc = "header" /\ sender.stream # <<>>
  /\ peer' = taken
  /\ IF Head(sender.stream) = "header" THEN loop' = [loop EXCEPT !.pc = "payload"]
                                       ELSE dispatched
  /\ UNCHANGED <<clients, epoll, owner, backlog>>

ReceivePayload ==
  /\ loop.pc = "payload" /\ sender.stream # <<>>
  /\ peer' = taken
  /\ dispatched
  /\ UNCHANGED <<clients, epoll, owner, backlog>>

(* Mutant: a read that failed is tried again at the next event.            *)
KeptAfterFailure(fd) == UNCHANGED <<clients, epoll, owner, peer>>

dropped(fd) == disconnected(fd)

ReceiveFails ==
  /\ loop.pc \in {"header", "payload"} /\ sender.stream = <<>>
  /\ sender.hung \/ times_out
  /\ dropped(loop.fd)
  /\ loop' = next_event
  /\ UNCHANGED backlog

-----------------------------------------------------------------------------
(* Writing                                                                 *)

(* Mutant: a connection that cannot be written to is closed on the spot.   *)
ClosedOnError(fd) == disconnected(fd)

(* SIGPIPE is ignored, and so is the result of send_packet.                *)
write_failed(fd) == UNCHANGED <<clients, epoll, owner, peer>>

(* A write waits for room: there is no timeout for it.                     *)
Write ==
  /\ loop.pc = "write"
  /\ \E fd \in loop.targets :
       /\ loop' = IF loop.targets = {fd} THEN next_event
                  ELSE [loop EXCEPT !.targets = @ \ {fd}]
       /\ \/ peer[owner[fd]].hung /\ write_failed(fd)
          \/ /\ ~peer[owner[fd]].hung /\ peer[owner[fd]].unread < WINDOW
             /\ peer' = [peer EXCEPT ![owner[fd]].unread = @ + 1]
             /\ UNCHANGED <<clients, epoll, owner>>
  /\ UNCHANGED backlog

ServerStep ==
  \/ EpollWait \/ Accept \/ HandshakeDone \/ HandshakeFailed \/ Lookup
  \/ ReceiveHeader \/ ReceivePayload \/ ReceiveFails \/ Write

-----------------------------------------------------------------------------
(* The peers                                                               *)

Connect(p) ==
  /\ peer[p].at = "away"
  /\ peer' = [peer EXCEPT ![p].at = "backlog"]
  /\ backlog' = Append(backlog, p)
  /\ UNCHANGED owner

FinishHandshake(p) ==
  /\ loop.pc = "handshake" /\ owner[loop.fd] = p
  /\ ~peer[p].finished /\ ~peer[p].hung
  /\ peer' = [peer EXCEPT ![p].finished = TRUE]
  /\ UNCHANGED <<owner, backlog>>

Send(p) ==
  /\ peer[p].finished /\ ~peer[p].hung /\ peer[p].sent < MaxUnits[p]
  /\ \E unit \in IF peer[p].half THEN {"payload"} ELSE {"header", "bare"} :
       peer' = [peer EXCEPT ![p].stream = Append(@, unit), ![p].sent = @ + 1,
                            ![p].half = unit = "header"]
  /\ UNCHANGED <<owner, backlog>>

Read(p) ==
  /\ peer[p].unread > 0
  /\ peer' = [peer EXCEPT ![p].unread = @ - 1]
  /\ UNCHANGED <<owner, backlog>>

(* Some of what it sent may be lost with it.                               *)
HangUp(p) ==
  /\ peer[p].at # "away" /\ ~peer[p].hung
  /\ \E n \in 0..Len(peer[p].stream) :
       peer' = [peer EXCEPT ![p].hung = TRUE, ![p].stream = SubSeq(@, 1, n)]
  /\ UNCHANGED <<owner, backlog>>

PeerStep(p) ==
  /\ Connect(p) \/ FinishHandshake(p) \/ Send(p) \/ Read(p) \/ HangUp(p)
  /\ UNCHANGED <<loop, clients, epoll>>

Next == ServerStep \/ \E p \in Peers : PeerStep(p)

Spec == Init /\ [][Next]_vars

(* The thread runs, two seconds pass, and the peers of Prompt and Readers  *)
(* do what these sets say.  No peer need ever connect, send or close.      *)
Fairness ==
  /\ WF_vars(ServerStep)
  /\ \A p \in Prompt : WF_vars(FinishHandshake(p) /\ UNCHANGED <<loop, clients, epoll>>)
  /\ \A p \in Readers : WF_vars(Read(p) /\ UNCHANGED <<loop, clients, epoll>>)

FairSpec == Spec /\ Fairness

-----------------------------------------------------------------------------
(* Properties                                                              *)

(* main.c:152, "Should not happen if logic is correct": every connection   *)
(* epoll reports has one client, and no client is left without connection, *)
(* whose descriptor a later one would get.                                 *)
ClientsAreConnections == IsInjective(clients) /\ Range(clients) = epoll

(* An event of the batch is never handled for a connection that was closed *)
(* by an earlier one, or for one that took its descriptor.                 *)
EventsBelongToConnections ==
  \A i \in DOMAIN loop.events :
    loop.events[i] = server_fd \/ loop.events[i] \in epoll

(* What is read as a header is a header: after a packet that was cut short,*)
(* by the timeout or by the peer, the rest of it is not taken for one.     *)
NeverOutOfStep ==
  loop.pc = "header" /\ sender.stream # <<>> => Head(sender.stream) # "payload"

(* README.md:21, "handle multiple simultaneous client connections          *)
(* efficiently": whoever connects is accepted, unless all descriptors are   *)
(* taken, and whatever is sent is read or its connection closed.           *)
EveryoneServed ==
  \A p \in Peers : /\ peer[p].at = "backlog" ~>
                        peer[p].at # "backlog" \/ free_fds = {}
                   /\ peer[p].stream # <<>> ~> peer[p].stream = <<>>

(* The descriptor of a peer that has closed is given back, whatever the    *)
(* thread was doing with it.                                               *)
HangUpsNoticed ==
  \A p \in Peers : peer[p].hung /\ peer[p].at = "in" ~> ~peer[p].hung
=============================================================================
