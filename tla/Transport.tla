----------------------------- MODULE Transport ------------------------------
(***************************************************************************)
(* src/common/protocol.c: send_packet and recv_packet over one direction   *)
(* of a TLS connection, SSL_write by SSL_write and SSL_read by SSL_read.   *)
(* The server writes from its one thread; in the client, the UI thread and *)
(* the network thread write to the same SSL handle without a lock.         *)
(*                                                                         *)
(* A byte is a unit that knows the packet it belongs to.  A header is two  *)
(* units long, so that it can be cut in the middle.                        *)
(***************************************************************************)
EXTENDS Integers, Sequences, SequencesExt

CONSTANTS
  Writers,     \* the threads that write
  MaxPayload,  \* bound: units of a payload
  MaxPackets,  \* bound: packets each of them sends
  WINDOW       \* units the connection holds

ASSUME TransportConstants ==
  /\ MaxPayload \in Nat /\ MaxPackets \in Nat /\ WINDOW \in Nat \ {0}

HeaderSize == 2

(* The number of a packet stands for its type and its contents.            *)
Packet == [from : Writers, number : 1..MaxPackets, payload_len : 0..MaxPayload]

Unit == [packet : Packet, part : {"header", "payload"}, pos : Nat]

header(p) == [k \in 1..HeaderSize |-> [packet |-> p, part |-> "header", pos |-> k]]
payload(p) == [k \in 1..p.payload_len |-> [packet |-> p, part |-> "payload", pos |-> k]]

VARIABLES
  writer,    \* what each thread has left to write: the data of its send_all
             \* calls, and how many packets it has begun
  wire,      \* units written and not yet read
  reader,    \* recv_packet: the part it reads, how long that is, and what
             \* it has of it; the header it has read
  sent,      \* the packets given to send_packet
  received,  \* header and payload of every packet returned by recv_packet
  up         \* the connection is there

vars == <<writer, wire, reader, sent, received, up>>

AtHeader == [part |-> "header", len |-> HeaderSize, got |-> <<>>, header |-> <<>>]

Init ==
  /\ writer = [w \in Writers |-> [left |-> <<>>, begun |-> 0]]
  /\ wire = <<>>
  /\ reader = AtHeader
  /\ sent = <<>> /\ received = <<>>
  /\ up = TRUE

-----------------------------------------------------------------------------
(* Sending                                                                 *)

(* Mutant: the payload goes first.                                         *)
PayloadFirst(p) == <<payload(p), header(p)>>

(* A packet without payload is its header.                                 *)
send_all_calls(p) ==
  IF p.payload_len > 0 THEN <<header(p), payload(p)>> ELSE <<header(p)>>

SendPacket(w) ==
  /\ writer[w].left = <<>>
  /\ writer[w].begun < MaxPackets
  /\ \E len \in 0..MaxPayload :
       LET p == [from |-> w, number |-> writer[w].begun + 1, payload_len |-> len]
       IN  /\ writer' = [writer EXCEPT ![w] = [left |-> send_all_calls(p),
                                               begun |-> p.number]]
           /\ sent' = Append(sent, p)
  /\ UNCHANGED <<wire, reader, received, up>>

(* send_all: one SSL_write takes some of the data, and the loop goes on    *)
(* with the rest.                                                          *)
rest_of(left, n) ==
  IF n = Len(Head(left)) THEN Tail(left)
  ELSE <<SubSeq(Head(left), n + 1, Len(Head(left)))>> \o Tail(left)

Write(w) ==
  /\ up
  /\ writer[w].left # <<>>
  /\ \E n \in 1..Len(Head(writer[w].left)) :
       /\ Len(wire) + n <= WINDOW
       /\ wire' = wire \o SubSeq(Head(writer[w].left), 1, n)
       /\ writer' = [writer EXCEPT ![w].left = rest_of(@, n)]
  /\ UNCHANGED <<reader, sent, received, up>>

(* Nobody looks at the -1 of send_packet.                                  *)
WriteFails(w) ==
  /\ ~up
  /\ writer[w].left # <<>>
  /\ writer' = [writer EXCEPT ![w].left = <<>>]
  /\ UNCHANGED <<wire, reader, sent, received, up>>

-----------------------------------------------------------------------------
(* Receiving                                                               *)

(* What payload_len reads as.  Units that are not a header can read as     *)
(* anything.                                                               *)
payload_lens(units) ==
  {p.payload_len : p \in {units[k].packet : k \in {k \in DOMAIN units :
                            units = header(units[k].packet)}}}

lengths(units) == IF payload_lens(units) = {} THEN 0..MaxPayload ELSE payload_lens(units)

(* Mutant: the loop of recv_all runs once too often.                       *)
OneTooMany(got, len) == Len(got) > len

(* recv_all returns.                                                       *)
complete(got, len) == Len(got) = len

packet_received(head, body) ==
  /\ received' = Append(received, [header |-> head, payload |-> body])
  /\ reader' = AtHeader

(* SSL_read returns some of what has been written.                         *)
Read ==
  \E n \in 1..(reader.len - Len(reader.got)) :
    LET got == reader.got \o SubSeq(wire, 1, n)
    IN  /\ reader.part # "closed"
        /\ n <= Len(wire)
        /\ wire' = SubSeq(wire, n + 1, Len(wire))
        /\ UNCHANGED <<writer, sent, up>>
        /\ \/ /\ ~complete(got, reader.len)
              /\ reader' = [reader EXCEPT !.got = got]
              /\ UNCHANGED received
           \/ /\ complete(got, reader.len) /\ reader.part = "header"
              /\ \E len \in lengths(got) :
                   IF len = 0 THEN packet_received(got, <<>>)
                   ELSE /\ reader' = [part |-> "payload", len |-> len,
                                      got |-> <<>>, header |-> got]
                        /\ UNCHANGED received
           \/ /\ complete(got, reader.len) /\ reader.part = "payload"
              /\ packet_received(reader.header, got)

(* Mutant: at a timeout the packet is given up, not the connection.        *)
Resumed == reader' = AtHeader /\ UNCHANGED <<wire, up>>

(* Whoever calls recv_packet closes the connection, or ends.               *)
given_up ==
  /\ reader' = [reader EXCEPT !.part = "closed"]
  /\ wire' = <<>> /\ up' = FALSE

(* The server, told by epoll that there is something to read, waits two    *)
(* seconds for the rest of it.                                             *)
ReadTimesOut ==
  /\ reader.part = "payload" \/ (reader.part = "header" /\ reader.got # <<>>)
  /\ up /\ wire = <<>>
  /\ given_up
  /\ UNCHANGED <<writer, sent, received>>

ReadFails ==
  /\ reader.part # "closed"
  /\ ~up /\ wire = <<>>
  /\ given_up
  /\ UNCHANGED <<writer, sent, received>>

(* The other side, or the network, is gone: some of what was under way is  *)
(* lost.                                                                   *)
LinkBreaks ==
  /\ up /\ up' = FALSE
  /\ \E n \in 0..Len(wire) : wire' = SubSeq(wire, 1, n)
  /\ UNCHANGED <<writer, reader, sent, received>>

WriterStep(w) == SendPacket(w) \/ Write(w) \/ WriteFails(w)

ReaderStep == Read \/ ReadTimesOut \/ ReadFails

Next == (\E w \in Writers : WriterStep(w)) \/ ReaderStep \/ LinkBreaks

Spec == Init /\ [][Next]_vars

(* A call that has begun goes on, and the reader reads.                    *)
FairSpec ==
  /\ Spec
  /\ \A w \in Writers : WF_vars(Write(w) \/ WriteFails(w))
  /\ WF_vars(ReaderStep)

-----------------------------------------------------------------------------
(* Properties                                                              *)

(* Writers, wire and reader hold what their declarations say.              *)
TypeOK ==
  /\ writer \in [Writers -> [left : Seq(Seq(Unit)), begun : 0..MaxPackets]]
  /\ wire \in Seq(Unit) /\ Len(wire) <= WINDOW
  /\ reader.part \in {"header", "payload", "closed"}
  /\ Len(reader.got) < reader.len /\ reader.len <= HeaderSize + MaxPayload
  /\ sent \in Seq(Packet)
  /\ received \in Seq([header : Seq(Unit), payload : Seq(Unit)])
  /\ up \in BOOLEAN

whole(r) == \E k \in DOMAIN sent : r = [header |-> header(sent[k]), payload |-> payload(sent[k])]

(* protocol.h:261, "Sends a full Protocol Message (Header + Payload)       *)
(* atomically via SSL": every packet received is one that was sent, with   *)
(* its own payload.                                                        *)
AtomicPackets == \A i \in DOMAIN received : whole(received[i])

(* The packet a received header and payload belong to.                     *)
Garbled == [from |-> "nobody", number |-> 0, payload_len |-> 0]

as_packet(r) ==
  IF whole(r) THEN r.header[1].packet ELSE Garbled

Channel == INSTANCE PacketChannel WITH
  received <- [i \in DOMAIN received |-> as_packet(received[i])],
  open <- up

(* One writer: the units on the wire make up the channel of packets        *)
(* protocol.h promises, whatever the sizes of the writes and reads and     *)
(* wherever the connection breaks.                                         *)
ImplementsChannel == Channel!FairSpec
=============================================================================
