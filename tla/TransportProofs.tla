-------------------------- MODULE TransportProofs ---------------------------
(***************************************************************************)
(* send_packet and recv_packet of src/common/protocol.c, for packets and   *)
(* connections of any size: the type invariant with any number of writers, *)
(* and with one writer what protocol.h promises, packets that arrive whole *)
(* and in order: Transport implements PacketChannel.                       *)
(***************************************************************************)
EXTENDS Transport, TLAPS, SequenceTheorems

-----------------------------------------------------------------------------
(* Any number of writers                                                   *)

ReaderShape ==
  reader \in [part : {"header", "payload", "closed"}, len : 1..(HeaderSize + MaxPayload),
              got : Seq(Unit), header : Seq(Unit)]

TypeInv == TypeOK /\ ReaderShape

LEMMA Units ==
  ASSUME NEW p \in Packet
  PROVE  /\ header(p) \in Seq(Unit) /\ Len(header(p)) = HeaderSize
         /\ payload(p) \in Seq(Unit) /\ Len(payload(p)) = p.payload_len
         /\ p.payload_len \in 0..MaxPayload
         /\ \A k \in 1..HeaderSize :
              header(p)[k] = [packet |-> p, part |-> "header", pos |-> k]
         /\ \A k \in 1..p.payload_len :
              payload(p)[k] = [packet |-> p, part |-> "payload", pos |-> k]
<1>1. p.payload_len \in 0..MaxPayload /\ p.payload_len \in Nat
  BY TransportConstants DEF Packet
<1>2. \A k \in 1..HeaderSize : [packet |-> p, part |-> "header", pos |-> k] \in Unit
  BY DEF Unit, HeaderSize
<1>3. \A k \in 1..p.payload_len : [packet |-> p, part |-> "payload", pos |-> k] \in Unit
  BY <1>1 DEF Unit
<1>4. header(p) \in Seq(Unit) /\ Len(header(p)) = HeaderSize
  BY <1>2 DEF header, HeaderSize
<1>5. payload(p) \in Seq(Unit) /\ Len(payload(p)) = p.payload_len
  BY <1>1, <1>3 DEF payload
<1> QED BY <1>1, <1>4, <1>5 DEF header, payload

(* The data of one packet, as send_all gets it.                            *)
LEMMA Calls ==
  ASSUME NEW p \in Packet
  PROVE  send_all_calls(p) \in Seq(Seq(Unit))
BY Units DEF send_all_calls

LEMMA Rest ==
  ASSUME NEW left \in Seq(Seq(Unit)), left # <<>>, NEW n \in 1..Len(Head(left))
  PROVE  /\ Head(left) \in Seq(Unit) /\ rest_of(left, n) \in Seq(Seq(Unit))
         /\ SubSeq(Head(left), 1, n) \in Seq(Unit)
         /\ Len(SubSeq(Head(left), 1, n)) = n
<1>1. Head(left) \in Seq(Unit) /\ Tail(left) \in Seq(Seq(Unit))
  OBVIOUS
<1> DEFINE h == Head(left)
<1> HIDE DEF h
<1>2. SubSeq(h, n + 1, Len(h)) \in Seq(Unit) /\ SubSeq(h, 1, n) \in Seq(Unit)
  BY <1>1 DEF h
<1>3. Len(SubSeq(h, 1, n)) = n
  BY <1>1 DEF h
<1>4. <<SubSeq(h, n + 1, Len(h))>> \o Tail(left) \in Seq(Seq(Unit))
  <2>1. <<SubSeq(h, n + 1, Len(h))>> \in Seq(Seq(Unit))
    BY <1>2
  <2> QED BY <1>1, <2>1
<1> QED BY <1>1, <1>2, <1>3, <1>4 DEF rest_of, h

(* What a length reads as.                                                 *)
LEMMA Lengths ==
  ASSUME NEW units \in Seq(Unit)
  PROVE  lengths(units) \subseteq 0..MaxPayload
<1>1. \A k \in DOMAIN units : units[k].packet.payload_len \in 0..MaxPayload
  <2>1. \A k \in DOMAIN units : units[k] \in Unit
    OBVIOUS
  <2>2. \A k \in DOMAIN units : units[k].packet \in Packet
    BY <2>1 DEF Unit
  <2> QED BY <2>2 DEF Packet
<1>2. payload_lens(units) \subseteq 0..MaxPayload
  BY <1>1 DEF payload_lens
<1> QED BY <1>2 DEF lengths

LEMMA TypeInit == Init => TypeInv
<1> SUFFICES ASSUME Init PROVE TypeInv
  OBVIOUS
<1>1. reader = AtHeader /\ wire = <<>> /\ sent = <<>> /\ received = <<>> /\ up = TRUE
      /\ writer = [w \in Writers |-> [left |-> <<>>, begun |-> 0]]
  BY DEF Init
<1>2. ReaderShape /\ Len(reader.got) < reader.len /\ reader.len <= HeaderSize + MaxPayload
  BY <1>1, TransportConstants DEF AtHeader, ReaderShape, HeaderSize
<1>3. writer \in [Writers -> [left : Seq(Seq(Unit)), begun : 0..MaxPackets]]
  BY <1>1, TransportConstants
<1>4. Len(wire) <= WINDOW
  BY <1>1, TransportConstants
<1> QED BY <1>1, <1>2, <1>3, <1>4 DEF TypeInv, TypeOK, ReaderShape

(* Reading: what becomes of the units recv_all has.                        *)
LEMMA TypeRead ==
  ASSUME TypeInv, Read
  PROVE  TypeInv'
<1>1. PICK n \in 1..(reader.len - Len(reader.got)) :
        LET got == reader.got \o SubSeq(wire, 1, n)
        IN  /\ reader.part # "closed" /\ n <= Len(wire)
            /\ wire' = SubSeq(wire, n + 1, Len(wire))
            /\ UNCHANGED <<writer, sent, up>>
            /\ \/ /\ ~complete(got, reader.len)
                  /\ reader' = [reader EXCEPT !.got = got]
                  /\ UNCHANGED received
               \/ /\ complete(got, reader.len) /\ reader.part = "header"
                  /\ \E len \in lengths(got) :
                       IF len = 0 THEN packet_received(got, <<>>)
                       ELSE /\ reader' = [part |-> "payload", len |-> len,
                                          got |-> <<>>, header |-> got]
                            /\ UNCHANGED received
               \/ /\ complete(got, reader.len) /\ reader.part = "payload"
                  /\ packet_received(reader.header, got)
  BY DEF Read
<1> DEFINE got == reader.got \o SubSeq(wire, 1, n)
<1>2. /\ reader.got \in Seq(Unit) /\ reader.len \in Nat /\ wire \in Seq(Unit)
      /\ Len(wire) <= WINDOW /\ reader.header \in Seq(Unit)
      /\ reader.part \in {"header", "payload", "closed"}
      /\ received \in Seq([header : Seq(Unit), payload : Seq(Unit)])
      /\ Len(reader.got) < reader.len /\ reader.len <= HeaderSize + MaxPayload
  BY TransportConstants DEF TypeInv, TypeOK, ReaderShape, HeaderSize
<1>3. /\ SubSeq(wire, 1, n) \in Seq(Unit) /\ Len(SubSeq(wire, 1, n)) = n
      /\ SubSeq(wire, n + 1, Len(wire)) \in Seq(Unit)
  BY <1>1, <1>2
<1>4. Len(SubSeq(wire, n + 1, Len(wire))) = Len(wire) - n
  BY <1>1, <1>2
<1>5. got \in Seq(Unit) /\ Len(got) = Len(reader.got) + n
  BY <1>2, <1>3
<1>6. wire' \in Seq(Unit) /\ Len(wire') <= WINDOW
  <2>1. wire' \in Seq(Unit) /\ Len(wire') = Len(wire) - n
    BY <1>1, <1>3, <1>4
  <2>2. Len(wire) \in Nat /\ Len(wire) - n <= Len(wire)
    BY <1>1, <1>2
  <2> QED BY <1>2, <2>1, <2>2, TransportConstants
<1> DEFINE Received == received' \in Seq([header : Seq(Unit), payload : Seq(Unit)])
           Reader == ReaderShape' /\ Len(reader'.got) < reader'.len
                       /\ reader'.len <= HeaderSize + MaxPayload
<1>7. ASSUME NEW head \in Seq(Unit), NEW body \in Seq(Unit), packet_received(head, body)
      PROVE  Received /\ Reader
  <2>1. received' = Append(received, [header |-> head, payload |-> body])
    BY <1>7 DEF packet_received
  <2>2. [header |-> head, payload |-> body] \in [header : Seq(Unit), payload : Seq(Unit)]
    OBVIOUS
  <2>3. reader' = [part |-> "header", len |-> HeaderSize, got |-> <<>>, header |-> <<>>]
    BY <1>7 DEF packet_received, AtHeader
  <2>4. Reader
    BY <2>3, TransportConstants DEF ReaderShape, HeaderSize
  <2> QED BY <1>2, <2>1, <2>2, <2>4
<1> HIDE DEF got, Received, Reader
<1>8. Received /\ Reader
  <2>1. CASE /\ ~complete(got, reader.len)
             /\ reader' = [reader EXCEPT !.got = got]
             /\ UNCHANGED received
    <3>1. Len(got) < reader.len
      BY <1>1, <1>2, <1>5, <2>1 DEF complete
    <3>2. reader' \in [part : {"header", "payload", "closed"},
                       len : 1..(HeaderSize + MaxPayload),
                       got : Seq(Unit), header : Seq(Unit)]
      BY <1>5, <2>1 DEF TypeInv, ReaderShape
    <3>3. reader'.got = got /\ reader'.len = reader.len
      BY <2>1 DEF TypeInv, ReaderShape
    <3> QED BY <1>2, <2>1, <3>1, <3>2, <3>3 DEF Received, Reader, ReaderShape
  <2>2. ASSUME NEW len \in lengths(got),
               IF len = 0 THEN packet_received(got, <<>>)
               ELSE /\ reader' = [part |-> "payload", len |-> len,
                                  got |-> <<>>, header |-> got]
                    /\ UNCHANGED received
        PROVE  Received /\ Reader
    <3>1. CASE len = 0
      <4>1. packet_received(got, <<>>) /\ <<>> \in Seq(Unit)
        BY <2>2, <3>1
      <4> QED BY <1>5, <1>7, <4>1
    <3>2. CASE len # 0
      <4>1. len \in 1..(HeaderSize + MaxPayload)
        <5>1. len \in 0..MaxPayload
          BY <1>5, Lengths
        <5> QED BY <3>2, <5>1, TransportConstants DEF HeaderSize
      <4>2. reader' = [part |-> "payload", len |-> len, got |-> <<>>, header |-> got]
        BY <2>2, <3>2
      <4>3. Reader
        BY <1>5, <4>1, <4>2, TransportConstants DEF Reader, ReaderShape, HeaderSize
      <4> QED BY <1>2, <2>2, <3>2, <4>3 DEF Received
    <3> QED BY <3>1, <3>2
  <2>3. CASE packet_received(reader.header, got)
    BY <1>2, <1>5, <1>7, <2>3
  <2> QED BY <1>1, <2>1, <2>2, <2>3 DEF got
<1> QED
  BY <1>1, <1>6, <1>8 DEF TypeInv, TypeOK, ReaderShape, Received, Reader

LEMMA TypeStep == TypeInv /\ [Next]_vars => TypeInv'
<1> SUFFICES ASSUME TypeInv, [Next]_vars PROVE TypeInv'
  OBVIOUS
<1>1. /\ writer \in [Writers -> [left : Seq(Seq(Unit)), begun : 0..MaxPackets]]
      /\ wire \in Seq(Unit) /\ Len(wire) <= WINDOW /\ sent \in Seq(Packet)
  BY DEF TypeInv, TypeOK
<1>2. ASSUME NEW w \in Writers, SendPacket(w)
      PROVE  TypeInv'
  <2>1. PICK len \in 0..MaxPayload :
          LET p == [from |-> w, number |-> writer[w].begun + 1, payload_len |-> len]
          IN  /\ writer' = [writer EXCEPT ![w] = [left |-> send_all_calls(p),
                                                  begun |-> p.number]]
              /\ sent' = Append(sent, p)
    BY <1>2 DEF SendPacket
  <2> DEFINE p == [from |-> w, number |-> writer[w].begun + 1, payload_len |-> len]
  <2>2. writer[w].begun + 1 \in 1..MaxPackets /\ writer[w].begun + 1 \in 0..MaxPackets
    BY <1>1, <1>2, TransportConstants DEF SendPacket
  <2>3. p \in Packet /\ p.number \in 0..MaxPackets
    BY <2>2 DEF Packet
  <2>4. /\ writer' = [writer EXCEPT ![w] = [left |-> send_all_calls(p), begun |-> p.number]]
        /\ sent' = Append(sent, p)
    BY <2>1
  <2> HIDE DEF p
  <2>5. [left |-> send_all_calls(p), begun |-> p.number]
          \in [left : Seq(Seq(Unit)), begun : 0..MaxPackets]
    BY <2>3, Calls
  <2>6. writer' \in [Writers -> [left : Seq(Seq(Unit)), begun : 0..MaxPackets]]
    BY <1>1, <2>4, <2>5
  <2>7. sent' \in Seq(Packet)
    BY <1>1, <2>3, <2>4
  <2> QED BY <1>2, <2>6, <2>7 DEF SendPacket, TypeInv, TypeOK, ReaderShape
<1>3. ASSUME NEW w \in Writers, Write(w)
      PROVE  TypeInv'
  <2> DEFINE left == writer[w].left
  <2>1. PICK n \in 1..Len(Head(left)) :
          /\ Len(wire) + n <= WINDOW
          /\ wire' = wire \o SubSeq(Head(left), 1, n)
          /\ writer' = [writer EXCEPT ![w].left = rest_of(left, n)]
    BY <1>3 DEF Write
  <2>2. left \in Seq(Seq(Unit)) /\ left # <<>> /\ writer[w] \in [left : Seq(Seq(Unit)), begun : 0..MaxPackets]
    BY <1>1, <1>3 DEF Write
  <2> HIDE DEF left
  <2>3. /\ rest_of(left, n) \in Seq(Seq(Unit)) /\ SubSeq(Head(left), 1, n) \in Seq(Unit)
        /\ Len(SubSeq(Head(left), 1, n)) = n
    BY <2>2, Rest
  <2>4. wire' \in Seq(Unit) /\ Len(wire') <= WINDOW
    BY <1>1, <2>1, <2>3
  <2>5. writer' \in [Writers -> [left : Seq(Seq(Unit)), begun : 0..MaxPackets]]
    BY <1>1, <2>1, <2>2, <2>3
  <2> QED BY <1>3, <2>4, <2>5 DEF Write, TypeInv, TypeOK, ReaderShape
<1>4. ASSUME NEW w \in Writers, WriteFails(w)
      PROVE  TypeInv'
  <2>1. writer' = [writer EXCEPT ![w].left = <<>>]
    BY <1>4 DEF WriteFails
  <2>2. <<>> \in Seq(Seq(Unit))
    OBVIOUS
  <2>3. writer' \in [Writers -> [left : Seq(Seq(Unit)), begun : 0..MaxPackets]]
    BY <1>1, <2>1, <2>2
  <2> QED BY <1>4, <2>3 DEF WriteFails, TypeInv, TypeOK, ReaderShape
<1>5. CASE Read
  BY <1>5, TypeRead
<1>6. CASE ReadTimesOut \/ ReadFails
  <2>1. /\ reader' = [reader EXCEPT !.part = "closed"] /\ wire' = <<>> /\ up' = FALSE
        /\ UNCHANGED <<writer, sent, received>>
    BY <1>6 DEF ReadTimesOut, ReadFails, given_up
  <2>2. ReaderShape' /\ reader'.len = reader.len /\ reader'.got = reader.got /\ reader'.part = "closed"
    BY <2>1 DEF TypeInv, ReaderShape
  <2>3. wire' \in Seq(Unit) /\ Len(wire') = 0 /\ Len(wire') <= WINDOW
    BY <2>1, TransportConstants
  <2> QED BY <2>1, <2>2, <2>3 DEF TypeInv, TypeOK
<1>7. CASE LinkBreaks
  <2>1. PICK n \in 0..Len(wire) : wire' = SubSeq(wire, 1, n)
    BY <1>7 DEF LinkBreaks
  <2>2. wire' \in Seq(Unit) /\ Len(wire') = n /\ Len(wire) \in Nat
    BY <1>1, <2>1
  <2>3. Len(wire') <= WINDOW
    BY <1>1, <2>2, TransportConstants
  <2> QED BY <1>7, <2>2, <2>3 DEF LinkBreaks, TypeInv, TypeOK, ReaderShape
<1>8. CASE UNCHANGED vars
  BY <1>8 DEF vars, TypeInv, TypeOK, ReaderShape
<1> QED BY <1>2, <1>3, <1>4, <1>5, <1>6, <1>7, <1>8 DEF Next, WriterStep, ReaderStep

(* Whatever the writers write between each other, the buffers of           *)
(* recv_packet are never overrun: a length is bounded before it is used.   *)
THEOREM TransportTypeOK == Spec => []TypeOK
<1>1. TypeInv => TypeOK
  BY DEF TypeInv
<1> QED BY TypeInit, TypeStep, <1>1, PTL DEF Spec

-----------------------------------------------------------------------------
(* One writer                                                              *)
(*                                                                         *)
(* all is every unit given to SSL_write or to be given to it, off[n] how   *)
(* many of them come before the n-th packet.  What recv_packet has, what is*)
(* on the wire and what is left to write follow each other in all.         *)

(* s is in all, after the first units.                                     *)
Part(s, all, first) ==
  first + Len(s) <= Len(all) /\ \A i \in 1..Len(s) : s[i] = all[first + i]

Lays(all, off, packets) ==
  /\ all \in Seq(Unit)
  /\ off \in Seq(Nat) /\ Len(off) = Len(packets) + 1
  /\ off[1] = 0 /\ off[Len(packets) + 1] = Len(all)
  /\ \A n \in DOMAIN packets :
       /\ off[n + 1] = off[n] + HeaderSize + packets[n].payload_len
       /\ off[n + 1] <= Len(all)
       /\ Part(header(packets[n]), all, off[n])
       /\ Part(payload(packets[n]), all, off[n] + HeaderSize)

Layout(all, off) == Lays(all, off, sent)

(* The units of the header and payload that recv_packet has done with.     *)
read_before(off) ==
  off[Len(received) + 1] + IF reader.part = "payload" THEN HeaderSize ELSE 0

written(off) == read_before(off) + Len(reader.got) + Len(wire)

(* Packets are received in order, and the current one is the next.         *)
InOrder ==
  /\ Len(received) <= Len(sent)
  /\ \A i \in DOMAIN received :
       received[i] = [header |-> header(sent[i]), payload |-> payload(sent[i])]
  /\ reader.part = "header" => reader.len = HeaderSize
  /\ reader.part = "payload" =>
       /\ Len(received) < Len(sent)
       /\ reader.header = header(sent[Len(received) + 1])
       /\ reader.len = sent[Len(received) + 1].payload_len
  /\ reader.part = "closed" => ~up

Reading(all, off) ==
  reader.part # "closed" =>
    /\ Part(reader.got, all, read_before(off))
    /\ Part(wire, all, read_before(off) + Len(reader.got))

pending(left) ==
  IF left = <<>> THEN <<>> ELSE IF Len(left) = 1 THEN left[1] ELSE left[1] \o left[2]

Pieces(left) == Len(left) <= 2 /\ \A i \in DOMAIN left : left[i] # <<>>

Writing(w, all, off) ==
  up => /\ written(off) + Len(pending(writer[w].left)) = Len(all)
        /\ Part(pending(writer[w].left), all, written(off))

Stream(w) ==
  \E all, off : Layout(all, off) /\ Reading(all, off) /\ Writing(w, all, off)

Inv(w) == TypeInv /\ InOrder /\ Pieces(writer[w].left) /\ Stream(w)

-----------------------------------------------------------------------------
(* Sequences                                                               *)

LEMMA Elements ==
  ASSUME NEW S, NEW s \in Seq(S)
  PROVE  /\ Len(s) \in Nat /\ DOMAIN s = 1..Len(s)
         /\ \A i \in 1..Len(s) : s[i] \in S
         /\ s = <<>> <=> Len(s) = 0
BY EmptySeq

LEMMA Joined ==
  ASSUME NEW S, NEW s \in Seq(S), NEW t \in Seq(S)
  PROVE  /\ s \o t \in Seq(S) /\ Len(s \o t) = Len(s) + Len(t)
         /\ \A i \in 1..Len(s) : (s \o t)[i] = s[i]
         /\ \A i \in 1..Len(t) : (s \o t)[Len(s) + i] = t[i]
<1>1. /\ s \o t \in Seq(S) /\ Len(s \o t) = Len(s) + Len(t)
      /\ \A i \in 1..(Len(s) + Len(t)) :
           (s \o t)[i] = IF i <= Len(s) THEN s[i] ELSE t[i - Len(s)]
  BY ConcatProperties
<1>2. Len(s) \in Nat /\ Len(t) \in Nat
  OBVIOUS
<1>3. ASSUME NEW i \in 1..Len(t)
      PROVE  (s \o t)[Len(s) + i] = t[i]
  <2>1. Len(s) + i \in 1..(Len(s) + Len(t)) /\ ~(Len(s) + i <= Len(s))
    BY <1>2
  <2>2. (Len(s) + i) - Len(s) = i
    BY <1>2
  <2> QED BY <1>1, <2>1, <2>2
<1> QED BY <1>1, <1>2, <1>3

LEMMA Cut ==
  ASSUME NEW S, NEW s \in Seq(S), NEW n \in 0..Len(s)
  PROVE  /\ SubSeq(s, 1, n) \in Seq(S) /\ Len(SubSeq(s, 1, n)) = n
         /\ \A i \in 1..n : SubSeq(s, 1, n)[i] = s[i]
         /\ SubSeq(s, n + 1, Len(s)) \in Seq(S)
         /\ Len(SubSeq(s, n + 1, Len(s))) = Len(s) - n
         /\ \A i \in 1..(Len(s) - n) : SubSeq(s, n + 1, Len(s))[i] = s[n + i]
<1>1. SubSeq(s, 1, n) \in Seq(S) /\ Len(SubSeq(s, 1, n)) = n
  OBVIOUS
<1>2. \A i \in 1..n : SubSeq(s, 1, n)[i] = s[i]
  OBVIOUS
<1>3. SubSeq(s, n + 1, Len(s)) \in Seq(S)
  OBVIOUS
<1>4. Len(SubSeq(s, n + 1, Len(s))) = Len(s) - n
  OBVIOUS
<1>5. \A i \in 1..(Len(s) - n) : SubSeq(s, n + 1, Len(s))[i] = s[n + i]
  OBVIOUS
<1> QED BY <1>1, <1>2, <1>3, <1>4, <1>5

(* Parts that follow each other are one part.                              *)
LEMMA PartJoined ==
  ASSUME NEW s \in Seq(Unit), NEW t \in Seq(Unit), NEW all \in Seq(Unit),
         NEW first \in Nat,
         Part(s, all, first), Part(t, all, first + Len(s))
  PROVE  Part(s \o t, all, first)
<1> DEFINE u == s \o t
<1>1. /\ Len(u) = Len(s) + Len(t) /\ Len(s) \in Nat /\ Len(t) \in Nat
      /\ Len(all) \in Nat
      /\ \A i \in 1..Len(s) : u[i] = s[i]
      /\ \A i \in 1..Len(t) : u[Len(s) + i] = t[i]
  BY Joined
<1> HIDE DEF u
<1>2. first + Len(u) <= Len(all)
  BY <1>1 DEF Part
<1>3. ASSUME NEW i \in 1..Len(u)
      PROVE  u[i] = all[first + i]
  <2>1. CASE i <= Len(s)
    BY <1>1, <2>1 DEF Part
  <2>2. CASE ~(i <= Len(s))
    <3>1. /\ i - Len(s) \in 1..Len(t) /\ Len(s) + (i - Len(s)) = i
          /\ (first + Len(s)) + (i - Len(s)) = first + i
      BY <1>1, <2>2
    <3>2. u[i] = t[i - Len(s)]
      BY <1>1, <3>1
    <3>3. t[i - Len(s)] = all[(first + Len(s)) + (i - Len(s))]
      BY <3>1 DEF Part
    <3> QED BY <3>1, <3>2, <3>3
  <2> QED BY <2>1, <2>2
<1> QED BY <1>2, <1>3 DEF Part, u

(* A part can be cut in two.                                               *)
LEMMA PartCut ==
  ASSUME NEW s \in Seq(Unit), NEW all \in Seq(Unit), NEW first \in Nat,
         NEW n \in 0..Len(s), Part(s, all, first)
  PROVE  /\ Part(SubSeq(s, 1, n), all, first)
         /\ Part(SubSeq(s, n + 1, Len(s)), all, first + n)
<1> DEFINE a == SubSeq(s, 1, n)
           b == SubSeq(s, n + 1, Len(s))
<1>1. /\ Len(a) = n /\ \A i \in 1..n : a[i] = s[i]
      /\ Len(b) = Len(s) - n /\ \A i \in 1..(Len(s) - n) : b[i] = s[n + i]
      /\ Len(s) \in Nat /\ Len(all) \in Nat
  BY Cut
<1> HIDE DEF a, b
<1>2. Part(a, all, first)
  <2>1. first + Len(a) <= Len(all)
    BY <1>1 DEF Part
  <2>2. \A i \in 1..Len(a) : a[i] = all[first + i]
    BY <1>1 DEF Part
  <2> QED BY <2>1, <2>2 DEF Part
<1>3. Part(b, all, first + n)
  <2>1. (first + n) + Len(b) <= Len(all)
    BY <1>1 DEF Part
  <2>2. ASSUME NEW i \in 1..Len(b)
        PROVE  b[i] = all[(first + n) + i]
    <3>1. n + i \in 1..Len(s) /\ first + (n + i) = (first + n) + i
      BY <1>1
    <3>2. b[i] = s[n + i]
      BY <1>1
    <3> QED BY <3>1, <3>2 DEF Part
  <2> QED BY <2>1, <2>2 DEF Part
<1> QED BY <1>2, <1>3 DEF a, b

(* More units leave a part where it is.                                    *)
LEMMA PartKept ==
  ASSUME NEW s \in Seq(Unit), NEW all \in Seq(Unit), NEW more \in Seq(Unit),
         NEW first \in Nat, Part(s, all, first)
  PROVE  Part(s, all \o more, first)
<1> DEFINE u == all \o more
<1>1. /\ Len(u) = Len(all) + Len(more) /\ Len(s) \in Nat /\ Len(all) \in Nat
      /\ Len(more) \in Nat /\ \A i \in 1..Len(all) : u[i] = all[i]
  BY Joined
<1> HIDE DEF u
<1> QED BY <1>1 DEF Part, u

(* Two parts of the same place and length are the same.                    *)
LEMMA SamePart ==
  ASSUME NEW s \in Seq(Unit), NEW t \in Seq(Unit), NEW all, NEW first,
         Part(s, all, first), Part(t, all, first), Len(s) = Len(t)
  PROVE  s = t
<1>1. \A i \in 1..Len(s) : s[i] = t[i]
  BY DEF Part
<1> QED BY <1>1, SeqEqual

(* Sequences of one and of two elements.                                   *)
LEMMA OneOrTwo ==
  ASSUME NEW S, NEW s \in Seq(S), s # <<>>, Len(s) <= 2
  PROVE  /\ Head(s) = s[1] /\ s[1] \in S
         /\ \/ Len(s) = 1 /\ Tail(s) = <<>>
            \/ Len(s) = 2 /\ s[2] \in S /\ Tail(s) = <<s[2]>> /\ 2 \in DOMAIN s
<1>1. Len(s) \in Nat /\ Len(s) # 0 /\ DOMAIN s = 1..Len(s)
  BY Elements
<1>2. Head(s) = s[1] /\ s[1] \in S
  BY <1>1
<1>3. /\ Tail(s) \in Seq(S) /\ Len(Tail(s)) = Len(s) - 1
      /\ \A i \in 1..(Len(s) - 1) : Tail(s)[i] = s[i + 1]
  <2>1. Tail(s) \in Seq(S) /\ Len(Tail(s)) = Len(s) - 1
    OBVIOUS
  <2>2. \A i \in 1..(Len(s) - 1) : Tail(s)[i] = s[i + 1]
    OBVIOUS
  <2> QED BY <2>1, <2>2
<1> DEFINE t == Tail(s)
<1> HIDE DEF t
<1>4. CASE Len(s) = 1
  <2>1. t \in Seq(S) /\ Len(t) = 0
    BY <1>3, <1>4 DEF t
  <2>2. t = <<>>
    BY <2>1, Elements
  <2> QED BY <1>2, <1>4, <2>2 DEF t
<1>5. CASE Len(s) = 2
  <2>1. s[2] \in S /\ 2 \in DOMAIN s
    <3>1. 2 \in 1..Len(s)
      BY <1>5
    <3> QED BY <3>1, Elements
  <2>2. t \in Seq(S) /\ Len(t) = 1 /\ t[1] = s[2]
    BY <1>3, <1>5 DEF t
  <2>3. t = <<s[2]>>
    BY <2>2
  <2> QED BY <1>2, <1>5, <2>1, <2>3 DEF t
<1>6. Len(s) = 1 \/ Len(s) = 2
  BY <1>1
<1> QED BY <1>4, <1>5, <1>6

LEMMA JoinedPair ==
  ASSUME NEW x, NEW y
  PROVE  <<x>> \o <<y>> = <<x, y>>
<1> DEFINE s == <<x>>
           t == <<y>>
           u == <<x, y>>
<1>1. s \in Seq({x, y}) /\ t \in Seq({x, y}) /\ u \in Seq({x, y})
  OBVIOUS
<1>2. Len(s) = 1 /\ Len(t) = 1 /\ Len(u) = 2 /\ s[1] = x /\ t[1] = y /\ u[1] = x /\ u[2] = y
  OBVIOUS
<1> HIDE DEF s, t, u
<1> DEFINE v == s \o t
<1>3. /\ v \in Seq({x, y}) /\ Len(v) = Len(s) + Len(t)
      /\ \A i \in 1..Len(s) : v[i] = s[i]
      /\ \A i \in 1..Len(t) : v[Len(s) + i] = t[i]
  BY <1>1, Joined
<1> HIDE DEF v
<1>4. Len(v) = 2 /\ v[1] = x /\ v[2] = y
  BY <1>2, <1>3
<1>5. \A i \in 1..Len(v) : v[i] = u[i]
  BY <1>2, <1>4
<1>6. v = u
  BY <1>1, <1>2, <1>3, <1>4, <1>5, SeqEqual
<1> QED BY <1>6 DEF v, s, t, u

LEMMA Pair ==
  ASSUME NEW x, NEW y
  PROVE  /\ <<x>> # <<>> /\ Len(<<x>>) = 1 /\ <<x>>[1] = x
         /\ <<x, y>> # <<>> /\ Len(<<x, y>>) = 2 /\ <<x, y>>[1] = x /\ <<x, y>>[2] = y
         /\ Pieces(<<x>>) <=> x # <<>>
         /\ Pieces(<<x, y>>) <=> x # <<>> /\ y # <<>>
         /\ pending(<<x>>) = x /\ pending(<<x, y>>) = x \o y
<1>1. /\ <<x>> # <<>> /\ Len(<<x>>) = 1 /\ <<x>>[1] = x /\ DOMAIN <<x>> = {1}
      /\ <<x, y>> # <<>> /\ Len(<<x, y>>) = 2 /\ <<x, y>>[1] = x /\ <<x, y>>[2] = y
      /\ DOMAIN <<x, y>> = {1, 2}
  OBVIOUS
<1>2. pending(<<x>>) = x
  BY <1>1 DEF pending
<1>3. pending(<<x, y>>) = x \o y
  BY <1>1 DEF pending
<1>4. Pieces(<<x>>) <=> x # <<>>
  BY <1>1 DEF Pieces
<1>5. Pieces(<<x, y>>) <=> x # <<>> /\ y # <<>>
  BY <1>1 DEF Pieces
<1> QED BY <1>1, <1>2, <1>3, <1>4, <1>5

LEMMA OnePending ==
  ASSUME NEW x, x # <<>>
  PROVE  pending(<<x>>) = x /\ Pieces(<<x>>)
BY Pair

LEMMA TwoPending ==
  ASSUME NEW x, NEW y, x # <<>>, y # <<>>
  PROVE  /\ pending(<<x, y>>) = x \o y /\ Pieces(<<x, y>>)
         /\ <<x>> \o <<y>> = <<x, y>>
<1>1. <<x>> \o <<y>> = <<x, y>>
  BY JoinedPair
<1>2. pending(<<x, y>>) = x \o y
  <2> DEFINE u == <<x, y>>
  <2>1. u # <<>> /\ Len(u) = 2 /\ u[1] = x /\ u[2] = y
    BY Pair
  <2> HIDE DEF u
  <2>2. pending(u) = u[1] \o u[2]
    BY <2>1 DEF pending
  <2> QED BY <2>1, <2>2 DEF u
<1>3. Pieces(<<x, y>>)
  BY Pair
<1> QED BY <1>1, <1>2, <1>3

LEMMA NothingPending == pending(<<>>) = <<>> /\ Pieces(<<>>)
BY DEF pending, Pieces

(* send_all: an SSL_write takes the first of what is pending.              *)
LEMMA PendingRest ==
  ASSUME NEW left \in Seq(Seq(Unit)), left # <<>>, Pieces(left),
         NEW n \in 1..Len(Head(left))
  PROVE  /\ pending(left) \in Seq(Unit) /\ n \in 0..Len(pending(left))
         /\ SubSeq(Head(left), 1, n) = SubSeq(pending(left), 1, n)
         /\ pending(rest_of(left, n)) = SubSeq(pending(left), n + 1, Len(pending(left)))
         /\ Pieces(rest_of(left, n))
<1> DEFINE h == Head(left)
           m == pending(left)
           b == SubSeq(h, n + 1, Len(h))
<1>1. /\ h = left[1] /\ h \in Seq(Unit) /\ Len(h) \in Nat /\ n \in 0..Len(h)
      /\ n \in 1..Len(h) /\ 1 \in DOMAIN left
      /\ \/ Len(left) = 1 /\ Tail(left) = <<>>
         \/ /\ Len(left) = 2 /\ left[2] \in Seq(Unit) /\ left[2] # <<>>
            /\ Tail(left) = <<left[2]>>
  <2>1. Len(left) <= 2
    BY DEF Pieces
  <2>2. /\ h = left[1] /\ h \in Seq(Unit)
        /\ \/ Len(left) = 1 /\ Tail(left) = <<>>
           \/ /\ Len(left) = 2 /\ left[2] \in Seq(Unit) /\ Tail(left) = <<left[2]>>
              /\ 2 \in DOMAIN left
    BY <2>1, OneOrTwo
  <2> HIDE DEF h
  <2>3. Len(h) \in Nat
    BY <2>2
  <2>4. n \in 1..Len(h) /\ n \in 0..Len(h)
    BY <2>3 DEF h
  <2>5. 1 \in DOMAIN left
    BY <2>2
  <2> QED BY <2>2, <2>3, <2>4, <2>5 DEF Pieces
<1>2. /\ b \in Seq(Unit) /\ Len(b) = Len(h) - n
      /\ b = <<>> <=> Len(h) = n
      /\ \A i \in 1..(Len(h) - n) : b[i] = h[n + i]
  <2>1. /\ b \in Seq(Unit) /\ Len(b) = Len(h) - n
        /\ \A i \in 1..(Len(h) - n) : b[i] = h[n + i]
    BY <1>1, Cut
  <2> HIDE DEF b, h
  <2>2. b = <<>> <=> Len(b) = 0
    BY <2>1, Elements
  <2> QED BY <1>1, <2>1, <2>2
<1>3. CASE Len(left) = 1
  <2>1. m = h
    BY <1>1, <1>3 DEF pending
  <2>2. Tail(left) = <<>>
    BY <1>1, <1>3
  <2>3. CASE n = Len(h)
    <3>1. rest_of(left, n) = <<>> /\ b = <<>>
      BY <1>2, <2>2, <2>3 DEF rest_of
    <3> QED BY <1>1, <2>1, <3>1, NothingPending
  <2>4. CASE n # Len(h)
    <3>1. rest_of(left, n) = <<b>>
      <4>1. rest_of(left, n) = <<b>> \o Tail(left)
        BY <2>4 DEF rest_of
      <4> HIDE DEF b
      <4>2. <<b>> \in Seq({b}) /\ <<b>> \o <<>> = <<b>>
        BY ConcatEmptySeq
      <4> QED BY <2>2, <4>1, <4>2
    <3>2. b # <<>>
      BY <1>2, <2>4
    <3> HIDE DEF b
    <3>3. pending(<<b>>) = b /\ Pieces(<<b>>)
      BY <3>2, OnePending
    <3> QED BY <1>1, <2>1, <3>1, <3>3 DEF b
  <2> QED BY <2>3, <2>4
<1>4. CASE Len(left) = 2
  <2> DEFINE t == left[2]
  <2>1. m = h \o t /\ t \in Seq(Unit) /\ t # <<>> /\ Tail(left) = <<t>>
    BY <1>1, <1>4 DEF pending
  <2> HIDE DEF t, m, b, h
  <2>2. /\ m \in Seq(Unit) /\ Len(m) = Len(h) + Len(t) /\ Len(t) \in Nat
        /\ Len(h) \in Nat
        /\ \A i \in 1..Len(h) : m[i] = h[i]
        /\ \A i \in 1..Len(t) : m[Len(h) + i] = t[i]
    BY <1>1, <2>1, Joined
  <2>3. n \in 0..Len(m)
    BY <1>1, <2>2
  <2>4. SubSeq(h, 1, n) = SubSeq(m, 1, n)
    <3>1. /\ SubSeq(h, 1, n) \in Seq(Unit) /\ Len(SubSeq(h, 1, n)) = n
          /\ \A i \in 1..n : SubSeq(h, 1, n)[i] = h[i]
      BY <1>1, Cut
    <3>2. /\ SubSeq(m, 1, n) \in Seq(Unit) /\ Len(SubSeq(m, 1, n)) = n
          /\ \A i \in 1..n : SubSeq(m, 1, n)[i] = m[i]
      BY <2>2, <2>3, Cut
    <3>3. ASSUME NEW i \in 1..n PROVE h[i] = m[i]
      <4>1. i \in 1..Len(h)
        BY <1>1
      <4> QED BY <2>2, <4>1
    <3> DEFINE x == SubSeq(h, 1, n)
               y == SubSeq(m, 1, n)
    <3>4. x \in Seq(Unit) /\ y \in Seq(Unit) /\ Len(x) = Len(y)
          /\ \A i \in 1..Len(x) : x[i] = y[i]
      BY <3>1, <3>2, <3>3
    <3> HIDE DEF x, y
    <3>5. x = y
      BY <3>4, SeqEqual
    <3> QED BY <3>5 DEF x, y
  <2>5. b \o t = SubSeq(m, n + 1, Len(m))
    <3> DEFINE x == b \o t
               y == SubSeq(m, n + 1, Len(m))
    <3>1. /\ x \in Seq(Unit) /\ Len(x) = Len(b) + Len(t)
          /\ \A i \in 1..Len(b) : x[i] = b[i]
          /\ \A i \in 1..Len(t) : x[Len(b) + i] = t[i]
      <4>1. b \in Seq(Unit) /\ t \in Seq(Unit)
        BY <1>2, <2>1
      <4> QED BY <4>1, Joined
    <3>2. /\ y \in Seq(Unit) /\ Len(y) = Len(m) - n
          /\ \A i \in 1..(Len(m) - n) : y[i] = m[n + i]
      BY <2>2, <2>3, Cut
    <3>3. Len(x) = Len(y)
      BY <1>1, <1>2, <2>2, <3>1, <3>2
    <3> HIDE DEF x, y, b, h
    <3>4. ASSUME NEW i \in 1..Len(x)
          PROVE  x[i] = y[i]
      <4>1. CASE i <= Len(b)
        <5>1. /\ i \in 1..Len(b) /\ i \in 1..(Len(h) - n) /\ n + i \in 1..Len(h)
              /\ i \in 1..(Len(m) - n)
          <6>1. i \in Nat /\ i >= 1 /\ i <= Len(x)
            BY <3>1, <4>1
          <6>2. i \in 1..Len(b)
            BY <1>2, <4>1, <6>1
          <6>3. i \in 1..(Len(h) - n)
            BY <1>2, <6>2
          <6>4. n + i \in 1..Len(h)
            BY <1>1, <6>3
          <6>5. i \in 1..(Len(m) - n)
            BY <3>1, <3>2, <3>3, <6>1
          <6> QED BY <6>2, <6>3, <6>4, <6>5
        <5> QED BY <1>2, <2>2, <3>1, <3>2, <5>1
      <4>2. CASE ~(i <= Len(b))
        <5>1. /\ i - Len(b) \in 1..Len(t) /\ Len(b) + (i - Len(b)) = i
              /\ Len(h) + (i - Len(b)) = n + i /\ i \in 1..(Len(m) - n)
          <6>1. /\ Len(b) = Len(h) - n /\ Len(h) \in Nat /\ n \in Nat /\ n <= Len(h)
                /\ Len(t) \in Nat /\ Len(m) = Len(h) + Len(t) /\ Len(x) = Len(b) + Len(t)
            BY <1>1, <1>2, <2>2, <3>1
          <6> QED BY <4>2, <6>1
        <5>2. x[i] = t[i - Len(b)]
          BY <3>1, <5>1
        <5>3. m[n + i] = t[i - Len(b)]
          BY <2>2, <5>1
        <5> QED BY <3>2, <5>1, <5>2, <5>3
      <4> QED BY <4>1, <4>2
    <3>5. x = y
      BY <3>1, <3>2, <3>3, <3>4, SeqEqual
    <3> QED BY <3>5 DEF x, y
  <2>6. CASE n = Len(h)
    <3>1. rest_of(left, n) = <<t>> /\ b = <<>>
      <4>1. rest_of(left, n) = Tail(left)
        BY <2>6 DEF rest_of, h
      <4>2. b = <<>>
        BY <1>2, <2>6
      <4> QED BY <2>1, <4>1, <4>2
    <3>2. pending(<<t>>) = t /\ Pieces(<<t>>)
      BY <2>1, OnePending
    <3>3. b \o t = t
      BY <2>1, <3>1, ConcatEmptySeq
    <3> QED BY <2>2, <2>3, <2>4, <2>5, <3>1, <3>2, <3>3 DEF m, h
  <2>7. CASE n # Len(h)
    <3>1. rest_of(left, n) = <<b>> \o <<t>>
      BY <2>1, <2>7 DEF rest_of, h, b
    <3>2. b # <<>>
      BY <1>2, <2>7
    <3> HIDE DEF b
    <3>3. <<b>> \o <<t>> = <<b, t>>
      BY <2>1, <3>2, TwoPending
    <3>4. pending(<<b, t>>) = b \o t /\ Pieces(<<b, t>>)
      BY <2>1, <3>2, TwoPending
    <3> QED BY <2>2, <2>3, <2>4, <2>5, <3>1, <3>3, <3>4 DEF m, h
  <2> QED BY <2>6, <2>7
<1> QED BY <1>1, <1>3, <1>4

(* The header of a packet reads as the length of its payload.              *)
LEMMA HeaderRead ==
  ASSUME NEW p \in Packet
  PROVE  lengths(header(p)) = {p.payload_len}
<1> DEFINE h == header(p)
<1>1. h \in Seq(Unit) /\ DOMAIN h = 1..2 /\ \A k \in 1..2 : h[k].packet = p
  <2>1. /\ h \in Seq(Unit) /\ Len(h) = 2
        /\ \A k \in 1..2 : h[k] = [packet |-> p, part |-> "header", pos |-> k]
    BY Units DEF HeaderSize
  <2> HIDE DEF h
  <2> QED BY <2>1
<1> HIDE DEF h
<1>2. {k \in DOMAIN h : h = header(h[k].packet)} = DOMAIN h
  BY <1>1 DEF h
<1>3. {h[k].packet : k \in DOMAIN h} = {p}
  <2>1. 1 \in DOMAIN h
    BY <1>1
  <2> QED BY <1>1, <2>1
<1>4. payload_lens(h) = {p.payload_len}
  BY <1>2, <1>3 DEF payload_lens
<1> QED BY <1>4 DEF lengths, h

(* A packet is pending as its header and its payload.                      *)
LEMMA PendingPacket ==
  ASSUME NEW p \in Packet
  PROVE  /\ pending(send_all_calls(p)) = header(p) \o payload(p)
         /\ Pieces(send_all_calls(p))
<1> DEFINE h == header(p)
           b == payload(p)
<1>1. /\ h \in Seq(Unit) /\ Len(h) = 2 /\ b \in Seq(Unit) /\ Len(b) = p.payload_len
      /\ p.payload_len \in Nat
      /\ send_all_calls(p) = IF p.payload_len > 0 THEN <<h, b>> ELSE <<h>>
  <2>1. /\ h \in Seq(Unit) /\ Len(h) = 2 /\ b \in Seq(Unit) /\ Len(b) = p.payload_len
        /\ p.payload_len \in 0..MaxPayload
    BY Units DEF HeaderSize
  <2>2. send_all_calls(p) = IF p.payload_len > 0 THEN <<h, b>> ELSE <<h>>
    BY DEF send_all_calls
  <2> HIDE DEF h, b
  <2> QED BY <2>1, <2>2, TransportConstants
<1> HIDE DEF h, b
<1>2. h # <<>> /\ (b = <<>> <=> p.payload_len = 0)
  BY <1>1, Elements
<1>3. CASE p.payload_len > 0
  <2>1. send_all_calls(p) = <<h, b>>
    BY <1>1, <1>3
  <2>2. pending(<<h, b>>) = h \o b /\ Pieces(<<h, b>>)
    <3>1. b # <<>>
      BY <1>1, <1>2, <1>3
    <3> QED BY <1>2, <3>1, TwoPending
  <2> QED BY <2>1, <2>2 DEF h, b
<1>4. CASE ~(p.payload_len > 0)
  <2>1. send_all_calls(p) = <<h>> /\ b = <<>>
    BY <1>1, <1>2, <1>4
  <2>2. pending(<<h>>) = h /\ Pieces(<<h>>)
    BY <1>2, OnePending
  <2>3. h \o b = h
    BY <1>1, <2>1, ConcatEmptySeq
  <2> QED BY <2>1, <2>2, <2>3 DEF h, b
<1> QED BY <1>3, <1>4

-----------------------------------------------------------------------------
(* The steps of one writer and the reader                                  *)

LEMMA Shapes ==
  ASSUME TypeInv
  PROVE  /\ wire \in Seq(Unit) /\ Len(wire) \in Nat
         /\ reader.got \in Seq(Unit) /\ Len(reader.got) \in Nat
         /\ reader.header \in Seq(Unit) /\ reader.len \in Nat
         /\ Len(reader.got) < reader.len
         /\ reader.part \in {"header", "payload", "closed"}
         /\ sent \in Seq(Packet) /\ Len(sent) \in Nat /\ DOMAIN sent = 1..Len(sent)
         /\ \A n \in DOMAIN sent : sent[n] \in Packet
         /\ received \in Seq([header : Seq(Unit), payload : Seq(Unit)])
         /\ Len(received) \in Nat /\ DOMAIN received = 1..Len(received)
         /\ \A w \in Writers : writer[w].left \in Seq(Seq(Unit))
<1>1. /\ wire \in Seq(Unit) /\ reader.got \in Seq(Unit) /\ reader.header \in Seq(Unit)
      /\ reader.len \in Nat /\ Len(reader.got) < reader.len
      /\ reader.part \in {"header", "payload", "closed"}
      /\ sent \in Seq(Packet)
      /\ received \in Seq([header : Seq(Unit), payload : Seq(Unit)])
  BY TransportConstants DEF TypeInv, TypeOK, ReaderShape, HeaderSize
<1>2. \A w \in Writers : writer[w].left \in Seq(Seq(Unit))
  BY DEF TypeInv, TypeOK
<1> QED BY <1>1, <1>2, Elements

LEMMA Places ==
  ASSUME TypeInv, InOrder, NEW all, NEW off, Layout(all, off)
  PROVE  /\ all \in Seq(Unit) /\ Len(all) \in Nat
         /\ \A n \in 1..(Len(sent) + 1) : off[n] \in Nat /\ off[n] <= Len(all)
         /\ Len(received) + 1 \in 1..(Len(sent) + 1)
         /\ read_before(off) \in Nat /\ written(off) \in Nat
         /\ HeaderSize = 2
<1>1. /\ all \in Seq(Unit) /\ off \in Seq(Nat) /\ Len(off) = Len(sent) + 1
      /\ off[1] = 0 /\ Len(all) \in Nat /\ Len(sent) \in Nat /\ Len(received) \in Nat
      /\ DOMAIN sent = 1..Len(sent)
  BY Shapes DEF Layout, Lays
<1>2. ASSUME NEW n \in 1..(Len(sent) + 1)
      PROVE  off[n] \in Nat /\ off[n] <= Len(all)
  <2>1. off[n] \in Nat
    BY <1>1
  <2>2. CASE n = 1
    BY <1>1, <2>2
  <2>3. CASE n # 1
    <3>1. n - 1 \in DOMAIN sent /\ (n - 1) + 1 = n
      BY <1>1, <2>3
    <3>2. off[(n - 1) + 1] <= Len(all)
      BY <3>1 DEF Layout, Lays
    <3> QED BY <2>1, <3>1, <3>2
  <2> QED BY <2>1, <2>2, <2>3
<1>3. Len(received) + 1 \in 1..(Len(sent) + 1)
  BY <1>1 DEF InOrder
<1>4. read_before(off) \in Nat
  BY <1>2, <1>3 DEF read_before, HeaderSize
<1>5. written(off) \in Nat
  BY <1>4, Shapes DEF written
<1> QED BY <1>1, <1>2, <1>3, <1>4, <1>5 DEF HeaderSize

LEMMA Within ==
  ASSUME NEW a \in Nat, NEW b \in Nat, NEW c \in Nat, a <= b
  PROVE  a <= a /\ a <= b + c
OBVIOUS

LEMMA Sums ==
  ASSUME NEW a \in Nat, NEW b \in Nat
  PROVE  a + b \in Nat
OBVIOUS

(* A packet more: its units come after all others.                         *)
Extended(all, off, packets, all2, off2, p, packets2) ==
  /\ all2 = all \o (header(p) \o payload(p))
  /\ Lays(all2, off2, packets2)
  /\ \A n \in 1..(Len(packets) + 1) : off2[n] = off[n]
  /\ Len(all2) = Len(all) + HeaderSize + p.payload_len
  /\ Part(header(p) \o payload(p), all2, Len(all))
  /\ header(p) \o payload(p) \in Seq(Unit)
  /\ \A i \in DOMAIN packets : packets2[i] = packets[i]
  /\ Len(packets2) = Len(packets) + 1

LEMMA LayoutExtended ==
  ASSUME TypeInv, InOrder, NEW all, NEW off, Layout(all, off), NEW p \in Packet,
         sent' = Append(sent, p)
  PROVE  \E all2, off2 : Extended(all, off, sent, all2, off2, p, sent')
<1>0. PICK all2, off2 :
        /\ all2 = all \o (header(p) \o payload(p))
        /\ off2 = Append(off, Len(all) + HeaderSize + p.payload_len)
  OBVIOUS
<1> DEFINE h == header(p)
           b == payload(p)
           u == h \o b
           L == Len(sent)
<1>1. /\ h \in Seq(Unit) /\ Len(h) = 2 /\ b \in Seq(Unit) /\ Len(b) = p.payload_len
      /\ HeaderSize = 2 /\ Len(b) \in Nat
  <2>1. /\ h \in Seq(Unit) /\ Len(h) = 2 /\ b \in Seq(Unit) /\ Len(b) = p.payload_len
    BY Units DEF HeaderSize
  <2> QED BY <2>1, Elements DEF HeaderSize
<1>2. /\ all \in Seq(Unit) /\ Len(all) \in Nat /\ off \in Seq(Nat) /\ Len(off) = L + 1
      /\ sent \in Seq(Packet) /\ L \in Nat /\ DOMAIN sent = 1..L
      /\ off[1] = 0 /\ off[L + 1] = Len(all)
  BY Shapes, Places DEF Layout, Lays
<1>3. /\ \A i \in DOMAIN sent : sent'[i] = sent[i]
      /\ Len(sent') = L + 1 /\ sent'[L + 1] = p /\ DOMAIN sent' = 1..(L + 1)
  BY <1>2
<1> HIDE DEF L, h, b
<1>4. u \in Seq(Unit) /\ Len(u) = 2 + Len(b) /\ Len(u) \in Nat
  <2>1. h \in Seq(Unit) /\ b \in Seq(Unit)
    BY <1>1
  <2>2. u \in Seq(Unit) /\ Len(u) = Len(h) + Len(b)
    BY <2>1, Joined
  <2> HIDE DEF u
  <2> QED BY <1>1, <2>2
<1>5. Part(u, u, 0) /\ Part(h, u, 0) /\ Part(b, u, Len(h))
  <2>1. h \in Seq(Unit) /\ b \in Seq(Unit)
    BY <1>1
  <2>2. /\ \A i \in 1..Len(h) : u[i] = h[i]
        /\ \A i \in 1..Len(b) : u[Len(h) + i] = b[i]
    BY <2>1, Joined
  <2> HIDE DEF u
  <2>3. Part(u, u, 0)
    BY <1>4 DEF Part
  <2>4. Part(h, u, 0)
    BY <1>1, <1>4, <2>2 DEF Part
  <2>5. Part(b, u, Len(h))
    BY <1>1, <1>4, <2>2 DEF Part
  <2> QED BY <2>3, <2>4, <2>5
<1> HIDE DEF u
<1>6. /\ all2 \in Seq(Unit) /\ Len(all2) = Len(all) + Len(u)
      /\ \A i \in 1..Len(u) : all2[Len(all) + i] = u[i]
  <2>1. all2 = all \o u
    BY <1>0 DEF u, h, b
  <2>2. all \in Seq(Unit) /\ u \in Seq(Unit)
    BY <1>2, <1>4
  <2> QED BY <2>1, <2>2, Joined
<1>7. ASSUME NEW s \in Seq(Unit), NEW k \in Nat, Part(s, u, k)
      PROVE  Part(s, all2, Len(all) + k)
  <2>1. Len(s) \in Nat /\ k + Len(s) <= Len(u) /\ \A i \in 1..Len(s) : s[i] = u[k + i]
    BY <1>7, Elements DEF Part
  <2>2. (Len(all) + k) + Len(s) <= Len(all2)
    BY <1>2, <1>4, <1>6, <2>1
  <2>3. ASSUME NEW i \in 1..Len(s)
        PROVE  s[i] = all2[(Len(all) + k) + i]
    <3>1. k + i \in 1..Len(u) /\ Len(all) + (k + i) = (Len(all) + k) + i
      <4>1. Len(all) \in Nat /\ Len(u) \in Nat /\ Len(s) \in Nat /\ k + Len(s) <= Len(u)
        BY <1>2, <1>4, <2>1
      <4> QED BY <4>1
    <3> QED BY <1>6, <2>1, <3>1
  <2> QED BY <2>2, <2>3 DEF Part
<1>8. /\ Part(u, all2, Len(all)) /\ Part(h, all2, Len(all))
      /\ Part(b, all2, Len(all) + 2)
  <2>1. Part(u, all2, Len(all) + 0) /\ Part(h, all2, Len(all) + 0)
    BY <1>1, <1>4, <1>5, <1>7
  <2>2. Part(b, all2, Len(all) + 2)
    BY <1>1, <1>5, <1>7
  <2>3. Len(all) + 0 = Len(all)
    BY <1>2
  <2> QED BY <2>1, <2>2, <2>3
<1>9. Len(all2) = Len(all) + HeaderSize + p.payload_len /\ Len(all2) \in Nat
  <2>1. Len(u) = HeaderSize + p.payload_len /\ Len(u) \in Nat /\ p.payload_len \in Nat
    BY <1>1, <1>4
  <2>2. Len(all2) = Len(all) + Len(u) /\ Len(all) \in Nat
    BY <1>2, <1>6
  <2> DEFINE a == Len(all)
             c == p.payload_len
             d == HeaderSize
             v == Len(u)
             z == Len(all2)
  <2>3. a \in Nat /\ c \in Nat /\ d = 2 /\ v = d + c /\ z = a + v
    BY <1>1, <2>1, <2>2
  <2> HIDE DEF a, c, d, v, z
  <2>4. z = a + d + c /\ z \in Nat
    BY <2>3
  <2> QED BY <2>4 DEF a, c, d, z
<1>10. /\ off2 \in Seq(Nat) /\ Len(off2) = L + 2 /\ off2[L + 2] = Len(all2)
      /\ \A n \in 1..(L + 1) : off2[n] = off[n]
  <2>1. Len(all2) = Len(all) + HeaderSize + p.payload_len /\ Len(all2) \in Nat
    BY <1>9
  <2>2. off2 = Append(off, Len(all2))
    BY <1>0, <2>1
  <2> QED BY <1>2, <2>1, <2>2
<1>11. ASSUME NEW n \in DOMAIN sent'
       PROVE  /\ off2[n + 1] = off2[n] + HeaderSize + sent'[n].payload_len
              /\ off2[n + 1] <= Len(all2)
              /\ Part(header(sent'[n]), all2, off2[n])
              /\ Part(payload(sent'[n]), all2, off2[n] + HeaderSize)
  <2>1. CASE n = L + 1
    <3>1. n + 1 = L + 2 /\ n \in 1..(L + 1)
      BY <1>2, <2>1
    <3>2. /\ off2[n + 1] = Len(all2) /\ off2[n] = Len(all) /\ sent'[n] = p
      BY <1>2, <1>3, <1>10, <2>1, <3>1
    <3>3. Part(header(p), all2, off2[n]) /\ Part(payload(p), all2, off2[n] + HeaderSize)
      BY <1>1, <1>8, <3>2 DEF h, b
    <3>4. off2[n + 1] <= Len(all2)
      <4>1. off2[n + 1] \in Nat /\ off2[n + 1] = Len(all2)
        BY <1>9, <3>2
      <4>2. Len(all2) <= Len(all2)
        BY <1>9, Within
      <4> QED BY <4>1, <4>2
    <3>5. off2[n + 1] = off2[n] + HeaderSize + sent'[n].payload_len
      <4>1. off2[n + 1] = Len(all) + HeaderSize + p.payload_len
        BY <1>9, <3>2
      <4> QED BY <3>2, <4>1
    <3> QED BY <3>2, <3>3, <3>4, <3>5
  <2>2. CASE n # L + 1
    <3>1. n \in DOMAIN sent /\ n + 1 \in 1..(L + 1) /\ n \in 1..(L + 1)
      BY <1>2, <1>3, <2>2
    <3>2. /\ off2[n + 1] = off[n + 1] /\ off2[n] = off[n] /\ sent'[n] = sent[n]
          /\ off[n] \in Nat /\ sent[n] \in Packet
      BY <1>3, <1>10, <3>1, Places, Shapes DEF L
    <3>3. /\ off[n + 1] = off[n] + HeaderSize + sent[n].payload_len
          /\ off[n + 1] <= Len(all) /\ off[n + 1] \in Nat
          /\ Part(header(sent[n]), all, off[n])
          /\ Part(payload(sent[n]), all, off[n] + HeaderSize)
      BY <3>1, Places DEF Layout, Lays, L
    <3>4. header(sent[n]) \in Seq(Unit) /\ payload(sent[n]) \in Seq(Unit)
      BY <3>2, Units
    <3>5. all2 = all \o u
      BY <1>0 DEF u, h, b
    <3>6. /\ Part(header(sent[n]), all2, off[n])
          /\ Part(payload(sent[n]), all2, off[n] + HeaderSize)
      <4>1. off[n] + HeaderSize \in Nat
        <5>1. HeaderSize \in Nat
          BY <1>1
        <5> QED BY <3>2, <5>1, Sums
      <4> QED BY <1>2, <1>4, <3>2, <3>3, <3>4, <3>5, <4>1, PartKept
    <3>7. off2[n + 1] <= Len(all2)
      <4> DEFINE x == off[n + 1]
      <4>1. /\ x \in Nat /\ x <= Len(all) /\ Len(all) \in Nat /\ Len(u) \in Nat
            /\ Len(all2) = Len(all) + Len(u) /\ off2[n + 1] = x
        BY <1>2, <1>4, <1>6, <3>2, <3>3
      <4> HIDE DEF x
      <4>2. x <= Len(all) + Len(u)
        BY <4>1, Within
      <4> QED BY <4>1, <4>2
    <3> QED BY <3>2, <3>3, <3>6, <3>7
  <2> QED BY <2>1, <2>2
<1>12. /\ Len(off2) = Len(sent') + 1 /\ off2[1] = 0 /\ off2[Len(sent') + 1] = Len(all2)
  BY <1>2, <1>3, <1>10
<1>13. Lays(all2, off2, sent')
  BY <1>6, <1>10, <1>11, <1>12 DEF Layout, Lays
<1>14. Extended(all, off, sent, all2, off2, p, sent')
  <2>1. all2 = all \o u /\ u = h \o b
    BY <1>0 DEF u, h, b
  <2>2. Len(sent') = Len(sent) + 1 /\ \A n \in 1..(Len(sent) + 1) : off2[n] = off[n]
    BY <1>3, <1>10 DEF L
  <2> QED BY <1>3, <1>4, <1>8, <1>9, <1>13, <2>1, <2>2 DEF Extended, h, b
<1> QED BY <1>14

(* A step that gives send_packet nothing leaves the layout as it is.       *)
LEMMA LayoutKept ==
  ASSUME NEW all, NEW off, Layout(all, off), UNCHANGED sent
  PROVE  Layout(all, off)'
BY DEF Layout, Lays

LEMMA StreamInit ==
  ASSUME NEW w \in Writers, Init
  PROVE  Inv(w)
<1>1. /\ writer[w].left = <<>> /\ wire = <<>> /\ sent = <<>> /\ received = <<>>
      /\ reader.part = "header" /\ reader.len = HeaderSize /\ reader.got = <<>>
  BY DEF Init, AtHeader
<1>2. TypeInv
  BY TypeInit
<1>3. Len(<<>>) = 0 /\ \A x : Len(<<x>>) = 1 /\ <<x>>[1] = x
  OBVIOUS
<1>4. InOrder
  BY <1>1, <1>3 DEF InOrder
<1> DEFINE all == <<>>
           off == <<0>>
<1>5. all \in Seq(Unit) /\ Len(all) = 0 /\ off \in Seq(Nat) /\ Len(off) = 1 /\ off[1] = 0
  OBVIOUS
<1> HIDE DEF all, off
<1>6. Layout(all, off)
  BY <1>1, <1>3, <1>5 DEF Layout, Lays
<1>7. read_before(off) = 0 /\ written(off) = 0
  BY <1>1, <1>3, <1>5 DEF read_before, written
<1>8. Part(<<>>, all, 0)
  BY <1>3, <1>5 DEF Part
<1>9. Reading(all, off)
  BY <1>1, <1>3, <1>7, <1>8 DEF Reading
<1>10. Writing(w, all, off) /\ Pieces(writer[w].left)
  BY <1>1, <1>3, <1>5, <1>7, <1>8, NothingPending DEF Writing
<1> QED BY <1>2, <1>4, <1>6, <1>9, <1>10 DEF Inv, Stream

LEMMA StreamSend ==
  ASSUME NEW w \in Writers, Inv(w), SendPacket(w)
  PROVE  Inv(w)'
<1>1. TypeInv /\ InOrder /\ Pieces(writer[w].left) /\ TypeInv'
  BY TypeStep DEF Inv, Next, WriterStep
<1>2. PICK all, off : Layout(all, off) /\ Reading(all, off) /\ Writing(w, all, off)
  BY DEF Inv, Stream
<1>3. PICK p \in Packet :
        /\ writer' = [writer EXCEPT ![w] = [left |-> send_all_calls(p), begun |-> p.number]]
        /\ sent' = Append(sent, p)
  <2>1. PICK len \in 0..MaxPayload :
          LET q == [from |-> w, number |-> writer[w].begun + 1, payload_len |-> len]
          IN  /\ writer' = [writer EXCEPT ![w] = [left |-> send_all_calls(q),
                                                  begun |-> q.number]]
              /\ sent' = Append(sent, q)
    BY DEF SendPacket
  <2> DEFINE q == [from |-> w, number |-> writer[w].begun + 1, payload_len |-> len]
  <2>2. writer[w].begun \in 0..MaxPackets /\ writer[w].begun < MaxPackets
    BY <1>1 DEF SendPacket, TypeInv, TypeOK
  <2>3. writer[w].begun + 1 \in 1..MaxPackets
    BY <2>2, TransportConstants
  <2>4. q \in Packet
    BY <2>3 DEF Packet
  <2> QED BY <2>1, <2>4
<1>4. /\ writer[w].left = <<>> /\ wire' = wire /\ reader' = reader
      /\ received' = received /\ up' = up
  BY DEF SendPacket
<1> DEFINE u == header(p) \o payload(p)
<1>5. PICK all2, off2 :
      /\ all2 = all \o u
      /\ Lays(all2, off2, sent')
      /\ \A n \in 1..(Len(sent) + 1) : off2[n] = off[n]
      /\ Len(all2) = Len(all) + HeaderSize + p.payload_len
      /\ Part(u, all2, Len(all)) /\ u \in Seq(Unit)
      /\ \A i \in DOMAIN sent : sent'[i] = sent[i]
      /\ Len(sent') = Len(sent) + 1
  <2>1. PICK all2, off2 : Extended(all, off, sent, all2, off2, p, sent')
    BY <1>1, <1>2, <1>3, LayoutExtended
  <2> QED BY <2>1 DEF Extended
<1> HIDE DEF u
<1>6. /\ all \in Seq(Unit) /\ Len(all) \in Nat
      /\ Len(received) + 1 \in 1..(Len(sent) + 1)
      /\ read_before(off) \in Nat /\ written(off) \in Nat
  BY <1>1, <1>2, Places
<1>7. /\ reader.got \in Seq(Unit) /\ wire \in Seq(Unit) /\ Len(reader.got) \in Nat
      /\ Len(sent) \in Nat /\ Len(received) \in Nat /\ DOMAIN sent = 1..Len(sent)
      /\ DOMAIN received = 1..Len(received)
  BY <1>1, Shapes
<1>8. /\ \A n \in 1..(Len(sent) + 1) : off2[n] = off[n]
      /\ read_before(off2)' = read_before(off) /\ written(off2)' = written(off)
  <2>1. off2[Len(received) + 1] = off[Len(received) + 1]
    BY <1>5, <1>6
  <2>2. read_before(off2)' = read_before(off)
    BY <1>4, <2>1 DEF read_before
  <2> QED BY <1>4, <1>5, <2>2 DEF written
<1>9. Reading(all2, off2)'
  <2>1. ASSUME reader.part # "closed"
        PROVE  /\ Part(reader.got, all2, read_before(off))
               /\ Part(wire, all2, read_before(off) + Len(reader.got))
    <3>1. /\ Part(reader.got, all, read_before(off))
          /\ Part(wire, all, read_before(off) + Len(reader.got))
      BY <1>2, <2>1 DEF Reading
    <3>2. read_before(off) + Len(reader.got) \in Nat
      BY <1>6, <1>7
    <3>3. /\ Part(reader.got, all \o u, read_before(off))
          /\ Part(wire, all \o u, read_before(off) + Len(reader.got))
      BY <1>5, <1>6, <1>7, <3>1, <3>2, PartKept
    <3> QED BY <1>5, <3>3
  <2> QED BY <1>4, <1>8, <2>1 DEF Reading
<1>10. pending(send_all_calls(p)) = u /\ Pieces(send_all_calls(p))
  BY PendingPacket DEF u
<1>11. writer'[w].left = send_all_calls(p)
  <2>1. w \in DOMAIN writer
    BY <1>1 DEF TypeInv, TypeOK
  <2> QED BY <1>3, <2>1
<1>12. Writing(w, all2, off2)'
  <2>1. ASSUME up
        PROVE  written(off) = Len(all)
    <3>1. pending(writer[w].left) = <<>> /\ Len(<<>>) = 0
      BY <1>4, NothingPending
    <3>2. written(off) + 0 = Len(all)
      BY <1>2, <2>1, <3>1 DEF Writing
    <3> QED BY <1>6, <3>2
  <2>2. Len(all2) = Len(all) + Len(u) /\ Len(u) \in Nat
    <3>1. all \in Seq(Unit) /\ u \in Seq(Unit)
      BY <1>5, <1>6
    <3> QED BY <1>5, <3>1, Joined, Elements
  <2> QED BY <1>4, <1>5, <1>8, <1>10, <1>11, <2>1, <2>2 DEF Writing
<1>13. InOrder'
  <2>1. /\ Len(received) <= Len(sent)
        /\ \A i \in DOMAIN received :
             received[i] = [header |-> header(sent[i]), payload |-> payload(sent[i])]
        /\ reader.part = "header" => reader.len = HeaderSize
        /\ reader.part = "payload" =>
             /\ Len(received) < Len(sent)
             /\ reader.header = header(sent[Len(received) + 1])
             /\ reader.len = sent[Len(received) + 1].payload_len
        /\ reader.part = "closed" => ~up
    BY <1>1 DEF InOrder
  <2>2. Len(received) <= Len(sent')
    BY <1>5, <1>7, <2>1
  <2>3. \A i \in DOMAIN received : sent'[i] = sent[i]
    BY <1>5, <1>7, <2>1
  <2>4. ASSUME Len(received) < Len(sent)
        PROVE  /\ Len(received) < Len(sent')
               /\ sent'[Len(received) + 1] = sent[Len(received) + 1]
    <3>1. Len(received) + 1 \in DOMAIN sent /\ Len(received) < Len(sent) + 1
      BY <1>7, <2>4
    <3> QED BY <1>5, <3>1
  <2> QED BY <1>4, <2>1, <2>2, <2>3, <2>4 DEF InOrder
<1>14. Stream(w)'
  <2>1. Layout(all2, off2)'
    BY <1>5 DEF Layout
  <2> QED BY <2>1, <1>9, <1>12 DEF Stream
<1> QED BY <1>1, <1>10, <1>11, <1>13, <1>14 DEF Inv

LEMMA StreamWrite ==
  ASSUME NEW w \in Writers, Inv(w), Write(w)
  PROVE  Inv(w)'
<1>1. TypeInv /\ InOrder /\ Pieces(writer[w].left) /\ TypeInv'
  BY TypeStep DEF Inv, Next, WriterStep
<1>2. PICK all, off : Layout(all, off) /\ Reading(all, off) /\ Writing(w, all, off)
  BY DEF Inv, Stream
<1> DEFINE left == writer[w].left
<1>3. PICK n \in 1..Len(Head(left)) :
        /\ wire' = wire \o SubSeq(Head(left), 1, n)
        /\ writer' = [writer EXCEPT ![w].left = rest_of(left, n)]
  BY DEF Write
<1>4. /\ up /\ left # <<>> /\ reader' = reader /\ sent' = sent
      /\ received' = received /\ up' = up /\ left \in Seq(Seq(Unit))
  BY <1>1, Shapes DEF Write
<1> DEFINE m == pending(left)
<1>5. /\ m \in Seq(Unit) /\ n \in 0..Len(m)
      /\ SubSeq(Head(left), 1, n) = SubSeq(m, 1, n)
      /\ pending(rest_of(left, n)) = SubSeq(m, n + 1, Len(m))
      /\ Pieces(rest_of(left, n))
  BY <1>1, <1>3, <1>4, PendingRest
<1>6. writer'[w].left = rest_of(left, n)
  BY <1>1, <1>3 DEF TypeInv, TypeOK
<1> DEFINE a == SubSeq(m, 1, n)
           b == SubSeq(m, n + 1, Len(m))
           place == read_before(off) + Len(reader.got)
<1>7. /\ wire \in Seq(Unit) /\ Len(wire) \in Nat /\ all \in Seq(Unit) /\ Len(all) \in Nat
      /\ place \in Nat /\ written(off) = place + Len(wire) /\ written(off) \in Nat
  <2>1. /\ wire \in Seq(Unit) /\ Len(wire) \in Nat /\ Len(reader.got) \in Nat
    BY <1>1, Shapes
  <2>2. all \in Seq(Unit) /\ Len(all) \in Nat /\ read_before(off) \in Nat
    BY <1>1, <1>2, Places
  <2>3. written(off) = place + Len(wire)
    BY DEF written
  <2>4. place \in Nat
    BY <2>1, <2>2, Sums
  <2> HIDE DEF place
  <2>5. place + Len(wire) \in Nat
    BY <2>1, <2>4, Sums
  <2> QED BY <2>1, <2>2, <2>3, <2>4, <2>5
<1>8. /\ Part(wire, all, place)
      /\ written(off) + Len(m) = Len(all) /\ Part(m, all, written(off))
  BY <1>1, <1>2, <1>4 DEF Reading, Writing, InOrder
<1> HIDE DEF m, left
<1>9. /\ a \in Seq(Unit) /\ Len(a) = n /\ Len(b) = Len(m) - n /\ Len(m) \in Nat
  BY <1>5, Cut, Elements
<1>10. Part(a, all, written(off)) /\ Part(b, all, written(off) + n)
  BY <1>5, <1>7, <1>8, PartCut
<1> HIDE DEF a, b, place
<1>11. wire' = wire \o a /\ pending(writer'[w].left) = b
  BY <1>3, <1>5, <1>6 DEF a, b
<1>12. Part(wire', all, place) /\ Len(wire') = Len(wire) + n
  BY <1>7, <1>8, <1>9, <1>10, <1>11, PartJoined, Joined
<1>13. read_before(off)' = read_before(off)
  BY <1>4 DEF read_before
<1>14. Reading(all, off)'
  <2>1. ASSUME reader.part # "closed"
        PROVE  Part(reader.got, all, read_before(off))
    BY <1>2, <2>1 DEF Reading
  <2> QED BY <1>4, <1>12, <1>13, <2>1 DEF Reading, place
<1>15. written(off)' = written(off) + n
  <2>1. written(off)' = place + Len(wire')
    BY <1>4, <1>13 DEF written, place
  <2>2. n \in Nat
    BY <1>5
  <2> QED BY <1>7, <1>12, <2>1, <2>2
<1>16. Writing(w, all, off)'
  <2>1. (written(off) + n) + Len(b) = Len(all)
    <3> DEFINE k == written(off)
               l == Len(m)
               r == Len(b)
    <3>1. /\ n \in Nat /\ k \in Nat /\ l \in Nat /\ r = l - n
          /\ k + l = Len(all)
      BY <1>5, <1>7, <1>8, <1>9
    <3> HIDE DEF k, l, r
    <3>2. (k + n) + r = k + l
      BY <3>1
    <3> QED BY <3>1, <3>2 DEF k, l, r
  <2> QED BY <1>10, <1>11, <1>15, <2>1 DEF Writing
<1>17. InOrder'
  BY <1>1, <1>4 DEF InOrder
<1>18. Layout(all, off)'
  BY <1>2, <1>4, LayoutKept
<1> QED BY <1>1, <1>5, <1>6, <1>14, <1>16, <1>17, <1>18 DEF Inv, Stream

LEMMA StreamWriteFails ==
  ASSUME NEW w \in Writers, Inv(w), WriteFails(w)
  PROVE  Inv(w)'
<1>1. TypeInv /\ InOrder /\ TypeInv'
  BY TypeStep DEF Inv, Next, WriterStep
<1>2. PICK all, off : Layout(all, off) /\ Reading(all, off)
  BY DEF Inv, Stream
<1>3. /\ ~up /\ writer' = [writer EXCEPT ![w].left = <<>>]
      /\ UNCHANGED <<wire, reader, sent, received, up>>
  BY DEF WriteFails
<1>4. writer'[w].left = <<>>
  BY <1>1, <1>3 DEF TypeInv, TypeOK
<1>5. Pieces(writer'[w].left)
  BY <1>4, NothingPending
<1>6. InOrder'
  BY <1>1, <1>3 DEF InOrder
<1>7. Layout(all, off)' /\ Reading(all, off)' /\ Writing(w, all, off)'
  BY <1>2, <1>3, LayoutKept DEF Reading, Writing, read_before
<1> QED BY <1>1, <1>5, <1>6, <1>7 DEF Inv, Stream

(* recv_packet returns the packet that is next.                            *)
next_received ==
  /\ Len(received) < Len(sent)
  /\ received' = Append(received, [header |-> header(sent[Len(received) + 1]),
                                   payload |-> payload(sent[Len(received) + 1])])

LEMMA NextReceived ==
  ASSUME TypeInv, InOrder, NEW all, NEW off, Layout(all, off), UNCHANGED sent,
         next_received, reader' = AtHeader
  PROVE  /\ InOrder'
         /\ read_before(off)' = off[Len(received) + 1] + HeaderSize
                                  + sent[Len(received) + 1].payload_len
<1> DEFINE R == Len(received)
           r == [header |-> header(sent[R + 1]), payload |-> payload(sent[R + 1])]
<1>1. /\ R \in Nat /\ DOMAIN received = 1..R /\ Len(sent) \in Nat
      /\ DOMAIN sent = 1..Len(sent) /\ R < Len(sent)
      /\ received \in Seq([header : Seq(Unit), payload : Seq(Unit)])
  BY Shapes DEF next_received
<1>2. received' = Append(received, r)
  BY DEF next_received
<1> HIDE DEF r
<1>3. /\ Len(received') = R + 1 /\ DOMAIN received' = 1..(R + 1)
      /\ \A i \in 1..R : received'[i] = received[i]
      /\ received'[R + 1] = r
  BY <1>1, <1>2
<1>4. reader'.part = "header" /\ reader'.len = HeaderSize
  BY DEF AtHeader
<1> HIDE DEF R
<1>5. \A i \in DOMAIN received' :
        received'[i] = [header |-> header(sent'[i]), payload |-> payload(sent'[i])]
  <2> SUFFICES ASSUME NEW i \in DOMAIN received'
               PROVE  received'[i] = [header |-> header(sent[i]), payload |-> payload(sent[i])]
    OBVIOUS
  <2>1. CASE i = R + 1
    BY <1>3, <2>1 DEF r
  <2>2. CASE i # R + 1
    <3>1. i \in 1..R
      BY <1>1, <1>3, <2>2
    <3> QED BY <1>1, <1>3, <3>1 DEF InOrder
  <2> QED BY <2>1, <2>2
<1>6. InOrder'
  <2>1. Len(received') <= Len(sent')
    BY <1>1, <1>3
  <2> QED BY <1>4, <1>5, <2>1 DEF InOrder
<1>7. read_before(off)' = off[R + 1] + HeaderSize + sent[R + 1].payload_len
  <2>1. R + 1 \in DOMAIN sent
    BY <1>1
  <2>2. off[(R + 1) + 1] = off[R + 1] + HeaderSize + sent[R + 1].payload_len
    BY <2>1 DEF Layout, Lays
  <2>3. read_before(off)' = off[(R + 1) + 1] + 0
    BY <1>3, <1>4 DEF read_before
  <2>4. off[(R + 1) + 1] \in Nat
    <3>1. (R + 1) + 1 \in 1..(Len(sent) + 1)
      BY <1>1
    <3> QED BY <3>1, Places
  <2>5. off[(R + 1) + 1] + 0 = off[(R + 1) + 1]
    BY <2>4
  <2> QED BY <2>2, <2>3, <2>5
<1> QED BY <1>6, <1>7 DEF R

(* An SSL_read moves units from the wire to recv_packet; where they are in *)
(* the stream does not change.                                             *)
LEMMA Moved ==
  ASSUME NEW w \in Writers, TypeInv, InOrder, TypeInv',
         NEW all, NEW off, Layout(all, off), Reading(all, off), Writing(w, all, off),
         UNCHANGED <<writer, sent, up>>,
         NEW g \in Seq(Unit), NEW c \in Seq(Unit), wire' = c,
         Len(g) + Len(c) = Len(reader.got) + Len(wire),
         Part(c, all, read_before(off) + Len(g)),
         read_before(off)' + Len(reader'.got) = read_before(off) + Len(g),
         Part(reader'.got, all, read_before(off)')
  PROVE  Stream(w)'
<1>1. /\ Len(wire) \in Nat /\ Len(reader.got) \in Nat /\ read_before(off) \in Nat
      /\ Len(g) \in Nat /\ Len(c) \in Nat
  BY Shapes, Places, Elements
<1>2. Reading(all, off)'
  BY DEF Reading
<1>3. written(off)' = written(off)
  <2>1. written(off)' = (read_before(off) + Len(g)) + Len(c)
    BY DEF written
  <2>2. written(off) = (read_before(off) + Len(reader.got)) + Len(wire)
    BY DEF written
  <2> DEFINE rb == read_before(off)
             x == Len(g)
             y == Len(c)
             k == Len(reader.got)
             l == Len(wire)
  <2>3. rb \in Nat /\ x \in Nat /\ y \in Nat /\ k \in Nat /\ l \in Nat /\ x + y = k + l
    BY <1>1
  <2> HIDE DEF rb, x, y, k, l
  <2>4. (rb + x) + y = (rb + k) + l
    BY <2>3
  <2> QED BY <2>1, <2>2, <2>4 DEF rb, x, y, k, l
<1>4. Writing(w, all, off)'
  BY <1>3 DEF Writing
<1>5. Layout(all, off)'
  BY LayoutKept
<1> QED BY <1>2, <1>4, <1>5 DEF Stream

LEMMA PartEmpty ==
  ASSUME NEW all \in Seq(Unit), NEW first \in Nat, NEW s \in Seq(Unit),
         Part(s, all, first)
  PROVE  Part(<<>>, all, first) /\ first <= Len(all)
<1>1. Len(<<>>) = 0 /\ Len(s) \in Nat /\ Len(all) \in Nat
  OBVIOUS
<1>2. first <= Len(all)
  BY <1>1 DEF Part
<1> QED BY <1>1, <1>2 DEF Part

LEMMA StreamRead ==
  ASSUME NEW w \in Writers, Inv(w), Read
  PROVE  Inv(w)' /\ (UNCHANGED received \/ next_received)
<1>1. TypeInv /\ InOrder /\ Pieces(writer[w].left) /\ TypeInv'
  BY TypeStep DEF Inv, Next, ReaderStep
<1>2. PICK all, off : Layout(all, off) /\ Reading(all, off) /\ Writing(w, all, off)
  BY DEF Inv, Stream
<1>3. PICK n \in 1..(reader.len - Len(reader.got)) :
        LET got == reader.got \o SubSeq(wire, 1, n)
        IN  /\ reader.part # "closed" /\ n <= Len(wire)
            /\ wire' = SubSeq(wire, n + 1, Len(wire))
            /\ UNCHANGED <<writer, sent, up>>
            /\ \/ /\ ~complete(got, reader.len)
                  /\ reader' = [reader EXCEPT !.got = got]
                  /\ UNCHANGED received
               \/ /\ complete(got, reader.len) /\ reader.part = "header"
                  /\ \E len \in lengths(got) :
                       IF len = 0 THEN packet_received(got, <<>>)
                       ELSE /\ reader' = [part |-> "payload", len |-> len,
                                          got |-> <<>>, header |-> got]
                            /\ UNCHANGED received
               \/ /\ complete(got, reader.len) /\ reader.part = "payload"
                  /\ packet_received(reader.header, got)
  BY DEF Read
<1> DEFINE a == SubSeq(wire, 1, n)
           c == SubSeq(wire, n + 1, Len(wire))
           g == reader.got \o a
           rb == read_before(off)
           R == Len(received)
<1>4. /\ wire \in Seq(Unit) /\ Len(wire) \in Nat /\ reader.got \in Seq(Unit)
      /\ Len(reader.got) \in Nat /\ reader.len \in Nat /\ Len(reader.got) < reader.len
      /\ R \in Nat /\ Len(sent) \in Nat /\ DOMAIN sent = 1..Len(sent)
      /\ \A i \in DOMAIN sent : sent[i] \in Packet
      /\ all \in Seq(Unit) /\ rb \in Nat /\ HeaderSize = 2 /\ Len(all) \in Nat
  BY <1>1, <1>2, Shapes, Places
<1>5. n \in 0..Len(wire) /\ n \in Nat
  BY <1>3, <1>4
<1>6. a \in Seq(Unit) /\ Len(a) = n /\ c \in Seq(Unit) /\ Len(c) = Len(wire) - n
  BY <1>4, <1>5, Cut
<1>7. /\ Part(reader.got, all, rb) /\ Part(a, all, rb + Len(reader.got))
      /\ Part(c, all, (rb + Len(reader.got)) + n)
  <2>1. Part(reader.got, all, rb) /\ Part(wire, all, rb + Len(reader.got))
    BY <1>2, <1>3 DEF Reading
  <2>2. rb + Len(reader.got) \in Nat
    BY <1>4, Sums
  <2> HIDE DEF rb
  <2> QED BY <1>4, <1>5, <2>1, <2>2, PartCut
<1> HIDE DEF a, c, rb
<1>8. g \in Seq(Unit) /\ Len(g) = Len(reader.got) + n /\ Part(g, all, rb)
  <2>1. reader.got \in Seq(Unit) /\ a \in Seq(Unit) /\ Len(a) = n
    BY <1>4, <1>6
  <2>2. g \in Seq(Unit) /\ Len(g) = Len(reader.got) + Len(a)
    BY <2>1, Joined
  <2>3. Part(g, all, rb)
    BY <1>4, <1>7, <2>1, PartJoined
  <2> QED BY <2>1, <2>2, <2>3
<1> HIDE DEF g
<1>9. /\ Len(g) + Len(c) = Len(reader.got) + Len(wire)
      /\ (rb + Len(reader.got)) + n = rb + Len(g) /\ Len(g) \in Nat
  BY <1>4, <1>5, <1>6, <1>8
<1>10. Part(c, all, rb + Len(g))
  BY <1>7, <1>9
<1>11. wire' = c /\ UNCHANGED <<writer, sent, up>> /\ reader.part # "closed"
  BY <1>3 DEF c
<1>12. ASSUME InOrder', read_before(off)' + Len(reader'.got) = rb + Len(g),
              Part(reader'.got, all, read_before(off)')
       PROVE  Inv(w)'
  <2>1. Stream(w)'
    BY <1>1, <1>2, <1>6, <1>8, <1>9, <1>10, <1>11, <1>12, Moved DEF rb
  <2> QED BY <1>1, <1>11, <1>12, <2>1 DEF Inv
<1>13. ASSUME rb + Len(g) \in Nat
       PROVE  Part(<<>>, all, rb + Len(g)) /\ rb + Len(g) <= Len(all)
  BY <1>4, <1>6, <1>10, <1>13, PartEmpty
<1>14. rb + Len(g) \in Nat
  BY <1>4, <1>9, Sums
(* More of the header or of the payload is to come.                        *)
<1>15. CASE /\ ~complete(g, reader.len)
            /\ reader' = [reader EXCEPT !.got = g]
            /\ UNCHANGED received
  <2>1. /\ reader'.got = g /\ reader'.len = reader.len /\ reader'.part = reader.part
        /\ reader'.header = reader.header
    BY <1>1, <1>15 DEF TypeInv, ReaderShape
  <2>2. InOrder'
    BY <1>1, <1>11, <1>15, <2>1 DEF InOrder
  <2>3. read_before(off)' = rb
    BY <1>15, <2>1 DEF read_before, rb
  <2> QED BY <1>8, <1>12, <1>15, <2>1, <2>2, <2>3
(* The header is there.                                                    *)
<1>16. ASSUME complete(g, reader.len), reader.part = "header",
              NEW len \in lengths(g),
              IF len = 0 THEN packet_received(g, <<>>)
              ELSE /\ reader' = [part |-> "payload", len |-> len,
                                 got |-> <<>>, header |-> g]
                   /\ UNCHANGED received
       PROVE  Inv(w)' /\ (UNCHANGED received \/ next_received)
  <2>1. Len(g) = 2 /\ rb = off[R + 1]
    <3>1. Len(g) = HeaderSize
      BY <1>1, <1>16 DEF complete, InOrder
    <3>2. rb = off[R + 1] + 0 /\ R + 1 \in 1..(Len(sent) + 1)
      BY <1>1, <1>2, <1>16, Places DEF rb, read_before
    <3>3. off[R + 1] \in Nat
      BY <1>1, <1>2, <3>2, Places
    <3> QED BY <1>4, <3>1, <3>2, <3>3
  <2>2. R < Len(sent)
    <3>1. R <= Len(sent)
      BY <1>1 DEF InOrder
    <3>2. R # Len(sent)
      <4>1. SUFFICES ASSUME R = Len(sent) PROVE FALSE
        OBVIOUS
      <4>2. off[R + 1] = Len(all)
        BY <1>2, <4>1 DEF Layout, Lays
      <4>3. rb + 2 <= Len(all) /\ rb = Len(all)
        BY <1>13, <1>14, <2>1, <4>2
      <4> QED BY <1>4, <4>3
    <3> QED BY <1>4, <3>1, <3>2
  <2> DEFINE p == sent[R + 1]
  <2>3. p \in Packet /\ R + 1 \in DOMAIN sent
    BY <1>4, <2>2
  <2>4. /\ header(p) \in Seq(Unit) /\ Len(header(p)) = 2
        /\ payload(p) \in Seq(Unit) /\ Len(payload(p)) = p.payload_len
        /\ p.payload_len \in Nat
    <3>1. /\ header(p) \in Seq(Unit) /\ Len(header(p)) = HeaderSize
          /\ payload(p) \in Seq(Unit) /\ Len(payload(p)) = p.payload_len
          /\ p.payload_len \in 0..MaxPayload
      BY <2>3, Units
    <3> QED BY <1>4, <3>1
  <2>5. g = header(p)
    <3>1. Part(header(p), all, off[R + 1])
      BY <1>2, <2>3 DEF Layout, Lays
    <3>2. Part(g, all, off[R + 1])
      BY <1>8, <2>1
    <3> QED BY <1>8, <2>1, <2>4, <3>1, <3>2, SamePart
  <2>6. len = p.payload_len
    BY <1>16, <2>3, <2>5, HeaderRead
  <2>7. CASE len = 0
    <3>1. packet_received(g, <<>>)
      BY <1>16, <2>7
    <3>2. payload(p) = <<>>
      BY <2>4, <2>6, <2>7, Elements
    <3>3. /\ next_received /\ reader' = AtHeader
      BY <2>2, <2>5, <3>1, <3>2 DEF packet_received, next_received
    <3>4. InOrder' /\ read_before(off)' = (rb + HeaderSize) + 0
      BY <1>1, <1>2, <1>11, <2>1, <2>6, <2>7, <3>3, NextReceived
    <3>5. reader'.got = <<>> /\ Len(<<>>) = 0
      BY <3>3 DEF AtHeader
    <3>6. read_before(off)' = rb + Len(g) /\ (rb + Len(g)) + 0 = rb + Len(g)
      <4>1. (rb + HeaderSize) + 0 = rb + Len(g) /\ (rb + Len(g)) + 0 = rb + Len(g)
        BY <1>4, <2>1
      <4> QED BY <3>4, <4>1
    <3> QED BY <1>12, <1>13, <1>14, <3>3, <3>4, <3>5, <3>6
  <2>8. CASE len # 0
    <3>1. /\ reader' = [part |-> "payload", len |-> len, got |-> <<>>, header |-> g]
          /\ UNCHANGED received
      BY <1>16, <2>8
    <3>2. /\ reader'.part = "payload" /\ reader'.len = len /\ reader'.got = <<>>
          /\ reader'.header = g /\ Len(<<>>) = 0
      BY <3>1
    <3>3. InOrder'
      BY <1>1, <1>11, <2>2, <2>5, <2>6, <3>1, <3>2 DEF InOrder
    <3>4. read_before(off)' = rb + HeaderSize
      BY <2>1, <3>1, <3>2 DEF read_before
    <3>5. read_before(off)' = rb + Len(g) /\ (rb + Len(g)) + 0 = rb + Len(g)
      <4>1. rb + HeaderSize = rb + Len(g) /\ (rb + Len(g)) + 0 = rb + Len(g)
        BY <1>4, <2>1
      <4> QED BY <3>4, <4>1
    <3> QED BY <1>12, <1>13, <1>14, <3>1, <3>2, <3>3, <3>5
  <2> QED BY <2>7, <2>8
(* The payload is there.                                                   *)
<1>17. CASE complete(g, reader.len) /\ reader.part = "payload"
            /\ packet_received(reader.header, g)
  <2> DEFINE p == sent[R + 1]
  <2>1. /\ R < Len(sent) /\ reader.header = header(p) /\ Len(g) = p.payload_len
        /\ rb = off[R + 1] + HeaderSize
    BY <1>1, <1>17 DEF InOrder, complete, rb, read_before
  <2>2. p \in Packet /\ R + 1 \in DOMAIN sent
    <3>1. R < Len(sent)
      BY <2>1
    <3>2. R + 1 \in DOMAIN sent
      BY <1>4, <3>1
    <3> QED BY <1>4, <3>2
  <2>3. payload(p) \in Seq(Unit) /\ Len(payload(p)) = p.payload_len
    BY <2>2, Units
  <2>4. g = payload(p)
    <3>1. Part(payload(p), all, rb)
      BY <1>2, <2>1, <2>2 DEF Layout, Lays
    <3> QED BY <1>8, <2>1, <2>3, <3>1, SamePart
  <2>5. next_received /\ reader' = AtHeader
    BY <1>17, <2>1, <2>4 DEF packet_received, next_received
  <2>6. InOrder' /\ read_before(off)' = rb + Len(g)
    BY <1>1, <1>2, <1>11, <2>1, <2>5, NextReceived
  <2>7. reader'.got = <<>> /\ Len(<<>>) = 0
    BY <2>5 DEF AtHeader
  <2>8. (rb + Len(g)) + 0 = rb + Len(g)
    BY <1>14
  <2> QED BY <1>12, <1>13, <1>14, <2>5, <2>6, <2>7, <2>8
<1> QED BY <1>3, <1>15, <1>16, <1>17 DEF g, a

LEMMA StreamCloses ==
  ASSUME NEW w \in Writers, Inv(w), ReadTimesOut \/ ReadFails
  PROVE  Inv(w)'
<1>1. /\ TypeInv /\ InOrder /\ Pieces(writer[w].left) /\ TypeInv'
  BY TypeStep DEF Inv, Next, ReaderStep
<1>2. PICK all, off : Layout(all, off)
  BY DEF Inv, Stream
<1>3. /\ reader' = [reader EXCEPT !.part = "closed"] /\ up' = FALSE
      /\ UNCHANGED <<writer, sent, received>>
  BY DEF ReadTimesOut, ReadFails, given_up
<1>4. reader'.part = "closed"
  BY <1>1, <1>3 DEF TypeInv, ReaderShape
<1>5. InOrder'
  BY <1>1, <1>3, <1>4 DEF InOrder
<1>6. Layout(all, off)' /\ Reading(all, off)' /\ Writing(w, all, off)'
  BY <1>2, <1>3, <1>4, LayoutKept DEF Reading, Writing
<1> QED BY <1>1, <1>3, <1>5, <1>6 DEF Inv, Stream

LEMMA StreamBreaks ==
  ASSUME NEW w \in Writers, Inv(w), LinkBreaks
  PROVE  Inv(w)'
<1>1. /\ TypeInv /\ InOrder /\ Pieces(writer[w].left) /\ TypeInv'
  BY TypeStep DEF Inv, Next
<1>2. PICK all, off : Layout(all, off) /\ Reading(all, off)
  BY DEF Inv, Stream
<1>3. PICK n \in 0..Len(wire) : wire' = SubSeq(wire, 1, n)
  BY DEF LinkBreaks
<1>4. up' = FALSE /\ UNCHANGED <<writer, reader, sent, received>>
  BY DEF LinkBreaks
<1>5. InOrder'
  BY <1>1, <1>4 DEF InOrder
<1>6. read_before(off)' = read_before(off)
  BY <1>4 DEF read_before
<1>7. Reading(all, off)'
  <2>1. ASSUME reader.part # "closed"
        PROVE  /\ Part(reader.got, all, read_before(off))
               /\ Part(wire', all, read_before(off) + Len(reader.got))
    <3>1. /\ Part(reader.got, all, read_before(off))
          /\ Part(wire, all, read_before(off) + Len(reader.got))
      BY <1>2, <2>1 DEF Reading
    <3>2. wire \in Seq(Unit) /\ all \in Seq(Unit) /\ read_before(off) + Len(reader.got) \in Nat
      BY <1>1, <1>2, Shapes, Places, Sums
    <3> QED BY <1>3, <3>1, <3>2, PartCut
  <2> QED BY <1>4, <1>6, <2>1 DEF Reading
<1>8. Layout(all, off)' /\ Writing(w, all, off)'
  BY <1>2, <1>4, LayoutKept DEF Writing
<1> QED BY <1>1, <1>4, <1>5, <1>7, <1>8 DEF Inv, Stream

LEMMA StreamStep ==
  ASSUME NEW w, Writers = {w}, Inv(w), [Next]_vars
  PROVE  Inv(w)'
<1>1. w \in Writers
  OBVIOUS
<1>2. ASSUME NEW v \in Writers, WriterStep(v)
      PROVE  Inv(w)'
  <2>1. v = w
    OBVIOUS
  <2> QED BY <1>1, <1>2, <2>1, StreamSend, StreamWrite, StreamWriteFails DEF WriterStep
<1>3. CASE ReaderStep
  BY <1>1, <1>3, StreamRead, StreamCloses DEF ReaderStep
<1>4. CASE LinkBreaks
  BY <1>1, <1>4, StreamBreaks
<1>5. CASE UNCHANGED vars
  <2>1. UNCHANGED <<writer, wire, reader, sent, received, up>>
    BY <1>5 DEF vars
  <2>2. TypeInv' /\ InOrder' /\ Pieces(writer[w].left)'
    BY <2>1, TypeStep DEF Inv, InOrder, Pieces, vars
  <2>3. Stream(w)'
    <3>1. PICK all, off : Layout(all, off) /\ Reading(all, off) /\ Writing(w, all, off)
      BY DEF Inv, Stream
    <3>2. read_before(off)' = read_before(off) /\ written(off)' = written(off)
      BY <2>1 DEF read_before, written
    <3> QED BY <2>1, <3>1, <3>2, LayoutKept DEF Stream, Reading, Writing
  <2> QED BY <2>2, <2>3 DEF Inv
<1> QED BY <1>2, <1>3, <1>4, <1>5 DEF Next

LEMMA StreamInvariant ==
  ASSUME NEW w, Writers = {w}
  PROVE  Spec => []Inv(w)
<1>1. Init => Inv(w)
  BY StreamInit
<1>2. Inv(w) /\ [Next]_vars => Inv(w)'
  BY StreamStep
<1> QED BY <1>1, <1>2, PTL DEF Spec

(* protocol.h, "Sends a full Protocol Message (Header + Payload)           *)
(* atomically via SSL": where one thread writes, as the server does, every *)
(* packet recv_packet returns is one that was sent, with its own payload,  *)
(* however the writes and reads are cut.                                   *)
THEOREM PacketsAreAtomic ==
  ASSUME NEW w, Writers = {w}
  PROVE  Spec => []AtomicPackets
<1>1. Inv(w) => AtomicPackets
  <2> SUFFICES ASSUME Inv(w), NEW i \in DOMAIN received
               PROVE  whole(received[i])
    BY DEF AtomicPackets
  <2>1. TypeInv /\ InOrder
    BY DEF Inv
  <2>2. i \in DOMAIN sent
    BY <2>1, Shapes DEF InOrder
  <2> QED BY <2>1, <2>2 DEF InOrder, whole
<1> QED BY <1>1, StreamInvariant, PTL

-----------------------------------------------------------------------------
(* One writer: the channel of packets                                      *)

packets_received == [i \in DOMAIN received |-> as_packet(received[i])]

LEMMA PacketsReceived ==
  TypeInv /\ InOrder =>
    /\ packets_received \in Seq(Packet) /\ Len(packets_received) = Len(received)
    /\ Len(received) \in Nat /\ Len(received) <= Len(sent)
    /\ \A i \in 1..Len(received) : packets_received[i] = sent[i]
    /\ sent \in Seq(Packet)
<1> SUFFICES ASSUME TypeInv, InOrder
             PROVE  /\ packets_received \in Seq(Packet)
                    /\ Len(packets_received) = Len(received)
                    /\ Len(received) \in Nat /\ Len(received) <= Len(sent)
                    /\ \A i \in 1..Len(received) : packets_received[i] = sent[i]
                    /\ sent \in Seq(Packet)
  OBVIOUS
<1>1. /\ Len(received) \in Nat /\ DOMAIN received = 1..Len(received)
      /\ Len(received) <= Len(sent) /\ sent \in Seq(Packet) /\ DOMAIN sent = 1..Len(sent)
      /\ \A i \in DOMAIN sent : sent[i] \in Packet
  BY Shapes DEF InOrder
<1>2. ASSUME NEW i \in 1..Len(received)
      PROVE  as_packet(received[i]) = sent[i] /\ sent[i] \in Packet
  <2>1. i \in DOMAIN sent /\ i \in DOMAIN received /\ sent[i] \in Packet
    BY <1>1
  <2>2. received[i] = [header |-> header(sent[i]), payload |-> payload(sent[i])]
    BY <2>1 DEF InOrder
  <2>3. whole(received[i])
    BY <2>1, <2>2 DEF whole
  <2>4. header(sent[i])[1].packet = sent[i]
    <3>1. 1 \in 1..HeaderSize
      BY DEF HeaderSize
    <3>2. header(sent[i])[1] = [packet |-> sent[i], part |-> "header", pos |-> 1]
      BY <2>1, <3>1, Units
    <3> QED BY <3>2
  <2>5. received[i].header = header(sent[i])
    BY <2>2
  <2> QED BY <2>1, <2>3, <2>4, <2>5 DEF as_packet
<1> DEFINE n == Len(received)
           f == [i \in 1..n |-> sent[i]]
<1>3. packets_received = f
  BY <1>1, <1>2 DEF packets_received
<1>4. f \in Seq(Packet) /\ Len(f) = n /\ \A i \in 1..n : f[i] = sent[i]
  <2> HIDE DEF n
  <2>1. n \in Nat /\ \A i \in 1..n : sent[i] \in Packet
    BY <1>1, <1>2 DEF n
  <2> QED BY <2>1
<1> HIDE DEF f
<1> QED BY <1>1, <1>3, <1>4

LEMMA PacketsReceivedAfter ==
  (TypeInv /\ InOrder)' =>
    /\ packets_received' \in Seq(Packet) /\ Len(packets_received') = Len(received')
    /\ Len(received') \in Nat /\ Len(received') <= Len(sent')
    /\ \A i \in 1..Len(received') : packets_received'[i] = sent'[i]
    /\ sent' \in Seq(Packet)
<1>1. (TypeInv /\ InOrder =>
    /\ packets_received \in Seq(Packet) /\ Len(packets_received) = Len(received)
    /\ Len(received) \in Nat /\ Len(received) <= Len(sent)
    /\ \A i \in 1..Len(received) : packets_received[i] = sent[i]
    /\ sent \in Seq(Packet))'
  BY PacketsReceived, PTL
<1> QED BY <1>1

(* A step that receives nothing leaves the packets received as they are.   *)
LEMMA PacketsKept ==
  ASSUME TypeInv, InOrder, TypeInv', InOrder', UNCHANGED received,
         \A i \in 1..Len(received) : sent'[i] = sent[i]
  PROVE  packets_received' = packets_received
<1> DEFINE f == packets_received
           g == packets_received'
<1>1. /\ f \in Seq(Packet) /\ Len(f) = Len(received)
      /\ \A i \in 1..Len(received) : f[i] = sent[i]
  BY PacketsReceived
<1>2. /\ g \in Seq(Packet) /\ Len(g) = Len(received)
      /\ \A i \in 1..Len(received) : g[i] = sent'[i]
  BY PacketsReceivedAfter
<1> HIDE DEF f, g
<1>3. g = f
  BY <1>1, <1>2, SeqEqual
<1> QED BY <1>3 DEF f, g

LEMMA PacketArrives ==
  ASSUME TypeInv, InOrder, TypeInv', InOrder', UNCHANGED sent, next_received
  PROVE  /\ Len(packets_received) < Len(sent)
         /\ packets_received' =
              Append(packets_received, sent[Len(packets_received) + 1])
<1> DEFINE f == packets_received
           g == packets_received'
           R == Len(received)
           p == sent[R + 1]
<1>1. /\ f \in Seq(Packet) /\ Len(f) = R /\ R \in Nat /\ sent \in Seq(Packet)
      /\ \A i \in 1..R : f[i] = sent[i]
  BY PacketsReceived
<1>2. /\ g \in Seq(Packet) /\ Len(g) = Len(received')
      /\ \A i \in 1..Len(received') : g[i] = sent[i]
  BY PacketsReceivedAfter
<1>3. R < Len(sent) /\ Len(received') = R + 1
  BY Shapes DEF next_received
<1> HIDE DEF f, g, R
<1>4. p \in Packet
  BY <1>1, <1>3
<1> HIDE DEF p
<1> DEFINE h == Append(f, p)
<1>5. /\ h \in Seq(Packet) /\ Len(h) = R + 1 /\ h[R + 1] = p
      /\ \A i \in 1..R : h[i] = f[i]
  BY <1>1, <1>4
<1> HIDE DEF h
<1>6. \A i \in 1..Len(g) : g[i] = h[i]
  <2> SUFFICES ASSUME NEW i \in 1..Len(g) PROVE g[i] = h[i]
    OBVIOUS
  <2>1. g[i] = sent[i] /\ i \in 1..(R + 1)
    BY <1>2, <1>3
  <2>2. CASE i = R + 1
    BY <1>5, <2>1, <2>2 DEF p
  <2>3. CASE i # R + 1
    <3>1. i \in 1..R
      BY <1>1, <2>1, <2>3
    <3> QED BY <1>1, <1>5, <2>1, <3>1
  <2> QED BY <2>2, <2>3
<1>7. g = h
  BY <1>2, <1>3, <1>5, <1>6, SeqEqual
<1> QED BY <1>1, <1>3, <1>7 DEF f, g, h, p

LEMMA ChannelInit ==
  ASSUME NEW w, Inv(w), Init
  PROVE  Channel!Init
<1>1. sent = <<>> /\ received = <<>> /\ up = TRUE
  BY DEF Init
<1>2. packets_received \in Seq(Packet) /\ Len(packets_received) = 0
  <2>1. Len(<<>>) = 0
    OBVIOUS
  <2> QED BY <1>1, <2>1, PacketsReceived DEF Inv
<1>3. packets_received = <<>>
  BY <1>2, Elements
<1> QED BY <1>1, <1>3 DEF Channel!Init, packets_received

LEMMA ChannelStep ==
  ASSUME NEW w, Writers = {w}, Inv(w), Inv(w)', [Next]_vars
  PROVE  [Channel!Next]_(Channel!chan)
<1>1. TypeInv /\ InOrder /\ TypeInv' /\ InOrder' /\ up \in BOOLEAN
  BY DEF Inv, TypeInv, TypeOK
<1>2. w \in Writers
  OBVIOUS
<1> DEFINE f == packets_received
           g == packets_received'
<1>3. ASSUME UNCHANGED <<sent, received, up>>
      PROVE  UNCHANGED Channel!chan
  <2>1. g = f
    BY <1>1, <1>3, PacketsKept
  <2> QED BY <1>3, <2>1 DEF Channel!chan, packets_received
<1>4. ASSUME SendPacket(w)
      PROVE  Channel!Next
  <2>1. PICK p \in Packet : sent' = Append(sent, p)
    <3>1. PICK len \in 0..MaxPayload :
            sent' = Append(sent, [from |-> w, number |-> writer[w].begun + 1,
                                  payload_len |-> len])
      BY <1>4 DEF SendPacket
    <3>2. writer[w].begun \in 0..MaxPackets /\ writer[w].begun < MaxPackets
      BY <1>1, <1>2, <1>4 DEF SendPacket, TypeInv, TypeOK
    <3>3. writer[w].begun + 1 \in 1..MaxPackets
      BY <3>2, TransportConstants
    <3>4. [from |-> w, number |-> writer[w].begun + 1, payload_len |-> len] \in Packet
      BY <1>2, <3>3 DEF Packet
    <3> QED BY <3>1, <3>4
  <2>2. UNCHANGED <<received, up>>
    BY <1>4 DEF SendPacket
  <2>3. \A i \in 1..Len(received) : sent'[i] = sent[i]
    <3>1. /\ sent \in Seq(Packet) /\ Len(sent) \in Nat /\ Len(received) \in Nat
          /\ Len(received) <= Len(sent)
      BY <1>1, PacketsReceived, Elements
    <3>2. \A i \in 1..Len(sent) : sent'[i] = sent[i]
      BY <2>1, <3>1
    <3> QED BY <3>1, <3>2
  <2>4. g = f
    BY <1>1, <2>2, <2>3, PacketsKept
  <2>5. Channel!Send
    BY <2>1, <2>2, <2>4 DEF Channel!Send, packets_received
  <2> QED BY <2>5 DEF Channel!Next
<1>5. ASSUME next_received, UNCHANGED <<sent, up>>
      PROVE  Channel!Next
  <2>1. Len(f) < Len(sent) /\ g = Append(f, sent[Len(f) + 1])
    BY <1>1, <1>5, PacketArrives
  <2>2. Channel!Receive
    BY <1>5, <2>1 DEF Channel!Receive, packets_received
  <2> QED BY <2>2 DEF Channel!Next
<1>6. ASSUME up, up' = FALSE, UNCHANGED <<sent, received>>
      PROVE  Channel!Next
  <2>1. g = f
    BY <1>1, <1>6, PacketsKept
  <2>2. Channel!Break
    BY <1>6, <2>1 DEF Channel!Break, packets_received
  <2> QED BY <2>2 DEF Channel!Next
<1>7. CASE \E v \in Writers : WriterStep(v)
  <2>1. WriterStep(w)
    BY <1>7
  <2>2. CASE SendPacket(w)
    BY <1>4, <2>2
  <2>3. CASE Write(w) \/ WriteFails(w)
    BY <1>3, <2>3 DEF Write, WriteFails
  <2> QED BY <2>1, <2>2, <2>3 DEF WriterStep
<1>8. CASE Read
  <2>1. UNCHANGED <<sent, up>>
    BY <1>8 DEF Read
  <2>2. UNCHANGED received \/ next_received
    BY <1>2, <1>8, StreamRead
  <2> QED BY <1>3, <1>5, <2>1, <2>2
<1>9. CASE ReadTimesOut
  BY <1>6, <1>9 DEF ReadTimesOut, given_up
<1>10. CASE ReadFails
  BY <1>1, <1>3, <1>10 DEF ReadFails, given_up
<1>11. CASE LinkBreaks
  BY <1>6, <1>11 DEF LinkBreaks
<1>12. CASE UNCHANGED vars
  BY <1>3, <1>12 DEF vars
<1> QED BY <1>7, <1>8, <1>9, <1>10, <1>11, <1>12 DEF Next, ReaderStep

(* The safety half of ImplementsChannel: the units on the wire make up the *)
(* channel of packets.  A packet is sent when send_packet is called and    *)
(* received when recv_packet returns; a timeout in the middle of a packet  *)
(* and a broken link break the channel.                                    *)
THEOREM ChannelImplemented ==
  ASSUME NEW w, Writers = {w}
  PROVE  Spec => Channel!Spec
<1>1. Inv(w) /\ Init => Channel!Init
  BY ChannelInit
<1>2. Inv(w) /\ Inv(w)' /\ [Next]_vars => [Channel!Next]_(Channel!chan)
  BY ChannelStep
<1>3. Spec => []Inv(w)
  BY StreamInvariant
<1> QED BY <1>1, <1>2, <1>3, PTL DEF Spec, Channel!Spec

=============================================================================
