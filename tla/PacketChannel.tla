--------------------------- MODULE PacketChannel ----------------------------
(***************************************************************************)
(* What protocol.h promises of send_packet and recv_packet: "a full        *)
(* Protocol Message (Header + Payload) atomically".  The packets one side  *)
(* sends are received whole, once and in order; when the connection breaks *)
(* the last of them are not received at all.                               *)
(***************************************************************************)
EXTENDS Integers, Sequences

CONSTANT Packet

VARIABLES
  sent, received,  \* the packets of all calls so far
  open             \* the connection has not broken

chan == <<sent, received, open>>

Init == sent = <<>> /\ received = <<>> /\ open = TRUE

Send ==
  /\ \E p \in Packet : sent' = Append(sent, p)
  /\ UNCHANGED <<received, open>>

Receive ==
  /\ Len(received) < Len(sent)
  /\ received' = Append(received, sent[Len(received) + 1])
  /\ UNCHANGED <<sent, open>>

Break == open /\ open' = FALSE /\ UNCHANGED <<sent, received>>

Next == Send \/ Receive \/ Break

Spec == Init /\ [][Next]_chan

(* While the connection is there, what is sent arrives.                    *)
FairSpec == Spec /\ WF_chan(open /\ Receive)
=============================================================================
