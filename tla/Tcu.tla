-------------------------------- MODULE Tcu --------------------------------
(***************************************************************************)
(* The vocabulary of the TCU protocol (protocols/tcu.h): the phases of a   *)
(* node, the header flags, and the flag combinations that tell the kinds   *)
(* of packet apart.  The flags of a packet are the set of the bits that    *)
(* are set in its header; a receiver dispatches on the whole set.          *)
(***************************************************************************)
EXTENDS Integers

\* The phases keep their numbers, because the code compares them.
DEAD       == 0
HOLDOFF    == 1
INITIALIZE == 2
CONNECT    == 3
NETWORK    == 4
DISCONNECT == 5
CLOSED     == 6

Phase == DEAD..CLOSED

\* The test every data handler and every sender starts with.
Active(phase) == phase >= CONNECT /\ phase <= NETWORK

\* The test of the two ends of the connection handshake.
Connectable(phase) == phase <= INITIALIZE

Flag == {"SYN", "ACK", "FIN", "NACK", "DF", "MF", "FL", "KA"}

ConnReq    == {"SYN"}
ConnAck    == {"SYN", "ACK"}
DisconnReq == {"FIN"}
DisconnAck == {"FIN", "ACK"}
KaReq      == {"KA"}
KaAck      == {"KA", "ACK"}

PositiveAck == {"ACK"}
NegativeAck == {"NACK"}

\* A file differs from a text by one more flag in each of its packets.
Kind == {"text", "file"}
OfKind(flags, kind) == IF kind = "file" THEN flags \cup {"FL"} ELSE flags

Single(kind)       == OfKind({"DF"}, kind)
MoreFrag(kind)     == OfKind({"MF"}, kind)
LastWindFrag(kind) == OfKind({"MF", "FIN"}, kind)
LastFrag(kind)     == OfKind({}, kind)

DataFlags == UNION {{Single(k), MoreFrag(k), LastWindFrag(k), LastFrag(k)} : k \in Kind}

\* What a sender may put in front of a payload, by tcu.h's table of flag
\* combinations, never collides with a packet that controls the connection.
ControlFlags == {ConnReq, ConnAck, DisconnReq, DisconnAck, KaReq, KaAck,
                 PositiveAck, NegativeAck}
=============================================================================
