------------------------------- MODULE Packets -------------------------------
(***************************************************************************)
(* The frames of the IMU protocol (sample_packet_t) as the decoders of the *)
(* reader tools see them: byte sequences of one size that start with the   *)
(* same magic and pass a test.                                             *)
(***************************************************************************)
EXTENDS Integers, Sequences

CONSTANTS
    Byte,     \* the values of a byte
    Magic,    \* MAGIC, the bytes a frame starts with
    Size,     \* PACKET.size
    Packet    \* the valid frames: version, size and checksum are right

ASSUME PacketAssumption ==
    /\ Size \in Nat
    /\ Magic \in Seq(Byte) /\ Len(Magic) \in 1..Size
    /\ \A p \in Packet :
        p \in Seq(Byte) /\ Len(p) = Size /\ SubSeq(p, 1, Len(Magic)) = Magic
=============================================================================
