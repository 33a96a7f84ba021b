------------------------------ MODULE MCPacket ------------------------------
(* Instances of Packet for TLC. *)
EXTENDS Packet

(* Lengths up to the largest uint16. *)
ShortLengths == 0..(U16 - 1)

(* ... and some that lose bits when they are converted to one. *)
AllLengths == ShortLengths \cup {U16, U16 + 3, 2 * U16 - 1}
=============================================================================
