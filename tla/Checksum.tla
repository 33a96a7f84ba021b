------------------------------ MODULE Checksum ------------------------------
(***************************************************************************)
(* The checksum functions of package packet (packet/checksum.go).          *)
(*                                                                         *)
(* A packet is given by its words as the little-endian CPU loads them: the *)
(* words of both addresses, those of the transport header but for the      *)
(* checksum (and for the length of a UDP header), the length fields in     *)
(* host order, and the bytes from Data on, those behind the packet         *)
(* included.  The functions add the swapped words.                         *)
(***************************************************************************)
EXTENDS Naturals, Integers, Sequences

CONSTANTS
  IPv4MinLen, UDPLen, TCPMinLen, ICMPLen,  (* types/const.go *)
  B                                        (* values of a byte, 2^8 *)

W == B * B

SwapBytesUint16(x) == (x % B) * B + (x \div B)

(* What a loop over s[1], ..., s[n] adds up. *)
SumTo(n, s) ==
  LET sum[i \in 0..n] == IF i = 0 THEN 0 ELSE sum[i - 1] + s[i]
  IN  sum[n]

SumSwapped(words) ==
  SumTo(Len(words), [i \in DOMAIN words |-> SwapBytesUint16(words[i])])

(* The swapped words of the first length bytes of memory, but for an odd    *)
(* byte at their end.                                                       *)
SumSlice(mem, length) ==
  SumTo(length \div 2,
        [i \in 1..(length \div 2) |-> SwapBytesUint16(mem[2 * i - 1] + B * mem[2 * i])])

(* Mutant: the odd byte is the low one of its word. *)
calculateDataChecksumLow(mem, length) ==
  SumSlice(mem, length) + (IF length % 2 # 0 THEN mem[length] ELSE 0)

calculateDataChecksum(mem, length) ==
  SumSlice(mem, length) + (IF length % 2 # 0 THEN mem[length] * B ELSE 0)

reduceChecksum[sum \in Nat] ==
  IF sum >= W THEN reduceChecksum[(sum \div W) + (sum % W)] ELSE sum

Not(x) == W - 1 - x

(* Numbers of protocols. *)
ProtoNumber(proto) ==
  CASE proto = "tcp" -> 1 [] proto = "udp" -> 2 [] OTHER -> 3

HeaderLen(proto) ==
  CASE proto = "tcp" -> TCPMinLen [] proto = "udp" -> UDPLen [] OTHER -> ICMPLen

(* What follows the IP header: TotalLength - IPv4MinLen, or PayloadLen. *)
dataLength(k) ==
  IF k.type = "ipv4" THEN (k.ipLen - IPv4MinLen) % W ELSE k.ipLen

(* CalculatePseudoHdrIPv4TCPCksum and its three siblings, before reducing. *)
PseudoHdr(k) ==
  SumSwapped(k.addrs) + ProtoNumber(k.proto)
    + (IF k.proto = "udp" THEN k.dgramLen ELSE dataLength(k))

(* Header and data: ports, DgramLen, calculateTCPChecksum, or Type, Code,   *)
(* Identifier and SeqNum.                                                   *)
Segment(k) ==
  SumSwapped(k.hdr) + (IF k.proto = "udp" THEN k.dgramLen ELSE 0)
    + calculateDataChecksum(k.mem, (dataLength(k) - HeaderLen(k.proto)) % W)

(* CalculateIPv4UDPChecksum and its siblings; ICMP over IPv4 has no pseudo  *)
(* header, and a UDP checksum of zero is sent as all ones.                  *)
CalculateChecksum(k) ==
  LET pseudo == IF k.type = "ipv4" /\ k.proto = "icmp" THEN 0 ELSE PseudoHdr(k)
      sum == Not(reduceChecksum[pseudo + Segment(k)])
  IN  IF k.proto = "udp" /\ sum = 0 THEN Not(sum) ELSE sum

(* The device computes the checksum of a packet whose checksum field holds  *)
(* the reduced sum of the pseudo header.                                    *)
Offloaded(k) == Not(reduceChecksum[reduceChecksum[PseudoHdr(k)] + Segment(k)])

(* CalculateIPv4Checksum: the words of the header but for the checksum. *)
CalculateIPv4Checksum(k) ==
  Not(reduceChecksum[SumSwapped(k.addrs) + SumSwapped(k.iphdr) + k.ipLen
                       + ProtoNumber(k.proto)])

-----------------------------------------------------------------------------
(* What a receiver computes. *)

(* The words of the wire: the swapped words, and the payload of length n in *)
(* big-endian pairs, padded with a zero byte.                               *)
OnWire(mem, n) ==
  LET at(i) == IF i <= n THEN mem[i] ELSE 0
      words == (n + 1) \div 2
  IN  SumTo(words, [i \in 1..words |-> B * at(2 * i - 1) + at(2 * i)])

(* In one's complement arithmetic everything with its checksum is zero. *)
Verifies(k, pay, checksum) ==
  LET pseudo == IF k.type = "ipv4" /\ k.proto = "icmp" THEN 0
                ELSE SumSwapped(k.addrs) + ProtoNumber(k.proto) + HeaderLen(k.proto) + pay
      length == IF k.proto = "udp" THEN UDPLen + pay ELSE 0
  IN  /\ checksum \in 0..(W - 1)
      /\ (pseudo + SumSwapped(k.hdr) + length + OnWire(k.mem, pay) + checksum) % (W - 1) = 0

IPv4Verifies(k, pay, checksum) ==
  (SumSwapped(k.addrs) + SumSwapped(k.iphdr) + ProtoNumber(k.proto)
     + IPv4MinLen + HeaderLen(k.proto) + pay + checksum) % (W - 1) = 0
=============================================================================
