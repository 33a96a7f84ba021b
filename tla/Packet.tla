------------------------------- MODULE Packet -------------------------------
(***************************************************************************)
(* Package packet (packet/packet.go, icmp6.go) on top of MbufData: parsing *)
(* of received frames, with and without a VXLAN overlay, initialisation of *)
(* empty packets, and the functions that insert and remove bytes.          *)
(*                                                                         *)
(* The buffer of the mbuf is a row of cells with addresses 0..buf_len-1.   *)
(* The first cell of a header holds all fields the code looks at, the      *)
(* others are plain bytes; header lengths are constants.  A Packet is its  *)
(* pointers: addresses, or NULL.                                           *)
(***************************************************************************)
EXTENDS MbufData, Checksum, Sequences

CONSTANTS
  EtherLen, ARPLen, IPv6Len, VXLANLen,
  NDMessageSize, NDOptionSize,  (* neighbour discovery message and option *)
  StructSize,   (* the size of a Packet in the headroom *)
  Payloads,     (* payload sizes of frames and of InitEmpty functions *)
  FieldWords,   (* words of addresses and headers, for checksums *)
  Starts,       (* where bytes are inserted and removed *)
  Counts,       (* and how many *)
  MaxEdits,     (* bound: bytes are inserted or removed this often *)
  NULL

ASSUME PacketAssumption ==
  /\ {EtherLen, ARPLen, IPv4MinLen, IPv6Len, UDPLen, TCPMinLen, ICMPLen,
      VXLANLen, NDMessageSize, NDOptionSize} \subseteq Nat \ {0}
  /\ B \in Nat \ {0, 1} /\ U16 = W /\ FieldWords \subseteq 0..(W - 1)
  /\ Starts \subseteq Nat /\ Counts \subseteq Nat
  /\ Payloads \subseteq Nat /\ MaxEdits \in Nat /\ StructSize \in Nat
  /\ NULL \notin Int

VARIABLES
  buf,      (* the cells of the buffer *)
  pkt,      (* the Packet *)
  frame,    (* history: what the packet was received or initialised as *)
  last,     (* history: the last call *)
  summed,   (* history: the packet whose checksums were computed, and those *)
  stray,    (* history: an edit wrote outside the buffer *)
  edits     (* bound: insertions and removals so far *)

pktVars == <<buf, pkt, frame, last, summed, stray, edits>>
allVars == <<vars, pktVars>>

-----------------------------------------------------------------------------
(* Frames *)

(* h: the header; hl: IHL or DataOff; len: a length field; p: EtherType,    *)
(* protocol or destination port.                                            *)
Cell(h, hl, len, p) == [h |-> h, hl |-> hl, len |-> len, p |-> p]
Byte(i) == Cell("byte", 0, i, "none")

Protos == {"udp", "tcp", "icmp", "icmp6", "none"}

(* A frame: EtherType, IPv4 options, protocol, TCP options, payload, and    *)
(* whether it is inside a VXLAN tunnel.                                     *)
Frames ==
  { f \in [vxlan : BOOLEAN, type : {"ipv4", "ipv6", "arp", "none"}, opt : 0..1,
           proto : Protos, topt : 0..1, pay : Payloads] :
      /\ f.type # "ipv4" => f.opt = 0
      /\ f.type \in {"arp", "none"} => f.proto = "none"
      /\ f.proto # "tcp" => f.topt = 0 }

L3Len(f) ==
  CASE f.type = "ipv4" -> IPv4MinLen + f.opt
    [] f.type = "ipv6" -> IPv6Len
    [] f.type = "arp"  -> ARPLen
    [] OTHER           -> 0

L4Len(f) ==
  CASE f.proto = "udp" -> UDPLen
    [] f.proto = "tcp" -> TCPMinLen + f.topt
    [] f.proto \in {"icmp", "icmp6"} -> ICMPLen
    [] OTHER           -> 0

OuterLen == EtherLen + IPv4MinLen + UDPLen + VXLANLen
Base(f) == IF f.vxlan THEN OuterLen ELSE 0
FrameLen(f) == Base(f) + EtherLen + L3Len(f) + L4Len(f) + f.pay

(* The cells of a frame at offset i from its start. *)
FrameCell(f, i) ==
  LET b == Base(f)
      end == FrameLen(f)
  IN CASE f.vxlan /\ i = 0 -> Cell("ether", 0, 0, "ipv4")
       [] f.vxlan /\ i = EtherLen -> Cell("ipv4", IPv4MinLen, end - EtherLen, "udp")
       [] f.vxlan /\ i = EtherLen + IPv4MinLen ->
            Cell("udp", 0, end - EtherLen - IPv4MinLen, "4789")
       [] i = b -> Cell("ether", 0, 0, f.type)
       [] i = b + EtherLen /\ f.type = "ipv4" ->
            Cell("ipv4", L3Len(f), end - i, f.proto)
       [] i = b + EtherLen /\ f.type = "ipv6" ->
            Cell("ipv6", 0, end - i - IPv6Len, f.proto)
       [] i = b + EtherLen + L3Len(f) /\ f.proto = "udp" -> Cell("udp", 0, end - i, "none")
       [] i = b + EtherLen + L3Len(f) /\ f.proto = "tcp" -> Cell("tcp", L4Len(f), 0, "none")
       [] OTHER -> Byte(i)

NoFrame == [vxlan |-> FALSE, type |-> "none", opt |-> 0, proto |-> "none", topt |-> 0, pay |-> 0]

(* A Packet{CMbuf: m}; Ether is set by whoever made the packet. *)
NewPacket(start) ==
  [L2 |-> NULL, L3 |-> NULL, L4 |-> NULL, Data |-> NULL, Ether |-> start,
   OuterL2 |-> NULL, OuterL3 |-> NULL, OuterL4 |-> NULL, Vxlan |-> NULL, Overlay |-> FALSE]

PacketInit ==
  /\ Init
  /\ buf = [a \in 0..(buf_len - 1) |-> Byte(0)]
  /\ pkt = NewPacket(NULL)
  /\ frame = NoFrame
  /\ last = "none"
  /\ summed = NULL
  /\ stray = FALSE
  /\ edits = 0

(* What memory holds at an address, in the buffer or elsewhere. *)
At(a) == IF a \in DOMAIN buf THEN buf[a] ELSE Byte(0)

-----------------------------------------------------------------------------
(* A packet comes from a device, or is allocated to be filled. *)

Receive(f) ==
  /\ last = "none" /\ data_off = HEADROOM /\ data_len = 0
  /\ packetStructSize = StructSize
  /\ FrameLen(f) <= buf_len - HEADROOM
  /\ data_len' = FrameLen(f) /\ pkt_len' = FrameLen(f)
  /\ buf' = [a \in DOMAIN buf |->
       IF a \in HEADROOM..(HEADROOM + FrameLen(f) - 1) THEN FrameCell(f, a - HEADROOM) ELSE buf[a]]
  /\ pkt' = NewPacket(HEADROOM)
  /\ frame' = f
  /\ last' = "Receive"
  /\ ok' = TRUE /\ inUse' = TRUE
  /\ UNCHANGED <<data_off, packetStructSize, overrun, summed, stray, edits>>

Alloc ==
  /\ last = "none" /\ data_off = HEADROOM /\ data_len = 0
  /\ packetStructSize = StructSize
  /\ pkt' = NewPacket(HEADROOM)
  /\ last' = "Alloc"
  /\ ok' = TRUE /\ inUse' = TRUE
  /\ UNCHANGED <<mbufVars, packetStructSize, overrun, buf, frame, summed, stray, edits>>

-----------------------------------------------------------------------------
(* Parsing *)

(* A call that leaves the mbuf alone. *)
Parsed(p, result, name) ==
  /\ pkt' = p
  /\ ok' = result
  /\ last' = name
  /\ UNCHANGED <<mbufVars, packetStructSize, inUse, overrun, buf, frame, summed, stray, edits>>

ParseL2 ==
  /\ last \notin {"none", "ParseL2", "Checksum"}
  /\ Parsed([pkt EXCEPT !.L2 = data_off], TRUE, "ParseL2")

ParseL3(p) == [p EXCEPT !.L3 = p.L2 + EtherLen]

(* GetEther, and the answers of GetIPv4, GetARP and GetIPv6. *)
EtherType(p) == At(p.L2).p

(* Mutant: the options of the IPv4 header are not skipped. *)
ParseL4ForIPv4Min(p) == [p EXCEPT !.L4 = p.L3 + IPv4MinLen]

ParseL4ForIPv4(p) == [p EXCEPT !.L4 = p.L3 + At(p.L3).hl]
ParseL4ForIPv6(p) == [p EXCEPT !.L4 = p.L3 + IPv6Len]

(* ParseAllKnownL3, then ParseAllKnownL4ForIPv4 or ForIPv6. *)
ParseL3L4(p) ==
  LET q == ParseL3(p)
  IN CASE EtherType(p) = "ipv4" -> ParseL4ForIPv4(q)
       [] EtherType(p) = "ipv6" -> ParseL4ForIPv6(q)
       [] OTHER -> q

(* Which of the headers of ParseAllKnownL4 is not nil. *)
KnownL4(p) ==
  LET proto == At(p.L3).p
  IN IF \/ EtherType(p) = "ipv4" /\ proto \in {"udp", "tcp", "icmp"}
        \/ EtherType(p) = "ipv6" /\ proto \in {"udp", "tcp", "icmp6"}
     THEN proto ELSE "none"

(* ParseL7 *)
ParseL7(p, proto) ==
  CASE proto = "tcp" -> [p EXCEPT !.Data = p.L4 + At(p.L4).hl]
    [] proto = "udp" -> [p EXCEPT !.Data = p.L4 + UDPLen]
    [] proto \in {"icmp", "icmp6"} -> [p EXCEPT !.Data = p.L4 + ICMPLen]
    [] OTHER -> p

ParseData ==
  /\ pkt.L2 # NULL /\ last \in {"ParseL2", "VxlanDecap"}
  /\ LET q == ParseL3L4(pkt)
     IN  Parsed(ParseL7(q, KnownL4(q)), KnownL4(q) # "none", "ParseData")

(* The headers so far are those of the tunnel; parsing starts again after   *)
(* the VXLAN header.                                                        *)
EnterOverlay(p) ==
  [p EXCEPT !.Overlay = TRUE, !.OuterL2 = p.L2, !.OuterL3 = p.L3, !.OuterL4 = p.L4,
            !.Vxlan = p.L4 + UDPLen,
            !.L2 = p.L4 + UDPLen + VXLANLen, !.L3 = NULL, !.L4 = NULL]

(* Early returns: not IPv4 (only L3 is parsed), not UDP to port 4789.  The  *)
(* last one, for an unknown inner packet, comes after Overlay was set.      *)
VxlanDecap ==
  /\ last \in {"Receive", "ParseL2"}
  /\ LET p0 == ParseL3([pkt EXCEPT !.Overlay = FALSE, !.L2 = data_off])
         p  == ParseL4ForIPv4(p0)
         q  == ParseL3L4(EnterOverlay(p))
     IN  IF EtherType(p0) # "ipv4" THEN Parsed(p0, FALSE, "VxlanDecap")
         ELSE IF At(p.L3).p # "udp" \/ At(p.L4).p # "4789" THEN Parsed(p, FALSE, "VxlanDecap")
         ELSE Parsed(ParseL7(q, KnownL4(q)),
                     EtherType(q) = "arp" \/ KnownL4(q) # "none", "VxlanDecap")

-----------------------------------------------------------------------------
(* Empty packets *)

(* What the InitEmpty functions differ in, and fillIPv4Default,             *)
(* fillIPv6Default: the cells they write at Ether, L3 and L4.  The length   *)
(* of the mbuf's data is plLen plus all headers.                            *)
Templates ==
  { f \in Frames : /\ ~f.vxlan /\ f.opt = 0 /\ f.topt = 0
                   /\ f.type = "arp" => f.pay = 0
                   /\ f.type = "ipv4" => f.proto # "icmp6"
                   /\ f.type = "ipv6" => f.proto # "icmp" }

(* Mutant: the datagram length leaves out the UDP header. *)
WrittenShort(f, p, a) ==
  CASE f.type # "none" /\ a = p.Ether -> Cell("ether", 0, 0, f.type)
    [] a = p.L3 /\ f.type = "ipv4" ->
         Cell("ipv4", IPv4MinLen, u16(IPv4MinLen + L4Len(f) + f.pay), f.proto)
    [] a = p.L3 /\ f.type = "ipv6" -> Cell("ipv6", 0, u16(L4Len(f) + f.pay), f.proto)
    [] a = p.L4 /\ f.proto = "udp" -> Cell("udp", 0, u16(f.pay), "none")
    [] a = p.L4 /\ f.proto = "tcp" -> Cell("tcp", TCPMinLen, 0, "none")
    [] OTHER -> buf[a]

Written(f, p, a) ==
  CASE f.type # "none" /\ a = p.Ether -> Cell("ether", 0, 0, f.type)
    [] a = p.L3 /\ f.type = "ipv4" ->
         Cell("ipv4", IPv4MinLen, u16(IPv4MinLen + L4Len(f) + f.pay), f.proto)
    [] a = p.L3 /\ f.type = "ipv6" -> Cell("ipv6", 0, u16(L4Len(f) + f.pay), f.proto)
    [] a = p.L4 /\ f.proto = "udp" -> Cell("udp", 0, u16(UDPLen + f.pay), "none")
    [] a = p.L4 /\ f.proto = "tcp" -> Cell("tcp", TCPMinLen, 0, "none")
    [] OTHER -> buf[a]

(* The pointers: Data is not set for ARP, L4 only where there is one, and   *)
(* InitEmptyPacket sets Data only.                                          *)
InitPointers(f) ==
  LET p == IF f.type = "none" THEN pkt ELSE ParseL3(pkt)
      q == IF f.proto = "none" THEN p
           ELSE IF f.type = "ipv4" THEN [p EXCEPT !.L4 = p.L3 + IPv4MinLen]
           ELSE ParseL4ForIPv6(p)
  IN  IF f.type = "arp" THEN q
      ELSE [q EXCEPT !.Data = p.L2 + EtherLen + L3Len(f) + L4Len(f)]

(* InitEmptyPacket, InitEmptyARPPacket, InitEmptyIPv4TCPPacket, ... on  *)
(* a packet whose L2 was parsed.                                            *)
InitEmpty(f) ==
  /\ last = "ParseL2" /\ data_len = 0
  /\ AppendMbuf(FrameLen(f))
  /\ IF ok' THEN /\ pkt' = InitPointers(f)
                 /\ buf' = [a \in DOMAIN buf |-> Written(f, pkt', a)]
                 /\ frame' = f
            ELSE UNCHANGED <<pkt, buf, frame>>
  /\ last' = IF ok' THEN "InitEmpty" ELSE "refused"
  /\ UNCHANGED <<summed, stray, edits>>

(* checkEnoughSpace: is there more than space after Data? *)
CheckEnoughSpace(p, space) == data_len - (p.Data - p.L2) - space > 0

(* The option of InitICMPv6NeighborSolicitationPacket and of the            *)
(* advertisement, which follows the message; nil makes them panic.          *)
NDOption == IF CheckEnoughSpace(pkt, NDMessageSize) THEN pkt.Data + NDMessageSize ELSE NULL

-----------------------------------------------------------------------------
(* Checksums *)

(* Words that a transport header has besides the checksum and a length. *)
HeaderWords(proto) == CASE proto = "tcp" -> 9 [] proto = "udp" -> 2 [] OTHER -> 3

(* The packet as the checksum functions see it: its addresses and headers   *)
(* are filled with words made from a and h, its payload is data, and the    *)
(* byte behind it is not zero.                                              *)
Filled(a, h, data) ==
  [type |-> frame.type, proto |-> At(pkt.L3).p, ipLen |-> At(pkt.L3).len,
   dgramLen |-> At(pkt.L4).len,
   addrs |-> [i \in 1..(IF frame.type = "ipv4" THEN 4 ELSE 16) |-> (a * i) % W],
   iphdr |-> [i \in 1..4 |-> (h + i) % W],
   hdr   |-> [i \in 1..HeaderWords(frame.proto) |-> (h * i) % W],
   mem   |-> [i \in 1..(frame.pay + 1) |-> IF i \in DOMAIN data THEN data[i] ELSE B - 1]]

(* The application has filled a packet and computes its checksums. *)
ComputeChecksums(a, h, data) ==
  /\ last = "InitEmpty" /\ frame.proto # "none"
  /\ LET k == Filled(a, h, data)
     IN  summed' = [k |-> k, soft |-> CalculateChecksum(k), hard |-> Offloaded(k),
                    ip |-> CalculateIPv4Checksum(k)]
  /\ last' = "Checksum"
  /\ UNCHANGED <<vars, buf, pkt, frame, stray, edits>>

-----------------------------------------------------------------------------
(* Inserting and removing bytes *)

(* n cells are written from dst on, those outside the buffer too, which     *)
(* belong to something else.                                                *)
Write(dst, n, cell(_)) ==
  /\ buf' = [a \in DOMAIN buf |-> IF a \in dst..(dst + n - 1) THEN cell(a) ELSE buf[a]]
  /\ stray' = (stray \/ ~(dst..(dst + n - 1) \subseteq DOMAIN buf))

(* n cells are copied from src to dst, in the direction that does not       *)
(* overwrite what is still to be copied.                                    *)
Copy(dst, src, n) == Write(dst, n, LAMBDA a : At(a - dst + src))

Edit ==
  /\ last \notin {"none", "Alloc", "Receive", "refused", "Checksum"} /\ edits < MaxEdits
  /\ edits' = edits + 1
  /\ last' = "edit"
  /\ UNCHANGED <<frame, summed>>

EncapsulateHead(start, n) ==
  /\ Edit
  /\ PrependMbuf(n)
  /\ IF ok' THEN /\ pkt' = [pkt EXCEPT !.Ether = @ - n]
                 /\ Copy(pkt.L2, pkt.L2 + n, start)
            ELSE UNCHANGED <<pkt, buf, stray>>

(* Mutant: one byte too few is moved. *)
EncapsulateTailShort(start, n) ==
  /\ Edit
  /\ AppendMbuf(n)
  /\ IF ok' THEN Copy(pkt.L2 + start + n, pkt.L2 + start, pkt_len' - start - n - 1)
            ELSE UNCHANGED <<buf, stray>>
  /\ UNCHANGED pkt

EncapsulateTail(start, n) ==
  /\ Edit
  /\ AppendMbuf(n)
  /\ IF ok' THEN Copy(pkt.L2 + start + n, pkt.L2 + start, pkt_len' - start - n)
            ELSE UNCHANGED <<buf, stray>>
  /\ UNCHANGED pkt

DecapsulateHead(start, n) ==
  /\ Edit
  /\ AdjMbuf(n)
  /\ IF ok' THEN /\ pkt' = [pkt EXCEPT !.Ether = @ + n]
                 /\ Copy(pkt.L2 + n, pkt.L2, start)
            ELSE UNCHANGED <<pkt, buf, stray>>

(* Mutant: the loop runs on over the bytes that are removed. *)
DecapsulateTailOver(start, n) ==
  /\ Edit
  /\ TrimMbuf(n)
  /\ IF ok' THEN Copy(pkt.L2 + start, pkt.L2 + start + n, pkt_len - start + n)
            ELSE UNCHANGED <<buf, stray>>
  /\ UNCHANGED pkt

(* The loop runs to the old length: its last n reads are behind the data. *)
DecapsulateTail(start, n) ==
  /\ Edit
  /\ TrimMbuf(n)
  /\ IF ok' THEN Copy(pkt.L2 + start, pkt.L2 + start + n, pkt_len - start)
            ELSE UNCHANGED <<buf, stray>>
  /\ UNCHANGED pkt

PacketBytesChange(start, n) ==
  /\ Edit
  /\ ok' = (start + n <= pkt_len)
  /\ IF ok' THEN Write(pkt.L2 + start, n, LAMBDA a : Byte(0)) ELSE UNCHANGED <<buf, stray>>
  /\ UNCHANGED <<mbufVars, packetStructSize, inUse, overrun, pkt>>

-----------------------------------------------------------------------------
(* The mbuf is used without a Packet, as in MbufData. *)
MbufOnly == last = "none" /\ Next /\ UNCHANGED pktVars

PacketNext ==
  \/ MbufOnly
  \/ Alloc \/ ParseL2 \/ VxlanDecap \/ ParseData
  \/ \E f \in Frames : Receive(f)
  \/ \E f \in Templates : InitEmpty(f)
  \/ \E a, h \in FieldWords : \E data \in [1..frame.pay -> 0..(B - 1)] :
       ComputeChecksums(a, h, data)
  \/ \E start \in Starts, n \in Counts :
       \/ EncapsulateHead(start, n) \/ EncapsulateTail(start, n)
       \/ DecapsulateHead(start, n) \/ DecapsulateTail(start, n)
       \/ PacketBytesChange(start, n)

PacketSpec == PacketInit /\ [][PacketNext]_allVars

-----------------------------------------------------------------------------
(* Properties *)

Known(f) ==
  \/ f.type = "ipv4" /\ f.proto \in {"udp", "tcp", "icmp"}
  \/ f.type = "ipv6" /\ f.proto \in {"udp", "tcp", "icmp6"}

(* L3, L4 and Data point at the headers and the payload of the frame. *)
PointersRight(f) ==
  /\ pkt.L3 = data_off + Base(f) + EtherLen
  /\ pkt.L4 = pkt.L3 + L3Len(f)
  /\ pkt.Data = pkt.L4 + L4Len(f)
  /\ pkt.Data + f.pay = data_off + data_len

(* However a well-formed frame is nested and whatever options its headers  *)
(* have, VxlanDecap recognises exactly the tunnelled ones and ParseData    *)
(* exactly the known protocols, of the inner packet after VxlanDecap, and  *)
(* both find every header where the frame has it; also for a frame that    *)
(* one of the InitEmpty functions has made.                                *)
ParsedRight ==
  edits = 0 =>
    /\ last = "VxlanDecap" =>
         /\ pkt.Overlay = frame.vxlan
         /\ pkt.L2 = data_off + Base(frame)
         /\ ok = (frame.vxlan /\ (frame.type = "arp" \/ Known(frame)))
         /\ frame.vxlan => /\ pkt.OuterL2 = data_off
                           /\ pkt.OuterL3 = data_off + EtherLen
                           /\ pkt.OuterL4 = pkt.OuterL3 + IPv4MinLen
                           /\ pkt.Vxlan + VXLANLen = pkt.L2
         /\ ok /\ Known(frame) => PointersRight(frame)
    /\ last = "ParseData" =>
         LET tunnel == frame.vxlan /\ pkt.L2 = data_off
         IN  /\ ok = (tunnel \/ Known(frame))
             /\ ok /\ ~tunnel => PointersRight(frame)
             /\ tunnel => pkt.Data = data_off + OuterLen - VXLANLen

(* The length fields that the InitEmpty functions write agree with the     *)
(* length of the mbuf's data, Data is followed by exactly the payload, and *)
(* the option of a neighbour discovery packet is its last part.  The       *)
(* length of IPv6 is that of the payload, as the protocol has it; that the *)
(* comment of the field says otherwise is what PayloadLenWhole is about.   *)
BuiltRight ==
  LET end == data_off + data_len
  IN last = "InitEmpty" =>
       /\ frame.type = "ipv4" => At(pkt.L3).len = end - pkt.L3
       /\ frame.type = "ipv6" => At(pkt.L3).len = end - pkt.L3 - IPv6Len
       /\ frame.proto = "udp" => At(pkt.L4).len = end - pkt.L4
       /\ frame.type # "arp" => pkt.Data + frame.pay = end
       /\ frame.proto = "icmp6" /\ frame.pay = NDMessageSize + NDOptionSize =>
            NDOption # NULL /\ NDOption + NDOptionSize = end

(* A receiver accepts the checksums: those computed in software, and those *)
(* that a device completes from the sum of the pseudo header, for payloads *)
(* of even and odd length and whatever follows the packet in memory.  The  *)
(* checksum of a UDP packet is not zero, which would mean there is none.   *)
ChecksumVerifies ==
  last = "Checksum" =>
    LET k == summed.k
    IN /\ Verifies(k, frame.pay, summed.soft)
       /\ frame.proto = "udp" => summed.soft # 0
       /\ frame.proto \in {"udp", "tcp"} => Verifies(k, frame.pay, summed.hard)
       /\ frame.type = "ipv4" => IPv4Verifies(k, frame.pay, summed.ip)

Bytes == [i \in 0..(data_len - 1) |-> At(data_off + i)]

Inserted(start, n) ==
  /\ data_len' = data_len + n
  /\ \A i \in DOMAIN Bytes : Bytes'[IF i < start THEN i ELSE i + n] = Bytes[i]

Removed(start, n) ==
  /\ data_len' = data_len - n
  /\ \A i \in DOMAIN Bytes' : Bytes'[i] = Bytes[IF i < start THEN i ELSE i + n]

(* Bytes start, ..., start + n - 1 are among those of the packet. *)
InPacket(start, n) == LenConsistent /\ start + n <= data_len

EditOf(start, n) ==
  \/ EncapsulateHead(start, n) \/ EncapsulateTail(start, n)
  \/ DecapsulateHead(start, n) \/ DecapsulateTail(start, n)
  \/ PacketBytesChange(start, n)

(* As long as L2 is the start of the packet, EncapsulateTail inserts and    *)
(* DecapsulateHead and DecapsulateTail remove bytes such that all others    *)
(* are kept in their order.  (EncapsulateHead: see HeadInserted.)           *)
EditsExact ==
  [][\A start \in Starts, n \in Counts :
       pkt.L2 = data_off /\ InPacket(start, n) /\ ok' =>
         /\ EncapsulateTail(start, n) => Inserted(start, n)
         /\ DecapsulateHead(start, n) => Removed(start, n)
         /\ DecapsulateTail(start, n) => Removed(start, n)]_allVars

(* As long as L2 is the start of the packet, no edit inside the packet      *)
(* writes outside the buffer, whatever the room in front and behind.        *)
EditsInside ==
  [][\A start \in Starts, n \in Counts :
       pkt.L2 = data_off /\ InPacket(start, n) /\ EditOf(start, n) => UNCHANGED stray]_allVars

(* EncapsulateTail "adds bytes to packet" and returns "false if error": one *)
(* that AppendMbuf has found room for writes inside the buffer, also when   *)
(* the packet was taken out of a tunnel.                                    *)
TailInside ==
  [][\A start \in Starts, n \in Counts :
       InPacket(start, n) /\ EncapsulateTail(start, n) => UNCHANGED stray]_allVars

(* EncapsulateHead "adds bytes to packet. start - number of beginning byte, *)
(* length - number of added bytes".                                        *)
HeadInserted ==
  [][\A start \in Starts, n \in Counts :
       pkt.L2 = data_off /\ InPacket(start, n) /\ ok' =>
         (EncapsulateHead(start, n) => Inserted(start, n))]_allVars

(* IPv6Hdr.PayloadLen: "IP packet length - includes sizeof(ip_header)".     *)
PayloadLenWhole ==
  last = "InitEmpty" /\ frame.type = "ipv6" => At(pkt.L3).len = data_off + data_len - pkt.L3
=============================================================================
