------------------------------ MODULE MbufData ------------------------------
(***************************************************************************)
(* The data area of a single-segment mbuf and the operations of package    *)
(* mbuf on it (mbuf/mbuf.go): PrependMbuf, AppendMbuf, AdjMbuf, TrimMbuf,  *)
(* PktMbufAppend, PktMbufReset, ResetAndAppend and the size of the packet  *)
(* structure kept in the headroom.                                         *)
(*                                                                         *)
(* An mbuf has a buffer of buf_len bytes; the packet is the data_len bytes *)
(* at data_off.  data_off, data_len and buf_len are uint16 and pkt_len is  *)
(* uint32 in C, whereas lengths come as a Go uint or int: the code         *)
(* converts them to uint16 before it compares, and all arithmetic wraps.   *)
(***************************************************************************)
EXTENDS Naturals, Integers

CONSTANTS
  U16,       (* number of values of a uint16_t, 2^16 *)
  U32,       (* number of values of a uint32_t, 2^32 *)
  buf_len,   (* size of the buffer *)
  HEADROOM,  (* RTE_PKTMBUF_HEADROOM *)
  Lengths    (* lengths the application passes *)

ASSUME MbufDataAssumption ==
  /\ U16 \in Nat \ {0} /\ U32 \in Nat /\ U16 < U32 /\ U32 % U16 = 0
  /\ buf_len \in Nat /\ buf_len < U16
  /\ HEADROOM \in Nat /\ HEADROOM <= buf_len
  /\ Lengths \subseteq Nat

VARIABLES
  data_off, data_len, pkt_len,  (* the fields of rte_mbuf *)
  packetStructSize,             (* the package variable *)
  inUse,                        (* packets exist already *)
  ok,                           (* what the last operation returned *)
  overrun                       (* bytes were written behind the buffer *)

mbufVars == <<data_off, data_len, pkt_len>>
vars == <<mbufVars, packetStructSize, inUse, ok, overrun>>

u16(x) == x % U16
u32(x) == x % U32

(* An mbuf as rte_pktmbuf_alloc delivers it. *)
Init ==
  /\ data_off = HEADROOM
  /\ data_len = 0
  /\ pkt_len = 0
  /\ packetStructSize = 0
  /\ inUse = FALSE
  /\ ok = TRUE
  /\ overrun = FALSE

(* Package packet calls this when it is initialised, before any packet. *)
SetPacketStructSize(t) ==
  /\ ~inUse
  /\ ok' = (t <= HEADROOM)
  /\ packetStructSize' = IF t <= HEADROOM THEN t ELSE packetStructSize
  /\ UNCHANGED <<mbufVars, inUse, overrun>>

(* The operation refuses: it returns false, or nil, and changes nothing. *)
Refuse ==
  /\ ok' = FALSE
  /\ inUse' = TRUE
  /\ UNCHANGED <<mbufVars, packetStructSize, overrun>>

Accept ==
  /\ ok' = TRUE
  /\ inUse' = TRUE
  /\ UNCHANGED packetStructSize

(* Mutant: the packet structure is not kept free. *)
PrependMbufNoStruct(length) ==
  \/ /\ u16(length) > data_off
     /\ Refuse
  \/ /\ u16(length) <= data_off
     /\ data_off' = u16(data_off - u16(length))
     /\ data_len' = u16(data_len + u16(length))
     /\ pkt_len' = u32(pkt_len + u32(length))
     /\ Accept /\ UNCHANGED overrun

PrependMbuf(length) ==
  \/ /\ u16(length) > u16(data_off - packetStructSize)
     /\ Refuse
  \/ /\ u16(length) <= u16(data_off - packetStructSize)
     /\ data_off' = u16(data_off - u16(length))
     /\ data_len' = u16(data_len + u16(length))
     /\ pkt_len' = u32(pkt_len + u32(length))
     /\ Accept /\ UNCHANGED overrun

(* Mutant: the headroom is counted as tail room. *)
TailRoomSizeNoOff == u16(buf_len - data_len)

TailRoomSize == u16(buf_len - data_off - data_len)

AppendMbuf(length) ==
  \/ /\ u16(length) > TailRoomSize
     /\ Refuse
  \/ /\ u16(length) <= TailRoomSize
     /\ data_len' = u16(data_len + u16(length))
     /\ pkt_len' = u32(pkt_len + u32(length))
     /\ Accept /\ UNCHANGED <<data_off, overrun>>

(* Mutant: data_off stays. *)
AdjMbufNoMove(length) ==
  \/ /\ u16(length) > data_len
     /\ Refuse
  \/ /\ u16(length) <= data_len
     /\ data_len' = u16(data_len - u16(length))
     /\ pkt_len' = u32(pkt_len - u32(length))
     /\ Accept /\ UNCHANGED <<data_off, overrun>>

AdjMbuf(length) ==
  \/ /\ u16(length) > data_len
     /\ Refuse
  \/ /\ u16(length) <= data_len
     /\ data_off' = u16(data_off + u16(length))
     /\ data_len' = u16(data_len - u16(length))
     /\ pkt_len' = u32(pkt_len - u32(length))
     /\ Accept /\ UNCHANGED overrun

TrimMbuf(length) ==
  \/ /\ u16(length) > data_len
     /\ Refuse
  \/ /\ u16(length) <= data_len
     /\ data_len' = u16(data_len - u16(length))
     /\ pkt_len' = u32(pkt_len - u32(length))
     /\ Accept /\ UNCHANGED <<data_off, overrun>>

(* rte_pktmbuf_append reserves uint16_t(len(data)) bytes at the tail, the  *)
(* wrapper then copies len(data) bytes there.                              *)
PktMbufAppend(length) ==
  \/ /\ u16(length) > TailRoomSize
     /\ Refuse
  \/ /\ u16(length) <= TailRoomSize
     /\ data_len' = u16(data_len + u16(length))
     /\ pkt_len' = u32(pkt_len + u16(length))
     /\ overrun' = (overrun \/ data_off + data_len + length > buf_len)
     /\ Accept /\ UNCHANGED data_off

(* rte_pktmbuf_reset *)
PktMbufReset ==
  /\ data_off' = HEADROOM
  /\ data_len' = 0
  /\ pkt_len' = 0
  /\ Accept /\ UNCHANGED overrun

(* reset_and_append: the reset is done even when the data does not fit. *)
ResetAndAppend(length) ==
  LET w == u16(length)
      fits == w <= buf_len - HEADROOM
  IN /\ data_off' = HEADROOM
     /\ data_len' = IF fits THEN w ELSE 0
     /\ pkt_len' = IF fits THEN w ELSE 0
     /\ overrun' = (overrun \/ (fits /\ HEADROOM + length > buf_len))
     /\ ok' = fits
     /\ inUse' = TRUE
     /\ UNCHANGED packetStructSize

Next ==
  \/ \E n \in Lengths :
       \/ SetPacketStructSize(n)
       \/ PrependMbuf(n) \/ AppendMbuf(n) \/ AdjMbuf(n) \/ TrimMbuf(n)
       \/ PktMbufAppend(n) \/ ResetAndAppend(n)
  \/ PktMbufReset

Spec == Init /\ [][Next]_vars

-----------------------------------------------------------------------------
(* Properties *)

(* The fields stay within the range of their C types. *)
TypeOK ==
  /\ data_off \in 0..(U16 - 1)
  /\ data_len \in 0..(U16 - 1)
  /\ pkt_len \in 0..(U32 - 1)
  /\ packetStructSize \in 0..HEADROOM
  /\ inUse \in BOOLEAN /\ ok \in BOOLEAN /\ overrun \in BOOLEAN

(* Whatever operations are applied, with lengths that a uint16 holds or     *)
(* that lose bits when they are converted to one, the packet lies inside    *)
(* the buffer of the mbuf.                                                  *)
DataInside == data_off + data_len <= buf_len

(* Prepending never eats into the packet structure that package packet     *)
(* keeps at the start of the headroom.                                     *)
StructKept == inUse => packetStructSize <= data_off

(* GetPktLenMbuf "returns amount of data in a given chain of Mbufs - whole  *)
(* packet", which for a packet of one segment is the length of its data.    *)
LenConsistent == pkt_len = data_len

(* What is left of that for lengths of any size: data_len is converted to   *)
(* 16 and pkt_len to 32 bits, and the low bits of both agree.               *)
LenCongruent == u16(pkt_len) = data_len

(* An accepted operation moves the ends of the data by the length it was    *)
(* given, as far as a uint16 holds it, without any of the fields wrapping   *)
(* around, and a refused one leaves the packet as it was.                   *)
MovesExactly ==
  [][\A n \in Lengths :
       /\ PrependMbuf(n) /\ ok' => /\ data_off' = data_off - u16(n)
                                   /\ data_off' + data_len' = data_off + data_len
       /\ AdjMbuf(n) /\ ok' => /\ data_off' = data_off + u16(n)
                               /\ data_off' + data_len' = data_off + data_len
       /\ AppendMbuf(n) /\ ok' => data_off' = data_off /\ data_len' = data_len + u16(n)
       /\ TrimMbuf(n) /\ ok' => data_off' = data_off /\ data_len' = data_len - u16(n)
       /\ (PrependMbuf(n) \/ AdjMbuf(n) \/ AppendMbuf(n) \/ TrimMbuf(n)) /\ ~ok' =>
            UNCHANGED mbufVars]_vars

(* Data whose length fits a uint16 is copied into the buffer only.          *)
CopiesFit ==
  [][\A n \in Lengths :
       n < U16 /\ (PktMbufAppend(n) \/ ResetAndAppend(n)) => UNCHANGED overrun]_vars

(* PktMbufAppend: "Error may be returned if there is not enough tailroom    *)
(* space in the last segment of mbuf", so nothing is copied behind it.      *)
NoOverrun == ~overrun

IInv ==
  /\ TypeOK /\ DataInside /\ LenCongruent
  /\ packetStructSize <= data_off
=============================================================================
