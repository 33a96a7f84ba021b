---------------------------- MODULE PacketProofs ----------------------------
(***************************************************************************)
(* Proofs about MbufData, Packet and Checksum, for buffers, headrooms,     *)
(* word sizes and header lengths of any size.                              *)
(*                                                                         *)
(* The mbuf: IInv is inductive.  That a length passed the test of an       *)
(* operation bounds it by data_off, data_len or the tail room, and         *)
(* DataInside turns that bound into the absence of any wrap-around, action *)
(* by action.                                                              *)
(*                                                                         *)
(* Packets: PInv adds that Ether is the start of the data, MemInv that the *)
(* data holds the headers of the frame.  A parser is then followed from    *)
(* header to header.                                                       *)
(*                                                                         *)
(* Checksums: folding a sum keeps it modulo W - 1, so that it is enough to *)
(* show that code and receiver add up the same words.                      *)
(***************************************************************************)
EXTENDS Packet, WellFoundedInduction, TLAPS

-----------------------------------------------------------------------------
(* The data area of an mbuf. *)

(* Converting a value that is in range to an unsigned type does not change it. *)
LEMMA ModSmall ==
  ASSUME NEW m \in Nat \ {0}, NEW x \in 0..(m - 1)
  PROVE  x % m = x
<1>1. x = m * (x \div m) + (x % m) /\ x % m \in 0..(m - 1) /\ x \div m \in Int
  OBVIOUS
<1>2. x \div m = 0
  OBVIOUS
<1>3. QED
  BY <1>1, <1>2

(* The conversions to uint16_t and uint32_t keep every value that fits.    *)
LEMMA Conversions ==
  /\ \A x \in 0..(U16 - 1) : u16(x) = x
  /\ \A x \in 0..(U16 - 1) : u32(x) = x
<1>1. ASSUME NEW x \in 0..(U16 - 1) PROVE u16(x) = x
  BY ModSmall, MbufDataAssumption DEF u16
<1>2. ASSUME NEW x \in 0..(U16 - 1) PROVE u32(x) = x
  <2>1. U32 \in Nat \ {0} /\ x \in 0..(U32 - 1)
    BY MbufDataAssumption
  <2>2. QED
    BY <2>1, ModSmall DEF u32
<1>3. QED
  BY <1>1, <1>2

(* Products of numbers. *)
LEMMA Products ==
  ASSUME NEW m \in Int, NEW p \in Int, NEW q \in Int
  PROVE  /\ m * p \in Int /\ m * (p + q) = m * p + m * q /\ m * (p - q) = m * p - m * q
         /\ m >= 0 /\ p >= 1 => m * p >= m
         /\ m >= 0 /\ p <= 0 => m * p <= 0
         /\ m * 0 = 0 /\ m * 1 = m
<1>1. m * p \in Int /\ m * (p + q) = m * p + m * q /\ m * (p - q) = m * p - m * q
  OBVIOUS
<1>2. m >= 0 /\ p >= 1 => m * p >= m
  OBVIOUS
<1>3. m >= 0 /\ p <= 0 => m * p <= 0
  OBVIOUS
<1>4. QED
  BY <1>1, <1>2, <1>3

(* Numbers that differ by a multiple of m and by less than m are equal. *)
LEMMA NoMultiple ==
  ASSUME NEW m \in Nat \ {0}, NEW x \in Int, NEW y \in Int, x - y < m, y - x < m,
         NEW q \in Int, x - y = m * q
  PROVE  x = y /\ q = 0
<1>1. q < 1
  BY Products
<1>2. -q < 1
  <2>1. m * (0 - q) = y - x
    BY Products
  <2>2. 0 - q < 1
    <3>1. PICK p \in Int : p = 0 - q
      OBVIOUS
    <3>2. p >= 1 => m * p >= m
      BY Products
    <3>3. QED
      BY <2>1, <3>1, <3>2
  <2>3. QED
    BY <2>2
<1>3. q = 0
  BY <1>1, <1>2
<1>4. QED
  BY <1>3, Products

(* A conversion to an unsigned type takes off a multiple of its size. *)
LEMMA Remainder ==
  ASSUME NEW s \in Nat \ {0}, NEW x \in Int
  PROVE  x % s \in 0..(s - 1) /\ \E q \in Int : x = (x % s) + s * q
<1>1. x = s * (x \div s) + (x % s) /\ x % s \in 0..(s - 1) /\ x \div s \in Int
  OBVIOUS
<1>2. PICK q \in Int : q = x \div s
  BY <1>1
<1>3. PICK r \in 0..(s - 1) : r = x % s
  BY <1>1
<1>4. PICK z \in Int : z = s * q
  OBVIOUS
<1>5. x = z + r
  BY <1>1, <1>2, <1>3, <1>4
<1>6. x = r + s * q
  BY <1>4, <1>5
<1>7. QED
  BY <1>3, <1>6

(* Numbers that differ by a multiple of the divisor have the same remainder. *)
LEMMA SameRemainder ==
  ASSUME NEW s \in Nat \ {0}, NEW x \in Int, NEW y \in Int, NEW k \in Int, x = y + s * k
  PROVE  x % s = y % s
<1>1. PICK r \in 0..(s - 1), q \in Int : r = x % s /\ x = r + s * q
  BY Remainder
<1>2. PICK t \in 0..(s - 1), p \in Int : t = y % s /\ y = t + s * p
  BY Remainder
<1>3. PICK e \in Int : e = p + k
  OBVIOUS
<1>4. PICK d \in Int : d = e - q
  OBVIOUS
<1>5. s * e = s * p + s * k /\ s * d = s * e - s * q
  BY <1>3, <1>4, Products
<1>6. r - t = s * d
  <2>1. PICK a \in Int, b \in Int, c \in Int, f \in Int, g \in Int :
          a = s * p /\ b = s * k /\ c = s * q /\ f = s * e /\ g = s * d
    OBVIOUS
  <2>2. x = r + c /\ y = t + a /\ x = y + b /\ f = a + b /\ g = f - c
    BY <1>1, <1>2, <1>5, <2>1
  <2>3. r - t = g
    BY <2>2
  <2>4. QED
    BY <2>1, <2>3
<1>7. r = t
  BY <1>6, NoMultiple
<1>8. QED
  BY <1>1, <1>2, <1>7

(* The low 16 bits of a number are those of its low 32 bits, and those of  *)
(* the low 16 bits of its parts.                                           *)
LEMMA Assoc ==
  ASSUME NEW x \in Int, NEW y \in Int, NEW z \in Int
  PROVE  (x * y) * z = x * (y * z) /\ y * z \in Int
  OBVIOUS

LEMMA LowOfLow ==
  ASSUME NEW x \in Int
  PROVE  u32(x) \in 0..(U32 - 1) /\ u16(u32(x)) = u16(x) /\ u16(x) \in 0..(U16 - 1)
<1>0. U16 \in Nat \ {0} /\ U32 \in Nat \ {0} /\ U32 % U16 = 0
  BY MbufDataAssumption
<1>1. u16(x) \in 0..(U16 - 1)
  BY <1>0, Remainder DEF u16
<1>2. PICK c \in Int : U32 = 0 + U16 * c
  BY <1>0, Remainder
<1>3. PICK w \in 0..(U32 - 1), q \in Int : w = u32(x) /\ x = w + U32 * q
  <2>1. u32(x) \in 0..(U32 - 1) /\ \E q \in Int : x = u32(x) + U32 * q
    BY <1>0, Remainder DEF u32
  <2>2. QED
    BY <2>1, Zenon
<1>4. PICK k \in Int : k = c * q
  BY <1>2, <1>3
<1>5. U32 * q = U16 * k
  <2>1. U32 = U16 * c
    BY <1>0, <1>2
  <2>2. U32 * q = (U16 * c) * q
    BY <2>1, Zenon
  <2>3. QED
    BY <1>0, <1>4, <2>2, Assoc
<1>6. x = w + U16 * k
  BY <1>3, <1>5, Zenon
<1>7. w \in Int
  BY <1>0
<1>8. x % U16 = w % U16
  BY <1>0, <1>6, <1>7, SameRemainder
<1>9. QED
  BY <1>1, <1>3, <1>8 DEF u16

LEMMA LowOfParts ==
  ASSUME NEW x \in Int, NEW y \in Int
  PROVE  u16(x + y) = u16(u16(x) + u16(y)) /\ u16(x - y) = u16(u16(x) - u16(y))
<1>0. U16 \in Nat \ {0}
  BY MbufDataAssumption
<1>1. PICK a \in 0..(U16 - 1), q \in Int : a = u16(x) /\ x = a + U16 * q
  BY <1>0, Remainder DEF u16
<1>2. PICK b \in 0..(U16 - 1), p \in Int : b = u16(y) /\ y = b + U16 * p
  BY <1>0, Remainder DEF u16
<1>3. PICK i \in Int, j \in Int : i = q + p /\ j = q - p
  OBVIOUS
<1>4. PICK f \in Int, g \in Int : f = U16 * q /\ g = U16 * p
  BY <1>0
<1>5. U16 * i = f + g /\ U16 * j = f - g
  BY <1>0, <1>3, <1>4, Products
<1>6. PICK s \in Int, t \in Int, u \in Int, v \in Int :
        s = x + y /\ t = a + b /\ u = x - y /\ v = a - b
  BY <1>0
<1>7. s = t + (f + g) /\ u = v + (f - g)
  <2>1. x = a + f /\ y = b + g
    BY <1>1, <1>2, <1>4, Zenon
  <2>2. a \in Int /\ b \in Int
    BY <1>0
  <2>3. QED
    BY <1>6, <2>1, <2>2
<1>8. s = t + U16 * i /\ u = v + U16 * j
  BY <1>5, <1>7
<1>9. s % U16 = t % U16 /\ u % U16 = v % U16
  BY <1>0, <1>8, SameRemainder
<1>10. QED
  BY <1>1, <1>2, <1>6, <1>9 DEF u16

(* The low 16 bits of a 32-bit sum or difference, from those of its parts. *)
LEMMA LowBits ==
  ASSUME NEW x \in Int, NEW y \in Int
  PROVE  /\ u32(x + u32(y)) \in 0..(U32 - 1) /\ u16(u32(x + u32(y))) = u16(u16(x) + u16(y))
         /\ u32(x - u32(y)) \in 0..(U32 - 1) /\ u16(u32(x - u32(y))) = u16(u16(x) - u16(y))
<1>0. U32 \in Nat \ {0}
  BY MbufDataAssumption
<1>1. PICK z \in 0..(U32 - 1) : z = u32(y)
  BY LowOfLow
<1>2. z \in Int /\ u16(z) = u16(y)
  BY <1>0, <1>1, LowOfLow
<1>3. PICK s \in Int, t \in Int : s = x + z /\ t = x - z
  BY <1>2
<1>4. u16(s) = u16(u16(x) + u16(y)) /\ u16(t) = u16(u16(x) - u16(y))
  <2>1. /\ u16(x + z) = u16(u16(x) + u16(z))
        /\ u16(x - z) = u16(u16(x) - u16(z))
    BY <1>2, LowOfParts
  <2>2. QED
    BY <1>2, <1>3, <2>1, Zenon
<1>5. /\ u32(s) \in 0..(U32 - 1) /\ u16(u32(s)) = u16(s)
      /\ u32(t) \in 0..(U32 - 1) /\ u16(u32(t)) = u16(t)
  BY LowOfLow
<1>6. QED
  BY <1>1, <1>3, <1>4, <1>5

(* What becomes of pkt_len, given that data_len does not wrap around. *)
LEMMA PktLenMoves ==
  ASSUME IInv, NEW n \in Nat
  PROVE  /\ u16(n) \in 0..(U16 - 1) /\ u16(u16(n)) = u16(n) /\ u32(u16(n)) = u16(n)
         /\ u32(pkt_len + u32(n)) \in 0..(U32 - 1)
         /\ data_len + u16(n) < U16 => u16(u32(pkt_len + u32(n))) = data_len + u16(n)
         /\ u32(pkt_len - u32(n)) \in 0..(U32 - 1)
         /\ u16(n) <= data_len => u16(u32(pkt_len - u32(n))) = data_len - u16(n)
         /\ u32(pkt_len + u16(n)) \in 0..(U32 - 1)
         /\ data_len + u16(n) < U16 => u16(u32(pkt_len + u16(n))) = data_len + u16(n)
<1>0. U16 \in Nat \ {0} /\ U32 \in Nat \ {0}
  BY MbufDataAssumption
<1>1. PICK w \in 0..(U16 - 1) : w = u16(n)
  BY <1>0, Remainder DEF u16
<1>2. u16(w) = w /\ u32(w) = w
  BY <1>1, Conversions
<1>3. pkt_len \in Int /\ u16(pkt_len) = data_len /\ data_len \in 0..(U16 - 1)
  BY <1>0 DEF IInv, TypeOK, LenCongruent
<1>4. /\ u32(pkt_len + u32(n)) \in 0..(U32 - 1) /\ u16(u32(pkt_len + u32(n))) = u16(data_len + w)
      /\ u32(pkt_len - u32(n)) \in 0..(U32 - 1) /\ u16(u32(pkt_len - u32(n))) = u16(data_len - w)
  BY <1>1, <1>3, LowBits
<1>5. /\ u32(pkt_len + w) \in 0..(U32 - 1) /\ u16(u32(pkt_len + w)) = u16(data_len + w)
  <2>1. w \in Int
    BY <1>0
  <2>2. QED
    BY <1>2, <1>3, <2>1, LowBits
<1>6. ASSUME data_len + w < U16 PROVE u16(data_len + w) = data_len + w
  <2>1. data_len + w \in 0..(U16 - 1)
    BY <1>0, <1>3, <1>6
  <2>2. QED
    BY <2>1, Conversions
<1>7. ASSUME w <= data_len PROVE u16(data_len - w) = data_len - w
  <2>1. data_len - w \in 0..(U16 - 1)
    BY <1>0, <1>3, <1>7
  <2>2. QED
    BY <2>1, Conversions
<1>8. QED
  BY <1>1, <1>2, <1>4, <1>5, <1>6, <1>7

(* A freshly allocated mbuf satisfies the invariant. *)
LEMMA InitEstablishes == Init => IInv
<1> SUFFICES ASSUME Init PROVE IInv
  OBVIOUS
<1>1. inUse \in BOOLEAN /\ ok \in BOOLEAN /\ overrun \in BOOLEAN
  BY DEF Init
<1>2. /\ data_off = HEADROOM /\ data_len = 0 /\ pkt_len = 0 /\ packetStructSize = 0
  BY DEF Init
<1>3. u16(0) = 0
  BY Conversions, MbufDataAssumption
<1>4. QED
  BY <1>1, <1>2, <1>3, MbufDataAssumption DEF IInv, TypeOK, DataInside, LenCongruent

(* An operation that refuses changes nothing the invariant speaks about. *)
LEMMA RefuseKeeps == IInv /\ Refuse => IInv' /\ UNCHANGED mbufVars
<1> SUFFICES ASSUME IInv, Refuse PROVE IInv' /\ UNCHANGED mbufVars
  OBVIOUS
<1>1. inUse' \in BOOLEAN /\ ok' \in BOOLEAN
  BY DEF Refuse
<1>2. UNCHANGED <<data_off, data_len, pkt_len, packetStructSize, overrun>> /\ UNCHANGED mbufVars
  BY DEF Refuse, mbufVars
<1>3. QED
  BY <1>1, <1>2 DEF IInv, TypeOK, DataInside, LenCongruent

(* SetPacketStructSize runs before the first packet, when data_off still   *)
(* is where it was; a size beyond the headroom is refused.                 *)
LEMMA SetPacketStructSizeKeeps ==
  ASSUME NEW n \in Nat, IInv, ~inUse => data_off = HEADROOM, SetPacketStructSize(n)
  PROVE  IInv'
  BY MbufDataAssumption
     DEF IInv, SetPacketStructSize, mbufVars, TypeOK, DataInside, LenCongruent

(* PrependMbuf compares with data_off - packetStructSize, which does not   *)
(* wrap, so what is prepended fits between the structure and the data.     *)
LEMMA PrependMbufKeeps ==
  ASSUME NEW n \in Nat, IInv, PrependMbuf(n)
  PROVE  /\ IInv'
         /\ ok' => /\ data_off' = data_off - u16(n)
                   /\ data_off' + data_len' = data_off + data_len
         /\ ~ok' => UNCHANGED mbufVars
<1> USE MbufDataAssumption
<1>1. CASE Refuse
  BY <1>1, RefuseKeeps DEF Refuse
<1>2. CASE ~Refuse
  <2>1. PICK w \in 0..(U16 - 1) : w = u16(n)
    BY PktLenMoves
  <2>2. u16(data_off - packetStructSize) = data_off - packetStructSize
    <3>1. data_off - packetStructSize \in 0..(U16 - 1)
      BY DEF IInv, TypeOK
    <3>2. QED
      BY <3>1, Conversions
  <2>3. /\ w <= data_off - packetStructSize
        /\ data_off' = u16(data_off - w)
        /\ data_len' = u16(data_len + w)
        /\ pkt_len' = u32(pkt_len + u32(n))
        /\ ok' = TRUE /\ inUse' = TRUE
        /\ UNCHANGED <<packetStructSize, overrun>>
    BY <1>2, <2>1, <2>2 DEF PrependMbuf, Accept
  <2>4. data_off - w \in 0..(U16 - 1) /\ data_len + w \in 0..(U16 - 1) /\ data_len + w < U16
    BY <2>3 DEF IInv, TypeOK, DataInside
  <2>5. data_off' = data_off - w /\ data_len' = data_len + w
    BY <2>3, <2>4, Conversions
  <2>6. pkt_len' \in 0..(U32 - 1) /\ u16(pkt_len') = data_len'
    BY <2>1, <2>3, <2>4, <2>5, PktLenMoves
  <2>7. data_off' + data_len' = data_off + data_len /\ packetStructSize <= data_off'
    <3>1. /\ data_off \in Int /\ data_len \in Int /\ packetStructSize \in Int /\ w \in Int
          /\ w <= data_off - packetStructSize /\ packetStructSize' = packetStructSize
          /\ data_off' = data_off - w /\ data_len' = data_len + w
      BY <2>3, <2>5 DEF IInv, TypeOK
    <3> HIDE MbufDataAssumption
    <3>2. QED
      BY <3>1
  <2>8. IInv'
    BY <2>3, <2>4, <2>5, <2>6, <2>7 DEF IInv, TypeOK, DataInside, LenCongruent
  <2>9. QED
    BY <2>1, <2>3, <2>5, <2>7, <2>8
<1>3. QED
  BY <1>1, <1>2

(* The tail room computed in uint16 arithmetic is the room there is. *)
LEMMA TailRoom ==
  ASSUME IInv
  PROVE  TailRoomSize = buf_len - data_off - data_len
<1>1. buf_len - data_off - data_len \in 0..(U16 - 1)
  BY MbufDataAssumption DEF IInv, TypeOK, DataInside
<1>2. QED
  BY <1>1, Conversions DEF TailRoomSize

(* AppendMbuf extends the data into the tail room and no further. *)
LEMMA AppendMbufKeeps ==
  ASSUME NEW n \in Nat, IInv, AppendMbuf(n)
  PROVE  /\ IInv'
         /\ ok' => data_off' = data_off /\ data_len' = data_len + u16(n)
         /\ ~ok' => UNCHANGED mbufVars
<1> USE MbufDataAssumption
<1>1. CASE Refuse
  BY <1>1, RefuseKeeps DEF Refuse
<1>2. CASE ~Refuse
  <2>1. PICK w \in 0..(U16 - 1) : w = u16(n)
    BY PktLenMoves
  <2>2. /\ w <= buf_len - data_off - data_len
        /\ data_len' = u16(data_len + w)
        /\ pkt_len' = u32(pkt_len + u32(n))
        /\ ok' = TRUE /\ inUse' = TRUE
        /\ UNCHANGED <<data_off, packetStructSize, overrun>>
    BY <1>2, <2>1, TailRoom DEF AppendMbuf, Accept
  <2>3. data_len + w \in 0..(U16 - 1) /\ data_len + w < U16 /\ data_off + (data_len + w) <= buf_len
    BY <2>2 DEF IInv, TypeOK, DataInside
  <2>4. data_len' = data_len + w
    BY <2>2, <2>3, Conversions
  <2>5. pkt_len' \in 0..(U32 - 1) /\ u16(pkt_len') = data_len'
    BY <2>1, <2>2, <2>3, <2>4, PktLenMoves
  <2>6. IInv'
    BY <2>2, <2>3, <2>4, <2>5 DEF IInv, TypeOK, DataInside, LenCongruent
  <2>7. QED
    BY <2>1, <2>2, <2>4, <2>6
<1>3. QED
  BY <1>1, <1>2

(* AdjMbuf removes at most the data there is from its front. *)
LEMMA AdjMbufKeeps ==
  ASSUME NEW n \in Nat, IInv, AdjMbuf(n)
  PROVE  /\ IInv'
         /\ ok' => /\ data_off' = data_off + u16(n)
                   /\ data_off' + data_len' = data_off + data_len
         /\ ~ok' => UNCHANGED mbufVars
<1> USE MbufDataAssumption
<1>1. CASE Refuse
  BY <1>1, RefuseKeeps DEF Refuse
<1>2. CASE ~Refuse
  <2>1. PICK w \in 0..(U16 - 1) : w = u16(n)
    BY PktLenMoves
  <2>2. /\ w <= data_len
        /\ data_off' = u16(data_off + w)
        /\ data_len' = u16(data_len - w)
        /\ pkt_len' = u32(pkt_len - u32(n))
        /\ ok' = TRUE /\ inUse' = TRUE
        /\ UNCHANGED <<packetStructSize, overrun>>
    BY <1>2, <2>1 DEF AdjMbuf, Accept
  <2>3. data_off + w \in 0..(U16 - 1) /\ data_len - w \in 0..(U16 - 1)
    BY <2>2 DEF IInv, TypeOK, DataInside
  <2>4. data_off' = data_off + w /\ data_len' = data_len - w
    BY <2>2, <2>3, Conversions
  <2>5. pkt_len' \in 0..(U32 - 1) /\ u16(pkt_len') = data_len'
    BY <2>1, <2>2, <2>4, PktLenMoves
  <2>6. data_off' + data_len' = data_off + data_len /\ packetStructSize <= data_off'
    BY <2>2, <2>3, <2>4 DEF IInv, TypeOK
  <2>7. IInv'
    BY <2>2, <2>3, <2>4, <2>5, <2>6 DEF IInv, TypeOK, DataInside, LenCongruent
  <2>8. QED
    BY <2>1, <2>2, <2>4, <2>6, <2>7
<1>3. QED
  BY <1>1, <1>2

(* TrimMbuf removes at most the data there is from its end. *)
LEMMA TrimMbufKeeps ==
  ASSUME NEW n \in Nat, IInv, TrimMbuf(n)
  PROVE  /\ IInv'
         /\ ok' => data_off' = data_off /\ data_len' = data_len - u16(n)
         /\ ~ok' => UNCHANGED mbufVars
<1> USE MbufDataAssumption
<1>1. CASE Refuse
  BY <1>1, RefuseKeeps DEF Refuse
<1>2. CASE ~Refuse
  <2>1. PICK w \in 0..(U16 - 1) : w = u16(n)
    BY PktLenMoves
  <2>2. /\ w <= data_len
        /\ data_len' = u16(data_len - w)
        /\ pkt_len' = u32(pkt_len - u32(n))
        /\ ok' = TRUE /\ inUse' = TRUE
        /\ UNCHANGED <<data_off, packetStructSize, overrun>>
    BY <1>2, <2>1 DEF TrimMbuf, Accept
  <2>3. data_len - w \in 0..(U16 - 1)
    BY <2>2 DEF IInv, TypeOK, DataInside
  <2>4. data_len' = data_len - w
    BY <2>2, <2>3, Conversions
  <2>5. pkt_len' \in 0..(U32 - 1) /\ u16(pkt_len') = data_len'
    BY <2>1, <2>2, <2>4, PktLenMoves
  <2>6. IInv'
    BY <2>2, <2>3, <2>4, <2>5 DEF IInv, TypeOK, DataInside, LenCongruent
  <2>7. QED
    BY <2>1, <2>2, <2>4, <2>6
<1>3. QED
  BY <1>1, <1>2

(* PktMbufAppend reserves what a uint16 holds of the length of the data,   *)
(* and copies all of it.                                                   *)
LEMMA PktMbufAppendKeeps ==
  ASSUME NEW n \in Nat, IInv, PktMbufAppend(n)
  PROVE  IInv' /\ (n < U16 => UNCHANGED overrun)
<1> USE MbufDataAssumption
<1>1. CASE Refuse
  BY <1>1, RefuseKeeps DEF Refuse
<1>2. CASE ~Refuse
  <2>1. PICK w \in 0..(U16 - 1) : w = u16(n)
    BY PktLenMoves
  <2>2. /\ w <= buf_len - data_off - data_len
        /\ data_len' = u16(data_len + w)
        /\ pkt_len' = u32(pkt_len + u16(n))
        /\ overrun' = (overrun \/ data_off + data_len + n > buf_len)
        /\ ok' = TRUE /\ inUse' = TRUE
        /\ UNCHANGED <<data_off, packetStructSize>>
    BY <1>2, <2>1, TailRoom DEF PktMbufAppend, Accept
  <2>3. data_len + w \in 0..(U16 - 1) /\ data_len + w < U16 /\ data_off + (data_len + w) <= buf_len
    BY <2>2 DEF IInv, TypeOK, DataInside
  <2>4. data_len' = data_len + w
    BY <2>2, <2>3, Conversions
  <2>5. pkt_len' \in 0..(U32 - 1) /\ u16(pkt_len') = data_len'
    BY <2>1, <2>2, <2>3, <2>4, PktLenMoves
  <2>6. overrun' \in BOOLEAN
    BY <2>2, Zenon DEF IInv, TypeOK
  <2>7. IInv'
    BY <2>2, <2>3, <2>4, <2>5, <2>6 DEF IInv, TypeOK, DataInside, LenCongruent
  <2>8. ASSUME n < U16 PROVE UNCHANGED overrun
    <3>1. w = n
      BY <2>1, <2>8, Conversions
    <3>2. ~(data_off + data_len + n > buf_len)
      BY <2>3, <3>1 DEF IInv, TypeOK
    <3>3. QED
      BY <2>2, <3>2, Zenon DEF IInv, TypeOK
  <2>9. QED
    BY <2>7, <2>8
<1>3. QED
  BY <1>1, <1>2

(* PktMbufReset gives the buffer back its initial layout. *)
LEMMA PktMbufResetKeeps == IInv /\ PktMbufReset => IInv'
<1>1. u16(0) = 0
  BY Conversions, MbufDataAssumption
<1>2. QED
  BY <1>1, MbufDataAssumption
     DEF IInv, PktMbufReset, Accept, TypeOK, DataInside, LenCongruent

(* ResetAndAppend resets in any case and appends what fits behind the headroom. *)
LEMMA ResetAndAppendKeeps ==
  ASSUME NEW n \in Nat, IInv, ResetAndAppend(n)
  PROVE  IInv' /\ (n < U16 => UNCHANGED overrun)
<1> USE MbufDataAssumption
<1>1. PICK w \in 0..(U16 - 1) : w = u16(n)
  BY PktLenMoves
<1>2. /\ data_off' = HEADROOM
      /\ data_len' = IF w <= buf_len - HEADROOM THEN w ELSE 0
      /\ pkt_len' = data_len'
      /\ overrun' = (overrun \/ (w <= buf_len - HEADROOM /\ HEADROOM + n > buf_len))
      /\ ok' = (w <= buf_len - HEADROOM)
      /\ inUse' = TRUE /\ UNCHANGED packetStructSize
  BY <1>1 DEF ResetAndAppend
<1>3. data_len' \in 0..(U16 - 1) /\ HEADROOM + data_len' <= buf_len /\ data_len' \in 0..(U32 - 1)
  BY <1>2
<1>4. u16(data_len') = data_len'
  BY <1>3, Conversions
<1>5. overrun' \in BOOLEAN /\ ok' \in BOOLEAN
  <2> HIDE MbufDataAssumption
  <2>1. \A a, b, c : (a \/ (b /\ c)) \in BOOLEAN /\ (b = TRUE \/ b = FALSE => b \in BOOLEAN)
    OBVIOUS
  <2>2. (w <= buf_len - HEADROOM) \in BOOLEAN
    OBVIOUS
  <2>3. QED
    BY <1>2, <2>1, <2>2
<1>6. IInv'
  BY <1>2, <1>3, <1>4, <1>5 DEF IInv, TypeOK, DataInside, LenCongruent
<1>7. ASSUME n < U16 PROVE UNCHANGED overrun
  <2>1. w = n
    BY <1>1, <1>7, Conversions
  <2>2. ~(w <= buf_len - HEADROOM /\ HEADROOM + n > buf_len)
    BY <2>1
  <2>3. QED
    BY <1>2, <2>2, Zenon DEF IInv, TypeOK
<1>8. QED
  BY <1>6, <1>7

(* Before the first packet the data still starts behind the headroom. *)
Untouched == ~inUse => data_off = HEADROOM

(* Every operation keeps the invariant, whatever length it is given. *)
LEMMA NextKeeps ==
  ASSUME IInv /\ Untouched, [Next]_vars
  PROVE  IInv' /\ Untouched'
<1>0. \A n \in Lengths : n \in Nat
  BY MbufDataAssumption
<1>1. ASSUME NEW n \in Lengths, SetPacketStructSize(n)
      PROVE  IInv' /\ Untouched'
  BY <1>0, <1>1, SetPacketStructSizeKeeps DEF Untouched, SetPacketStructSize, mbufVars
<1>2. ASSUME NEW n \in Lengths,
             PrependMbuf(n) \/ AppendMbuf(n) \/ AdjMbuf(n) \/ TrimMbuf(n)
             \/ PktMbufAppend(n) \/ ResetAndAppend(n)
      PROVE  IInv' /\ Untouched'
  <2>1. IInv'
    BY <1>0, <1>2, PrependMbufKeeps, AppendMbufKeeps, AdjMbufKeeps, TrimMbufKeeps,
       PktMbufAppendKeeps, ResetAndAppendKeeps
  <2>2. inUse' = TRUE
    BY <1>2 DEF PrependMbuf, AppendMbuf, AdjMbuf, TrimMbuf, PktMbufAppend,
                ResetAndAppend, Refuse, Accept
  <2>3. QED
    BY <2>1, <2>2 DEF Untouched
<1>3. CASE PktMbufReset
  BY <1>3, PktMbufResetKeeps DEF Untouched, PktMbufReset, Accept
<1>4. CASE UNCHANGED vars
  BY <1>4 DEF vars, mbufVars, IInv, Untouched, TypeOK, DataInside, LenCongruent
<1>5. QED
  BY <1>1, <1>2, <1>3, <1>4 DEF Next

(* The invariant holds for ever, for every buffer, headroom and word size, *)
(* and for lengths that a uint16 does not hold too.                        *)
THEOREM Inductive == Spec => [](IInv /\ Untouched)
<1>1. Init => IInv /\ Untouched
  BY InitEstablishes DEF Init, Untouched
<1>2. IInv /\ Untouched /\ [Next]_vars => (IInv /\ Untouched)'
  BY NextKeeps
<1>3. QED
  BY <1>1, <1>2, PTL DEF Spec

(* The fields of the mbuf never leave the range of their C types. *)
THEOREM TypeCorrect == Spec => []TypeOK
  BY Inductive, PTL DEF IInv

(* The packet never leaves the buffer. *)
THEOREM DataInsideThm == Spec => []DataInside
  BY Inductive, PTL DEF IInv

(* No sequence of operations reaches into the packet structure. *)
THEOREM StructKeptThm == Spec => []StructKept
<1>1. IInv => StructKept
  BY DEF IInv, StructKept
<1>2. QED
  BY <1>1, Inductive, PTL

(* data_len is what a uint16 holds of pkt_len after every operation, also  *)
(* after those whose length is converted to fewer bits in one of them.     *)
THEOREM LenCongruentThm == Spec => []LenCongruent
  BY Inductive, PTL DEF IInv

(* What the operations do to the ends of the data. *)
LEMMA Moves ==
  ASSUME IInv, NEW n \in Lengths
  PROVE  /\ PrependMbuf(n) /\ ok' => /\ data_off' = data_off - u16(n)
                                     /\ data_off' + data_len' = data_off + data_len
         /\ AdjMbuf(n) /\ ok' => /\ data_off' = data_off + u16(n)
                                 /\ data_off' + data_len' = data_off + data_len
         /\ AppendMbuf(n) /\ ok' => data_off' = data_off /\ data_len' = data_len + u16(n)
         /\ TrimMbuf(n) /\ ok' => data_off' = data_off /\ data_len' = data_len - u16(n)
         /\ (PrependMbuf(n) \/ AdjMbuf(n) \/ AppendMbuf(n) \/ TrimMbuf(n)) /\ ~ok' =>
              UNCHANGED mbufVars
         /\ n < U16 /\ (PktMbufAppend(n) \/ ResetAndAppend(n)) => UNCHANGED overrun
<1>1. n \in Nat
  BY MbufDataAssumption
<1>2. QED
  BY <1>1, PrependMbufKeeps, AppendMbufKeeps, AdjMbufKeeps, TrimMbufKeeps, PktMbufAppendKeeps,
     ResetAndAppendKeeps

(* Every accepted operation moves the ends of the data by what a uint16    *)
(* holds of its length, and no field wraps around.                         *)
THEOREM MovesExactlyThm == Spec => MovesExactly
<1>1. IInv =>
        [\A n \in Lengths :
           /\ PrependMbuf(n) /\ ok' => /\ data_off' = data_off - u16(n)
                                       /\ data_off' + data_len' = data_off + data_len
           /\ AdjMbuf(n) /\ ok' => /\ data_off' = data_off + u16(n)
                                   /\ data_off' + data_len' = data_off + data_len
           /\ AppendMbuf(n) /\ ok' => data_off' = data_off /\ data_len' = data_len + u16(n)
           /\ TrimMbuf(n) /\ ok' => data_off' = data_off /\ data_len' = data_len - u16(n)
           /\ (PrependMbuf(n) \/ AdjMbuf(n) \/ AppendMbuf(n) \/ TrimMbuf(n)) /\ ~ok' =>
                UNCHANGED mbufVars]_vars
  BY Moves
<1>2. QED
  BY <1>1, Inductive, PTL DEF MovesExactly

(* Data whose length a uint16 holds is never copied behind the buffer. *)
THEOREM CopiesFitThm == Spec => CopiesFit
<1>1. IInv =>
        [\A n \in Lengths :
           n < U16 /\ (PktMbufAppend(n) \/ ResetAndAppend(n)) => UNCHANGED overrun]_vars
  BY Moves
<1>2. QED
  BY <1>1, Inductive, PTL DEF CopiesFit

-----------------------------------------------------------------------------
(* Packets.  PktOK is what the functions of package packet rely on: memory *)
(* has the layout of the buffer, Ether follows the start of the data       *)
(* through every insertion and removal, and L2 is an address where it is   *)
(* read.                                                                   *)

Ptr == Int \cup {NULL}

Pkt == [L2 : Ptr, L3 : Ptr, L4 : Ptr, Data : Ptr, Ether : Ptr, OuterL2 : Ptr,
        OuterL3 : Ptr, OuterL4 : Ptr, Vxlan : Ptr, Overlay : BOOLEAN]

MemOK == DOMAIN buf = 0..(buf_len - 1) /\ \A a \in DOMAIN buf : buf[a].hl \in Int

PktOK ==
  /\ pkt \in Pkt /\ edits \in Nat
  /\ last # "none" => pkt.Ether = data_off
  /\ last = "ParseL2" => pkt.L2 = data_off
  /\ last = "VxlanDecap" => pkt.L2 \in Int

(* The lengths of the headers are positive and a uint16 holds at least 4   *)
(* values.                                                                 *)
LEMMA Lens ==
  /\ EtherLen \in Nat /\ EtherLen > 0 /\ ARPLen \in Nat /\ ARPLen > 0
  /\ IPv4MinLen \in Nat /\ IPv4MinLen > 0 /\ IPv6Len \in Nat /\ IPv6Len > 0
  /\ UDPLen \in Nat /\ UDPLen > 0 /\ TCPMinLen \in Nat /\ TCPMinLen > 0
  /\ ICMPLen \in Nat /\ ICMPLen > 0 /\ VXLANLen \in Nat /\ VXLANLen > 0
  /\ NDMessageSize \in Nat /\ NDMessageSize > 0 /\ NDOptionSize \in Nat /\ NDOptionSize > 0
  /\ U16 = W /\ W \in Nat /\ W > 3
<1>1. /\ EtherLen \in Nat \ {0} /\ ARPLen \in Nat \ {0} /\ IPv4MinLen \in Nat \ {0}
      /\ IPv6Len \in Nat \ {0} /\ UDPLen \in Nat \ {0} /\ TCPMinLen \in Nat \ {0}
      /\ ICMPLen \in Nat \ {0} /\ VXLANLen \in Nat \ {0} /\ NDMessageSize \in Nat \ {0}
      /\ NDOptionSize \in Nat \ {0} /\ B \in Nat \ {0, 1} /\ U16 = W
  BY PacketAssumption
<1>2. B * B \in Nat /\ B * B > 3
  BY <1>1
<1>3. QED
  BY <1>1, <1>2 DEF W

(* A frame has a length, and its parts fit into it. *)
LEMMA FrameLens ==
  ASSUME NEW f \in Frames
  PROVE  /\ f.pay \in Nat /\ Base(f) \in Nat /\ L3Len(f) \in Nat /\ L4Len(f) \in Nat
         /\ FrameLen(f) = Base(f) + EtherLen + L3Len(f) + L4Len(f) + f.pay
         /\ FrameLen(f) \in Nat
         /\ f.vxlan \in BOOLEAN /\ f.opt \in 0..1 /\ f.topt \in 0..1
         /\ f.type \in {"ipv4", "ipv6", "arp", "none"} /\ f.proto \in Protos
         /\ f.type = "ipv4" => L3Len(f) = IPv4MinLen + f.opt
         /\ f.type = "ipv6" => L3Len(f) = IPv6Len
         /\ f.proto = "udp" => L4Len(f) = UDPLen
         /\ f.proto = "tcp" => L4Len(f) = TCPMinLen + f.topt
         /\ f.proto \in {"icmp", "icmp6"} => L4Len(f) = ICMPLen
         /\ f.type \in {"arp", "none"} => f.proto = "none"
         /\ Base(f) = IF f.vxlan THEN EtherLen + IPv4MinLen + UDPLen + VXLANLen ELSE 0
<1>1. /\ f.pay \in Nat /\ f.vxlan \in BOOLEAN /\ f.opt \in 0..1 /\ f.topt \in 0..1
      /\ f.type \in {"ipv4", "ipv6", "arp", "none"} /\ f.proto \in Protos
      /\ f.type \in {"arp", "none"} => f.proto = "none"
  BY PacketAssumption DEF Frames
<1>2. /\ Base(f) = IF f.vxlan THEN EtherLen + IPv4MinLen + UDPLen + VXLANLen ELSE 0
      /\ Base(f) \in Nat
  BY <1>1, Lens DEF Base, OuterLen
<1>3. /\ L3Len(f) \in Nat
      /\ f.type = "ipv4" => L3Len(f) = IPv4MinLen + f.opt
      /\ f.type = "ipv6" => L3Len(f) = IPv6Len
  BY <1>1, Lens DEF L3Len
<1>4. /\ L4Len(f) \in Nat
      /\ f.proto = "udp" => L4Len(f) = UDPLen
      /\ f.proto = "tcp" => L4Len(f) = TCPMinLen + f.topt
      /\ f.proto \in {"icmp", "icmp6"} => L4Len(f) = ICMPLen
  BY <1>1, Lens DEF L4Len
<1>5. FrameLen(f) = Base(f) + EtherLen + L3Len(f) + L4Len(f) + f.pay /\ FrameLen(f) \in Nat
  BY <1>1, <1>2, <1>3, <1>4, Lens DEF FrameLen
<1>6. QED
  BY <1>1, <1>2, <1>3, <1>4, <1>5

(* What follows from p in all fields but L3, L4 and Data. *)
SameOuter(p, q) ==
  /\ q.L2 = p.L2 /\ q.Ether = p.Ether /\ q.OuterL2 = p.OuterL2 /\ q.OuterL3 = p.OuterL3
  /\ q.OuterL4 = p.OuterL4 /\ q.Vxlan = p.Vxlan /\ q.Overlay = p.Overlay

(* ParseL3 on a packet whose L2 is set. *)
LEMMA ParseL3Facts ==
  ASSUME NEW p \in Pkt, p.L2 \in Int
  PROVE  /\ ParseL3(p) \in Pkt /\ SameOuter(p, ParseL3(p)) /\ ParseL3(p).L4 = p.L4
         /\ ParseL3(p).Data = p.Data /\ ParseL3(p).L3 = p.L2 + EtherLen
<1>1. PICK x \in Int : x = p.L2 + EtherLen
  BY Lens
<1>2. ParseL3(p) = [p EXCEPT !.L3 = x]
  BY <1>1 DEF ParseL3
<1>3. x \in Ptr
  BY DEF Ptr
<1>4. /\ [p EXCEPT !.L3 = x] \in Pkt
      /\ [p EXCEPT !.L3 = x].L3 = x /\ [p EXCEPT !.L3 = x].L4 = p.L4
      /\ [p EXCEPT !.L3 = x].Data = p.Data /\ SameOuter(p, [p EXCEPT !.L3 = x])
  BY <1>3 DEF Pkt, SameOuter
<1>5. QED
  BY <1>1, <1>2, <1>4

(* Writing L4 leaves the rest of a Packet alone. *)
LEMMA SetL4 ==
  ASSUME NEW p \in Pkt, NEW x \in Int
  PROVE  /\ [p EXCEPT !.L4 = x] \in Pkt /\ SameOuter(p, [p EXCEPT !.L4 = x])
         /\ [p EXCEPT !.L4 = x].L3 = p.L3 /\ [p EXCEPT !.L4 = x].L4 = x
         /\ [p EXCEPT !.L4 = x].Data = p.Data
<1>1. x \in Ptr
  BY DEF Ptr
<1>2. QED
  BY <1>1 DEF Pkt, SameOuter

(* Writing Data leaves the rest of a Packet alone. *)
LEMMA SetData ==
  ASSUME NEW p \in Pkt, NEW x \in Int
  PROVE  /\ [p EXCEPT !.Data = x] \in Pkt /\ SameOuter(p, [p EXCEPT !.Data = x])
         /\ [p EXCEPT !.Data = x].L3 = p.L3 /\ [p EXCEPT !.Data = x].L4 = p.L4
         /\ [p EXCEPT !.Data = x].Data = x
<1>1. x \in Ptr
  BY DEF Ptr
<1>2. QED
  BY <1>1 DEF Pkt, SameOuter

(* Memory holds a length field everywhere. *)
LEMMA AtFacts ==
  ASSUME MemOK
  PROVE  /\ \A a : At(a).hl \in Int
         /\ \A a \in 0..(buf_len - 1) : At(a) = buf[a]
  BY DEF MemOK, At, Byte, Cell

(* ParseL4ForIPv4 and ParseL4ForIPv6 on a packet whose L3 is set. *)
LEMMA ParseL4Facts ==
  ASSUME MemOK, NEW p \in Pkt, p.L3 \in Int
  PROVE  /\ ParseL4ForIPv4(p) \in Pkt /\ SameOuter(p, ParseL4ForIPv4(p))
         /\ ParseL4ForIPv4(p).L3 = p.L3 /\ ParseL4ForIPv4(p).Data = p.Data
         /\ ParseL4ForIPv4(p).L4 = p.L3 + At(p.L3).hl
         /\ ParseL4ForIPv6(p) \in Pkt /\ SameOuter(p, ParseL4ForIPv6(p))
         /\ ParseL4ForIPv6(p).L3 = p.L3 /\ ParseL4ForIPv6(p).Data = p.Data
         /\ ParseL4ForIPv6(p).L4 = p.L3 + IPv6Len
<1>1. PICK x \in Int : x = p.L3 + At(p.L3).hl
  BY AtFacts
<1>2. PICK y \in Int : y = p.L3 + IPv6Len
  BY Lens
<1>3. ParseL4ForIPv4(p) = [p EXCEPT !.L4 = x] /\ ParseL4ForIPv6(p) = [p EXCEPT !.L4 = y]
  BY <1>1, <1>2 DEF ParseL4ForIPv4, ParseL4ForIPv6
<1>4. QED
  BY <1>1, <1>2, <1>3, SetL4

(* ParseAllKnownL3 and ParseAllKnownL4. *)
LEMMA ParseL3L4Facts ==
  ASSUME MemOK, NEW p \in Pkt, p.L2 \in Int
  PROVE  /\ ParseL3L4(p) \in Pkt /\ SameOuter(p, ParseL3L4(p))
         /\ ParseL3L4(p).L3 = p.L2 + EtherLen /\ ParseL3L4(p).Data = p.Data
         /\ ParseL3L4(p).L4 =
              CASE EtherType(p) = "ipv4" -> (p.L2 + EtherLen) + At(p.L2 + EtherLen).hl
                [] EtherType(p) = "ipv6" -> (p.L2 + EtherLen) + IPv6Len
                [] OTHER -> p.L4
<1>1. PICK q \in Pkt : /\ q = ParseL3(p) /\ SameOuter(p, q) /\ q.L4 = p.L4
                       /\ q.Data = p.Data /\ q.L3 = p.L2 + EtherLen
  BY ParseL3Facts
<1>2. q.L3 \in Int
  BY <1>1, Lens
<1>3. ParseL3L4(p) = CASE EtherType(p) = "ipv4" -> ParseL4ForIPv4(q)
                       [] EtherType(p) = "ipv6" -> ParseL4ForIPv6(q)
                       [] OTHER -> q
  BY <1>1 DEF ParseL3L4
<1>4. CASE EtherType(p) = "ipv4"
  BY <1>1, <1>2, <1>3, <1>4, ParseL4Facts DEF SameOuter
<1>5. CASE EtherType(p) = "ipv6"
  BY <1>1, <1>2, <1>3, <1>5, ParseL4Facts DEF SameOuter
<1>6. CASE EtherType(p) \notin {"ipv4", "ipv6"}
  BY <1>1, <1>3, <1>6
<1>7. QED
  BY <1>4, <1>5, <1>6

(* ParseL7 sets Data behind the header of a known protocol. *)
LEMMA ParseL7Facts ==
  ASSUME MemOK, NEW p \in Pkt, NEW proto, proto # "none" => p.L4 \in Int
  PROVE  /\ ParseL7(p, proto) \in Pkt /\ SameOuter(p, ParseL7(p, proto))
         /\ ParseL7(p, proto).L3 = p.L3 /\ ParseL7(p, proto).L4 = p.L4
         /\ proto = "tcp" => ParseL7(p, proto).Data = p.L4 + At(p.L4).hl
         /\ proto = "udp" => ParseL7(p, proto).Data = p.L4 + UDPLen
         /\ proto \in {"icmp", "icmp6"} => ParseL7(p, proto).Data = p.L4 + ICMPLen
<1>1. CASE proto = "tcp"
  <2>1. PICK x \in Int : x = p.L4 + At(p.L4).hl
    BY <1>1, AtFacts
  <2>2. ParseL7(p, proto) = [p EXCEPT !.Data = x]
    BY <1>1, <2>1 DEF ParseL7
  <2>3. proto # "udp" /\ proto \notin {"icmp", "icmp6"}
    BY <1>1
  <2>4. QED
    BY <2>1, <2>2, <2>3, SetData
<1>2. CASE proto = "udp"
  <2>1. PICK x \in Int : x = p.L4 + UDPLen
    BY <1>2, Lens
  <2>2. ParseL7(p, proto) = [p EXCEPT !.Data = x]
    BY <1>2, <2>1 DEF ParseL7
  <2>3. proto # "tcp" /\ proto \notin {"icmp", "icmp6"}
    BY <1>2
  <2>4. QED
    BY <2>1, <2>2, <2>3, SetData
<1>3. CASE proto \in {"icmp", "icmp6"}
  <2>1. PICK x \in Int : x = p.L4 + ICMPLen
    BY <1>3, Lens
  <2>2. ParseL7(p, proto) = [p EXCEPT !.Data = x]
    BY <1>3, <2>1 DEF ParseL7
  <2>3. proto # "tcp" /\ proto # "udp"
    BY <1>3
  <2>4. QED
    BY <2>1, <2>2, <2>3, SetData
<1>4. CASE proto \notin {"tcp", "udp", "icmp", "icmp6"}
  <2>1. ParseL7(p, proto) = p
    BY <1>4 DEF ParseL7
  <2>2. SameOuter(p, p)
    BY DEF SameOuter
  <2>3. QED
    BY <1>4, <2>1, <2>2
<1>5. QED
  BY <1>1, <1>2, <1>3, <1>4

(* The known transport protocol of the packet whose Ethernet header is at  *)
(* a, and where its transport header and its payload are.                  *)
ProtoAt(a) ==
  IF \/ At(a).p = "ipv4" /\ At(a + EtherLen).p \in {"udp", "tcp", "icmp"}
     \/ At(a).p = "ipv6" /\ At(a + EtherLen).p \in {"udp", "tcp", "icmp6"}
  THEN At(a + EtherLen).p ELSE "none"

L4At(a) ==
  IF At(a).p = "ipv4" THEN (a + EtherLen) + At(a + EtherLen).hl ELSE (a + EtherLen) + IPv6Len

DataAt(a) ==
  CASE ProtoAt(a) = "tcp" -> L4At(a) + At(L4At(a)).hl
    [] ProtoAt(a) = "udp" -> L4At(a) + UDPLen
    [] OTHER -> L4At(a) + ICMPLen

(* All layers, one after the other. *)
LEMMA ParseAllFacts ==
  ASSUME MemOK, NEW p \in Pkt, p.L2 \in Int, NEW q, q = ParseL3L4(p),
         NEW r, r = ParseL7(q, KnownL4(q))
  PROVE  /\ KnownL4(q) = ProtoAt(p.L2) /\ EtherType(q) = At(p.L2).p
         /\ r \in Pkt /\ SameOuter(p, r) /\ r.L3 = p.L2 + EtherLen
         /\ ProtoAt(p.L2) # "none" => r.L4 = L4At(p.L2) /\ r.Data = DataAt(p.L2)
<1>1. /\ q \in Pkt /\ SameOuter(p, q) /\ q.L3 = p.L2 + EtherLen
      /\ q.L4 = CASE EtherType(p) = "ipv4" -> (p.L2 + EtherLen) + At(p.L2 + EtherLen).hl
                  [] EtherType(p) = "ipv6" -> (p.L2 + EtherLen) + IPv6Len
                  [] OTHER -> p.L4
  BY ParseL3L4Facts
<1>2. EtherType(p) = At(p.L2).p /\ EtherType(q) = At(p.L2).p
  BY <1>1 DEF EtherType, SameOuter
<1>3. KnownL4(q) = ProtoAt(p.L2)
  BY <1>1, <1>2 DEF KnownL4, ProtoAt
<1>4. ProtoAt(p.L2) # "none" => At(p.L2).p = "ipv4" \/ At(p.L2).p = "ipv6"
  BY DEF ProtoAt
<1>5. ProtoAt(p.L2) # "none" => q.L4 = L4At(p.L2) /\ q.L4 \in Int
  <2>1. SUFFICES ASSUME ProtoAt(p.L2) # "none" PROVE q.L4 = L4At(p.L2) /\ q.L4 \in Int
    OBVIOUS
  <2>2. At(p.L2 + EtherLen).hl \in Int
    BY AtFacts
  <2>3. CASE At(p.L2).p = "ipv4"
    BY <1>1, <1>2, <2>2, <2>3, Lens DEF L4At
  <2>4. CASE At(p.L2).p = "ipv6"
    BY <1>1, <1>2, <2>4, Lens DEF L4At
  <2>5. QED
    BY <1>4, <2>1, <2>3, <2>4
<1>6. PICK proto : proto = KnownL4(q)
  OBVIOUS
<1>7. /\ r \in Pkt /\ SameOuter(q, r) /\ r.L3 = q.L3 /\ r.L4 = q.L4
      /\ proto = "tcp" => r.Data = q.L4 + At(q.L4).hl
      /\ proto = "udp" => r.Data = q.L4 + UDPLen
      /\ proto \in {"icmp", "icmp6"} => r.Data = q.L4 + ICMPLen
  BY <1>1, <1>3, <1>5, <1>6, ParseL7Facts
<1>8. SameOuter(p, r)
  BY <1>1, <1>7 DEF SameOuter
<1>9. ProtoAt(p.L2) # "none" => r.Data = DataAt(p.L2)
  <2>1. SUFFICES ASSUME ProtoAt(p.L2) # "none" PROVE r.Data = DataAt(p.L2)
    OBVIOUS
  <2>2. proto = ProtoAt(p.L2) /\ q.L4 = L4At(p.L2)
    BY <1>3, <1>5, <1>6, <2>1
  <2>3. proto \in {"udp", "tcp", "icmp", "icmp6"}
    BY <2>1, <2>2 DEF ProtoAt
  <2>4. CASE proto = "tcp"
    BY <1>7, <2>2, <2>4 DEF DataAt
  <2>5. CASE proto = "udp"
    BY <1>7, <2>2, <2>5 DEF DataAt
  <2>6. CASE proto \in {"icmp", "icmp6"}
    BY <1>7, <2>2, <2>6 DEF DataAt
  <2>7. QED
    BY <2>3, <2>4, <2>5, <2>6
<1>10. QED
  BY <1>1, <1>2, <1>3, <1>5, <1>7, <1>8, <1>9

(* ParseData finds the layers behind L2. *)
LEMMA ParseDataFacts ==
  ASSUME MemOK, pkt \in Pkt, pkt.L2 \in Int, ParseData
  PROVE  /\ pkt' \in Pkt /\ SameOuter(pkt, pkt') /\ pkt'.L3 = pkt.L2 + EtherLen
         /\ ok' = (ProtoAt(pkt.L2) # "none")
         /\ ProtoAt(pkt.L2) # "none" => /\ pkt'.L4 = L4At(pkt.L2)
                                        /\ pkt'.Data = DataAt(pkt.L2)
<1>1. PICK q : q = ParseL3L4(pkt)
  OBVIOUS
<1>2. pkt' = ParseL7(q, KnownL4(q)) /\ ok' = (KnownL4(q) # "none")
  BY <1>1 DEF ParseData, Parsed
<1>3. QED
  BY <1>1, <1>2, ParseAllFacts

(* The packet inside a tunnel whose UDP header is at p.L4. *)
LEMMA EnterOverlayFacts ==
  ASSUME NEW p \in Pkt, p.L4 \in Int
  PROVE  /\ EnterOverlay(p) \in Pkt /\ EnterOverlay(p).Ether = p.Ether
         /\ EnterOverlay(p).Overlay = TRUE
         /\ EnterOverlay(p).OuterL2 = p.L2 /\ EnterOverlay(p).OuterL3 = p.L3
         /\ EnterOverlay(p).OuterL4 = p.L4 /\ EnterOverlay(p).Vxlan = p.L4 + UDPLen
         /\ EnterOverlay(p).L2 = p.L4 + UDPLen + VXLANLen
<1>1. PICK x \in Int, y \in Int : x = p.L4 + UDPLen /\ y = p.L4 + UDPLen + VXLANLen
  BY Lens
<1>2. x \in Ptr /\ y \in Ptr /\ NULL \in Ptr
  BY DEF Ptr
<1> DEFINE E(r) == [r EXCEPT !.Overlay = TRUE, !.OuterL2 = r.L2, !.OuterL3 = r.L3,
                             !.OuterL4 = r.L4, !.Vxlan = x, !.L2 = y, !.L3 = NULL, !.L4 = NULL]
<1>3. EnterOverlay(p) = E(p)
  BY <1>1 DEF EnterOverlay
<1>4. /\ E(p) \in Pkt /\ E(p).Ether = p.Ether /\ E(p).Overlay = TRUE /\ E(p).OuterL2 = p.L2
      /\ E(p).OuterL3 = p.L3 /\ E(p).OuterL4 = p.L4 /\ E(p).Vxlan = x /\ E(p).L2 = y
  BY <1>2 DEF Pkt
<1>5. QED
  BY <1>1, <1>3, <1>4

(* A VXLAN tunnel starts at a; the packet inside it starts at Inner(a).    *)
Tunnel(a) ==
  At(a).p = "ipv4" /\ At(a + EtherLen).p = "udp" /\ At(L4At(a)).p = "4789"

Inner(a) == L4At(a) + UDPLen + VXLANLen

(* VxlanDecap recognises a tunnel and parses the packet inside it. *)
LEMMA VxlanDecapFacts ==
  ASSUME MemOK, pkt \in Pkt, data_off \in Int, VxlanDecap
  PROVE  /\ pkt' \in Pkt /\ pkt'.Ether = pkt.Ether
         /\ ~Tunnel(data_off) => pkt'.L2 = data_off /\ pkt'.Overlay = FALSE /\ ok' = FALSE
         /\ Tunnel(data_off) =>
              /\ pkt'.Overlay = TRUE /\ pkt'.OuterL2 = data_off
              /\ pkt'.OuterL3 = data_off + EtherLen /\ pkt'.OuterL4 = L4At(data_off)
              /\ pkt'.Vxlan = L4At(data_off) + UDPLen
              /\ pkt'.L2 = Inner(data_off) /\ Inner(data_off) \in Int
              /\ ok' = (At(pkt'.L2).p = "arp" \/ ProtoAt(pkt'.L2) # "none")
              /\ pkt'.L3 = pkt'.L2 + EtherLen
              /\ ProtoAt(pkt'.L2) # "none" => /\ pkt'.L4 = L4At(pkt'.L2)
                                              /\ pkt'.Data = DataAt(pkt'.L2)
<1>1. PICK c \in Pkt : /\ c = [pkt EXCEPT !.Overlay = FALSE, !.L2 = data_off]
                       /\ c.Overlay = FALSE /\ c.L2 = data_off /\ c.Ether = pkt.Ether
  <2>1. data_off \in Ptr
    BY DEF Ptr
  <2>2. \A r \in Pkt : /\ [r EXCEPT !.Overlay = FALSE, !.L2 = data_off] \in Pkt
                       /\ [r EXCEPT !.Overlay = FALSE, !.L2 = data_off].Overlay = FALSE
                       /\ [r EXCEPT !.Overlay = FALSE, !.L2 = data_off].L2 = data_off
                       /\ [r EXCEPT !.Overlay = FALSE, !.L2 = data_off].Ether = r.Ether
    BY <2>1 DEF Pkt
  <2>3. QED
    BY <2>2
<1>2. PICK g \in Pkt : /\ g = ParseL3(c) /\ SameOuter(c, g) /\ g.L3 = data_off + EtherLen
  BY <1>1, ParseL3Facts
<1>3. g.L3 \in Int
  BY <1>2, Lens
<1>4. PICK p \in Pkt : /\ p = ParseL4ForIPv4(g) /\ SameOuter(g, p) /\ p.L3 = g.L3
                       /\ p.L4 = g.L3 + At(g.L3).hl
  BY <1>2, <1>3, ParseL4Facts
<1>5. p.L4 \in Int
  BY <1>3, <1>4, AtFacts
<1>6. PICK o \in Pkt : /\ o = EnterOverlay(p) /\ o.Ether = p.Ether /\ o.Overlay = TRUE
                       /\ o.OuterL2 = p.L2 /\ o.OuterL3 = p.L3 /\ o.OuterL4 = p.L4
                       /\ o.Vxlan = p.L4 + UDPLen /\ o.L2 = p.L4 + UDPLen + VXLANLen
  BY <1>4, <1>5, EnterOverlayFacts
<1>7. o.L2 \in Int
  BY <1>5, <1>6, Lens
<1>8. PICK q : q = ParseL3L4(o)
  OBVIOUS
<1>9. PICK r : r = ParseL7(q, KnownL4(q))
  OBVIOUS
<1>10. /\ KnownL4(q) = ProtoAt(o.L2) /\ EtherType(q) = At(o.L2).p
       /\ r \in Pkt /\ SameOuter(o, r) /\ r.L3 = o.L2 + EtherLen
       /\ ProtoAt(o.L2) # "none" => r.L4 = L4At(o.L2) /\ r.Data = DataAt(o.L2)
  BY <1>6, <1>7, <1>8, <1>9, ParseAllFacts
<1>11. EtherType(g) = At(data_off).p
  BY <1>1, <1>2 DEF EtherType, SameOuter
<1>12. IF At(data_off).p # "ipv4" THEN pkt' = g /\ ok' = FALSE
       ELSE IF At(p.L3).p # "udp" \/ At(p.L4).p # "4789" THEN pkt' = p /\ ok' = FALSE
       ELSE pkt' = r /\ ok' = (EtherType(q) = "arp" \/ KnownL4(q) # "none")
  BY <1>1, <1>2, <1>4, <1>6, <1>8, <1>9, <1>11 DEF VxlanDecap, Parsed
<1>13. /\ g.L2 = data_off /\ g.Overlay = FALSE /\ g.Ether = pkt.Ether
       /\ p.L2 = data_off /\ p.Overlay = FALSE /\ p.Ether = pkt.Ether
       /\ p.L3 = data_off + EtherLen
  BY <1>1, <1>2, <1>4 DEF SameOuter
<1>14. At(data_off).p = "ipv4" => L4At(data_off) = p.L4
  BY <1>2, <1>4 DEF L4At
<1>15. CASE ~Tunnel(data_off)
  BY <1>12, <1>13, <1>14, <1>15 DEF Tunnel
<1>16. CASE Tunnel(data_off)
  <2>1. L4At(data_off) = p.L4 /\ pkt' = r /\ ok' = (EtherType(q) = "arp" \/ KnownL4(q) # "none")
    BY <1>12, <1>13, <1>14, <1>16 DEF Tunnel
  <2>2. Inner(data_off) = o.L2 /\ Inner(data_off) \in Int /\ r.L2 = o.L2
    BY <2>1, <1>6, <1>7, <1>10 DEF Inner, SameOuter
  <2>3. /\ r.Overlay = TRUE /\ r.OuterL2 = data_off /\ r.OuterL3 = data_off + EtherLen
        /\ r.OuterL4 = L4At(data_off) /\ r.Vxlan = L4At(data_off) + UDPLen
        /\ r.Ether = pkt.Ether
    BY <2>1, <1>6, <1>10, <1>13 DEF SameOuter
  <2>4. QED
    BY <1>10, <1>16, <2>1, <2>2, <2>3
<1>17. QED
  BY <1>15, <1>16

(* What is inserted, removed or initialised as one packet has a length     *)
(* that a uint16 holds: otherwise Ether and the length fields of the       *)
(* headers are not those of the packet.                                    *)
Short ==
  /\ Counts \subseteq 0..(U16 - 1)
  /\ \A f \in Templates : FrameLen(f) < U16

(* The arguments of the functions that insert and remove bytes. *)
LEMMA EditArguments ==
  ASSUME Short, NEW start \in Starts, NEW n \in Counts
  PROVE  start \in Nat /\ n \in 0..(U16 - 1)
  BY PacketAssumption DEF Short

PInv == IInv /\ Untouched /\ MemOK /\ PktOK

(* The packet a device or an application starts with. *)
LEMMA NewPacketFacts ==
  ASSUME NEW a \in Ptr
  PROVE  NewPacket(a) \in Pkt /\ NewPacket(a).Ether = a
<1>1. NULL \in Ptr
  BY DEF Ptr
<1>2. QED
  BY <1>1 DEF NewPacket, Pkt

(* Nothing is parsed yet. *)
LEMMA PacketInitEstablishes == PacketInit => PInv
<1> SUFFICES ASSUME PacketInit PROVE PInv
  OBVIOUS
<1>1. IInv /\ Untouched
  BY InitEstablishes DEF PacketInit, Init, Untouched
<1>2. MemOK
  BY DEF PacketInit, MemOK, Byte, Cell
<1>3. NewPacket(NULL) \in Pkt
  BY NewPacketFacts DEF Ptr
<1>4. PktOK
  BY <1>3 DEF PacketInit, PktOK
<1>5. QED
  BY <1>1, <1>2, <1>4 DEF PInv

(* The operations of package mbuf, while there is no Packet. *)
LEMMA MbufOnlyKeeps ==
  ASSUME PInv, MbufOnly
  PROVE  PInv'
<1>1. IInv' /\ Untouched'
  BY NextKeeps DEF PInv, MbufOnly
<1>2. UNCHANGED <<buf, pkt, last, edits>> /\ last = "none"
  BY DEF MbufOnly, pktVars
<1>3. MemOK' /\ PktOK'
  BY <1>2 DEF PInv, MemOK, PktOK
<1>4. QED
  BY <1>1, <1>3 DEF PInv

(* A frame has header lengths where it has headers, and zeros elsewhere. *)
LEMMA FrameCellLength ==
  ASSUME NEW f \in Frames, NEW i \in Int
  PROVE  FrameCell(f, i).hl \in Int
<1>1. L3Len(f) \in Nat /\ L4Len(f) \in Nat /\ IPv4MinLen \in Nat
  BY FrameLens, Lens
<1>2. \A h, hl, len, p : Cell(h, hl, len, p).hl = hl
  BY DEF Cell
<1>3. \A j : Byte(j).hl = 0
  BY DEF Byte, Cell
<1>4. \E h, hl, len, p : FrameCell(f, i) = Cell(h, hl, len, p) /\ hl \in {0, IPv4MinLen, L3Len(f), L4Len(f)}
  BY <1>1 DEF FrameCell, Byte
<1>5. QED
  BY <1>1, <1>2, <1>4

(* The frame of the device fits behind the headroom. *)
LEMMA ReceiveKeeps ==
  ASSUME PInv, NEW f \in Frames, Receive(f)
  PROVE  PInv'
<1>t. /\ data_off = HEADROOM /\ data_off' = HEADROOM /\ data_len' = FrameLen(f)
      /\ pkt_len' = FrameLen(f) /\ FrameLen(f) <= buf_len - HEADROOM /\ ok' = TRUE
      /\ inUse' = TRUE /\ UNCHANGED <<packetStructSize, overrun, edits>>
      /\ pkt' = NewPacket(HEADROOM) /\ last' = "Receive"
  BY DEF Receive
<1>1. FrameLen(f) \in Nat
  BY FrameLens
<1>2. IInv'
  <2>1. u16(FrameLen(f)) = FrameLen(f)
    BY <1>t, <1>1, Conversions, MbufDataAssumption
  <2>2. QED
    BY <1>t, <1>1, <2>1, MbufDataAssumption DEF PInv, IInv, TypeOK, DataInside, LenCongruent
<1>3. Untouched'
  BY <1>t DEF Untouched
<1>4. MemOK'
  <2>1. DOMAIN buf = 0..(buf_len - 1) /\ \A a \in DOMAIN buf : buf[a].hl \in Int
    BY DEF PInv, MemOK
  <2>2. DOMAIN buf' = DOMAIN buf
    BY DEF Receive
  <2>3. ASSUME NEW a \in DOMAIN buf PROVE buf'[a].hl \in Int
    <3>1. a - HEADROOM \in Int
      BY <2>1, MbufDataAssumption
    <3>2. FrameCell(f, a - HEADROOM).hl \in Int
      BY <3>1, FrameCellLength
    <3>3. buf'[a] = IF a \in HEADROOM..(HEADROOM + FrameLen(f) - 1)
                    THEN FrameCell(f, a - HEADROOM) ELSE buf[a]
      BY DEF Receive
    <3>4. QED
      BY <2>1, <3>2, <3>3
  <2>4. QED
    BY <2>1, <2>2, <2>3 DEF MemOK
<1>5. PktOK'
  <2>1. HEADROOM \in Ptr
    BY MbufDataAssumption DEF Ptr
  <2>2. pkt' \in Pkt /\ pkt'.Ether = data_off'
    BY <1>t, <2>1, NewPacketFacts
  <2>3. QED
    BY <1>t, <2>2 DEF PInv, PktOK
<1>6. QED
  BY <1>2, <1>3, <1>4, <1>5 DEF PInv

(* A fresh packet: Ether is where its data will start. *)
LEMMA AllocKeeps ==
  ASSUME PInv, Alloc
  PROVE  PInv'
<1>t. /\ data_off = HEADROOM /\ ok' = TRUE /\ inUse' = TRUE /\ pkt' = NewPacket(HEADROOM)
      /\ last' = "Alloc"
      /\ UNCHANGED <<data_off, data_len, pkt_len, packetStructSize, overrun, buf, edits>>
  BY DEF Alloc, mbufVars
<1>1. IInv' /\ Untouched' /\ MemOK'
  BY <1>t DEF PInv, IInv, TypeOK, DataInside, LenCongruent, Untouched, MemOK
<1>2. HEADROOM \in Ptr
  BY MbufDataAssumption DEF Ptr
<1>3. pkt' \in Pkt /\ pkt'.Ether = data_off'
  BY <1>t, <1>2, NewPacketFacts
<1>4. PktOK'
  BY <1>t, <1>3 DEF PInv, PktOK
<1>5. QED
  BY <1>1, <1>4 DEF PInv

(* Parsing does not touch the mbuf. *)
LEMMA ParsedKeepsMbuf ==
  ASSUME PInv, NEW p, NEW result \in BOOLEAN, NEW name, Parsed(p, result, name)
  PROVE  /\ IInv' /\ Untouched' /\ MemOK' /\ UNCHANGED <<data_off, data_len, edits, buf, frame>>
         /\ pkt' = p /\ ok' = result /\ last' = name
<1>1. /\ UNCHANGED <<data_off, data_len, pkt_len, packetStructSize, inUse, overrun, buf, edits,
                     frame>>
      /\ pkt' = p /\ ok' = result /\ last' = name
  BY DEF Parsed, mbufVars
<1>2. QED
  BY <1>1 DEF PInv, IInv, TypeOK, DataInside, LenCongruent, Untouched, MemOK

(* ParseL2: L2 is the start of the data. *)
LEMMA ParseL2Keeps ==
  ASSUME PInv, ParseL2
  PROVE  PInv'
<1>1. data_off \in Int /\ pkt \in Pkt /\ pkt.Ether = data_off
  BY DEF PInv, IInv, TypeOK, PktOK, ParseL2
<1>2. PICK p \in Pkt : /\ p = [pkt EXCEPT !.L2 = data_off] /\ p.L2 = data_off
                       /\ p.Ether = pkt.Ether
  <2>1. data_off \in Ptr
    BY <1>1 DEF Ptr
  <2>2. \A r \in Pkt : /\ [r EXCEPT !.L2 = data_off] \in Pkt
                       /\ [r EXCEPT !.L2 = data_off].L2 = data_off
                       /\ [r EXCEPT !.L2 = data_off].Ether = r.Ether
    BY <2>1 DEF Pkt
  <2>3. QED
    BY <1>1, <2>2
<1>3. Parsed(p, TRUE, "ParseL2")
  BY <1>2 DEF ParseL2
<1>4. /\ IInv' /\ Untouched' /\ MemOK' /\ UNCHANGED <<data_off, data_len, edits, buf, frame>>
      /\ pkt' = p /\ last' = "ParseL2"
  BY <1>3, ParsedKeepsMbuf
<1>5. PktOK'
  BY <1>1, <1>2, <1>4 DEF PInv, PktOK
<1>6. QED
  BY <1>4, <1>5 DEF PInv

(* ParseData moves no pointer of the link layer. *)
LEMMA ParseDataKeeps ==
  ASSUME PInv, ParseData
  PROVE  PInv' /\ UNCHANGED <<data_off, data_len, edits, buf, frame>> /\ last' = "ParseData"
<1>1. data_off \in Int /\ pkt \in Pkt /\ pkt.Ether = data_off /\ pkt.L2 \in Int /\ MemOK
  BY DEF PInv, IInv, TypeOK, PktOK, ParseData
<1>2. \E p : \E result \in BOOLEAN : Parsed(p, result, "ParseData")
  BY DEF ParseData
<1>3. /\ IInv' /\ Untouched' /\ MemOK' /\ UNCHANGED <<data_off, data_len, edits, buf, frame>>
      /\ last' = "ParseData"
  BY <1>2, ParsedKeepsMbuf
<1>4. pkt' \in Pkt /\ pkt'.Ether = pkt.Ether
  BY <1>1, ParseDataFacts DEF SameOuter
<1>5. PktOK'
  BY <1>1, <1>3, <1>4 DEF PInv, PktOK
<1>6. QED
  BY <1>3, <1>5 DEF PInv

(* VxlanDecap moves L2, but not Ether. *)
LEMMA VxlanDecapKeeps ==
  ASSUME PInv, VxlanDecap
  PROVE  PInv' /\ UNCHANGED <<data_off, data_len, edits, buf, frame>> /\ last' = "VxlanDecap"
<1>1. data_off \in Int /\ pkt \in Pkt /\ pkt.Ether = data_off /\ MemOK
  BY DEF PInv, IInv, TypeOK, PktOK, VxlanDecap
<1>2. \E p : \E result \in BOOLEAN : Parsed(p, result, "VxlanDecap")
  BY DEF VxlanDecap
<1>3. /\ IInv' /\ Untouched' /\ MemOK' /\ UNCHANGED <<data_off, data_len, edits, buf, frame>>
      /\ last' = "VxlanDecap"
  BY <1>2, ParsedKeepsMbuf
<1>4. pkt' \in Pkt /\ pkt'.Ether = pkt.Ether /\ pkt'.L2 \in Int
  BY <1>1, VxlanDecapFacts
<1>5. PktOK'
  BY <1>1, <1>3, <1>4 DEF PInv, PktOK
<1>6. QED
  BY <1>3, <1>5 DEF PInv

(* A template is a frame without tunnel and options. *)
LEMMA TemplateFacts ==
  ASSUME NEW f \in Templates
  PROVE  /\ f \in Frames /\ ~f.vxlan /\ f.opt = 0 /\ f.topt = 0 /\ Base(f) = 0
         /\ f.type = "arp" => f.pay = 0
         /\ f.type = "ipv4" => f.proto # "icmp6"
         /\ f.type = "ipv6" => f.proto # "icmp"
  BY FrameLens DEF Templates

(* The InitEmpty functions set the pointers they have a header for. *)
LEMMA InitPointersFacts ==
  ASSUME pkt \in Pkt, pkt.L2 \in Int, NEW f \in Templates
  PROVE  /\ InitPointers(f) \in Pkt /\ SameOuter(pkt, InitPointers(f))
         /\ f.type # "none" => InitPointers(f).L3 = pkt.L2 + EtherLen
         /\ f.proto # "none" => InitPointers(f).L4 = pkt.L2 + EtherLen + L3Len(f)
         /\ f.type # "arp" => InitPointers(f).Data = pkt.L2 + EtherLen + L3Len(f) + L4Len(f)
<1>1. /\ f \in Frames /\ f.opt = 0
      /\ f.type \in {"ipv4", "ipv6", "arp", "none"} /\ (f.type \in {"arp", "none"} => f.proto = "none")
      /\ f.type = "ipv4" => L3Len(f) = IPv4MinLen + f.opt
      /\ f.type = "ipv6" => L3Len(f) = IPv6Len
      /\ L3Len(f) \in Nat /\ L4Len(f) \in Nat
  BY TemplateFacts, FrameLens
<1>2. PICK p \in Pkt : /\ p = IF f.type = "none" THEN pkt ELSE ParseL3(pkt)
                       /\ SameOuter(pkt, p) /\ p.L2 = pkt.L2
                       /\ f.type # "none" => p.L3 = pkt.L2 + EtherLen
  <2>1. CASE f.type = "none"
    BY <2>1 DEF SameOuter
  <2>2. CASE f.type # "none"
    BY <2>2, ParseL3Facts DEF SameOuter
  <2>3. QED
    BY <2>1, <2>2
<1>3. PICK q \in Pkt : /\ q = IF f.proto = "none" THEN p
                              ELSE IF f.type = "ipv4" THEN [p EXCEPT !.L4 = p.L3 + IPv4MinLen]
                              ELSE ParseL4ForIPv6(p)
                       /\ SameOuter(pkt, q)
                       /\ f.type # "none" => q.L3 = pkt.L2 + EtherLen
                       /\ f.proto # "none" => q.L4 = pkt.L2 + EtherLen + L3Len(f)
  <2>1. CASE f.proto = "none"
    BY <1>2, <2>1
  <2>2. CASE f.proto # "none"
    <3>1. f.type \in {"ipv4", "ipv6"} /\ f.type # "none"
      BY <1>1, <2>2
    <3>2. PICK x \in Int : x = p.L3 + L3Len(f) /\ x = pkt.L2 + EtherLen + L3Len(f)
      BY <1>1, <1>2, <3>1, Lens
    <3>3. (IF f.type = "ipv4" THEN [p EXCEPT !.L4 = p.L3 + IPv4MinLen] ELSE ParseL4ForIPv6(p))
            = [p EXCEPT !.L4 = x]
      <4>1. CASE f.type = "ipv4"
        <5>1. IPv4MinLen = L3Len(f)
          BY <4>1, <1>1, Lens
        <5>2. QED
          BY <4>1, <5>1, <3>2
      <4>2. CASE f.type = "ipv6"
        <5>1. IPv6Len = L3Len(f)
          BY <4>2, <1>1, Lens
        <5>2. QED
          BY <4>2, <5>1, <3>2 DEF ParseL4ForIPv6
      <4>3. QED
        BY <3>1, <4>1, <4>2
    <3>4. PICK e \in Pkt : e = [p EXCEPT !.L4 = x] /\ SameOuter(p, e) /\ e.L3 = p.L3 /\ e.L4 = x
      BY SetL4
    <3>5. SameOuter(pkt, e)
      BY <1>2, <3>4 DEF SameOuter
    <3>6. QED
      BY <1>2, <2>2, <3>1, <3>2, <3>3, <3>4, <3>5
  <2>3. QED
    BY <2>1, <2>2
<1>4. PICK y \in Int : y = p.L2 + EtherLen + L3Len(f) + L4Len(f)
                       /\ y = pkt.L2 + EtherLen + L3Len(f) + L4Len(f)
  BY <1>1, <1>2, Lens
<1>5. InitPointers(f) = IF f.type = "arp" THEN q ELSE [q EXCEPT !.Data = y]
  BY <1>2, <1>3, <1>4 DEF InitPointers
<1>6. CASE f.type = "arp"
  BY <1>3, <1>5, <1>6
<1>7. CASE f.type # "arp"
  BY <1>3, <1>4, <1>5, <1>7, SetData DEF SameOuter
<1>8. QED
  BY <1>6, <1>7

(* What the InitEmpty functions write has a header length, too. *)
LEMMA WrittenLength ==
  ASSUME MemOK, NEW f, NEW p, NEW a \in DOMAIN buf
  PROVE  Written(f, p, a).hl \in Int
<1>1. IPv4MinLen \in Int /\ TCPMinLen \in Int /\ buf[a].hl \in Int
  BY Lens DEF MemOK
<1>2. \/ Written(f, p, a) = buf[a]
      \/ \E h, hl, len, t : Written(f, p, a) = Cell(h, hl, len, t) /\ hl \in {0, IPv4MinLen, TCPMinLen}
  BY DEF Written
<1>3. \A h, hl, len, t : Cell(h, hl, len, t).hl = hl
  BY DEF Cell
<1>4. QED
  BY <1>1, <1>2, <1>3

(* An empty packet gets its headers: the data starts where it did. *)
LEMMA InitEmptyKeeps ==
  ASSUME Short, PInv, NEW f \in Templates, InitEmpty(f)
  PROVE  PInv'
<1>t. /\ pkt \in Pkt /\ last = "ParseL2" /\ pkt.L2 = data_off /\ pkt.Ether = data_off
      /\ data_off \in Int /\ MemOK /\ IInv
  BY DEF PInv, IInv, TypeOK, PktOK, InitEmpty
<1>1. FrameLen(f) \in 0..(U16 - 1)
  BY TemplateFacts, FrameLens, MbufDataAssumption DEF Short
<1>2. AppendMbuf(FrameLen(f))
  BY DEF InitEmpty
<1>3. IInv' /\ (ok' => data_off' = data_off)
  <2>1. FrameLen(f) \in Nat
    BY <1>1
  <2>2. QED
    BY <1>2, <1>t, <2>1, AppendMbufKeeps
<1>4. data_off' = data_off /\ inUse' = TRUE
  BY <1>2 DEF AppendMbuf, Refuse, Accept, mbufVars
<1>5. /\ ok' \in BOOLEAN /\ edits' = edits /\ last' \in {"InitEmpty", "refused"}
      /\ ok' => pkt' = InitPointers(f) /\ buf' = [a \in DOMAIN buf |-> Written(f, pkt', a)]
      /\ ~ok' => pkt' = pkt /\ buf' = buf
  BY <1>3 DEF InitEmpty, IInv, TypeOK
<1>6. MemOK'
  <2>1. CASE ok'
    <3>1. DOMAIN buf' = DOMAIN buf /\ \A a \in DOMAIN buf : buf'[a] = Written(f, pkt', a)
      BY <1>5, <2>1
    <3>2. QED
      BY <3>1, <1>t, WrittenLength DEF MemOK
  <2>2. CASE ~ok'
    BY <1>5, <1>t, <2>2 DEF MemOK
  <2>3. QED
    BY <2>1, <2>2
<1>7. pkt' \in Pkt /\ pkt'.Ether = pkt.Ether
  BY <1>5, <1>t, InitPointersFacts DEF SameOuter
<1>8. PktOK'
  BY <1>4, <1>5, <1>7, <1>t DEF PInv, PktOK
<1>9. QED
  BY <1>3, <1>4, <1>6, <1>8 DEF PInv, Untouched

(* Computing checksums leaves the packet as it is. *)
LEMMA ComputeChecksumsKeeps ==
  ASSUME PInv, NEW a, NEW h, NEW data, ComputeChecksums(a, h, data)
  PROVE  PInv'
<1>1. /\ UNCHANGED <<data_off, data_len, pkt_len, packetStructSize, inUse, ok, overrun, buf, pkt, edits>>
      /\ last = "InitEmpty" /\ last' = "Checksum"
  BY DEF ComputeChecksums, vars, mbufVars
<1>2. QED
  BY <1>1 DEF PInv, IInv, TypeOK, DataInside, LenCongruent, Untouched, MemOK, PktOK

(* Copying bytes keeps the layout of memory. *)
LEMMA CopyKeeps ==
  ASSUME MemOK, NEW dst, NEW src, NEW n, Copy(dst, src, n)
  PROVE  MemOK'
<1>1. /\ DOMAIN buf' = DOMAIN buf
      /\ \A a \in DOMAIN buf : buf'[a] \in {At(a - dst + src), buf[a]}
  BY DEF Copy, Write
<1>2. \A a : At(a).hl \in Int
  BY AtFacts
<1>3. QED
  BY <1>1, <1>2 DEF MemOK

(* The functions that insert and remove bytes; Ether moves with the data.  *)
LEMMA EditKeeps ==
  ASSUME PInv, NEW start \in Nat, NEW n \in 0..(U16 - 1),
         \/ EncapsulateHead(start, n) \/ EncapsulateTail(start, n)
         \/ DecapsulateHead(start, n) \/ DecapsulateTail(start, n)
         \/ PacketBytesChange(start, n)
  PROVE  PInv' /\ edits' # 0 /\ last' = "edit"
<1>t. /\ pkt \in Pkt /\ pkt.Ether = data_off /\ data_off \in Int /\ MemOK /\ IInv
      /\ edits \in Nat
  BY DEF PInv, IInv, TypeOK, PktOK, EncapsulateHead, EncapsulateTail, DecapsulateHead,
         DecapsulateTail, PacketBytesChange, Edit
<1>n. n \in Nat /\ u16(n) = n
  BY Lens, Conversions
<1>e. edits' = edits + 1 /\ last' = "edit"
  BY DEF EncapsulateHead, EncapsulateTail, DecapsulateHead, DecapsulateTail,
         PacketBytesChange, Edit
<1>1. edits' \in Nat /\ edits' # 0
  BY <1>e, <1>t
<1>m. \A x \in Int : /\ [pkt EXCEPT !.Ether = x] \in Pkt /\ [pkt EXCEPT !.Ether = x].Ether = x
  <2>1. \A x \in Int : x \in Ptr
    BY DEF Ptr
  <2>2. \A r \in Pkt, x \in Ptr : /\ [r EXCEPT !.Ether = x] \in Pkt
                                  /\ [r EXCEPT !.Ether = x].Ether = x
    BY DEF Pkt
  <2>3. QED
    BY <2>1, <2>2, <1>t
<1>2. CASE EncapsulateHead(start, n)
  <2>1. PrependMbuf(n)
    BY <1>2 DEF EncapsulateHead
  <2>2. IInv' /\ (ok' => data_off' = data_off - n)
    BY <2>1, <1>n, <1>t, PrependMbufKeeps
  <2>3. inUse' = TRUE /\ (~ok' => data_off' = data_off)
    BY <2>1 DEF PrependMbuf, Refuse, Accept, mbufVars
  <2>4. MemOK'
    BY <1>2, <1>t, CopyKeeps DEF EncapsulateHead, MemOK
  <2>5. pkt' \in Pkt /\ pkt'.Ether = data_off'
    <3>1. CASE ok'
      <4>1. PICK x \in Int : x = data_off - n
        BY <1>t, <1>n
      <4>2. pkt' = [pkt EXCEPT !.Ether = x]
        BY <1>2, <3>1, <4>1, <1>t DEF EncapsulateHead
      <4>3. QED
        BY <4>1, <4>2, <1>m, <2>2, <3>1
    <3>2. CASE ~ok'
      BY <1>2, <3>2, <2>3, <1>t DEF EncapsulateHead
    <3>3. QED
      BY <3>1, <3>2
  <2>6. QED
    BY <2>2, <2>3, <2>4, <2>5, <1>e, <1>1 DEF PInv, PktOK, Untouched
<1>3. CASE DecapsulateHead(start, n)
  <2>1. AdjMbuf(n)
    BY <1>3 DEF DecapsulateHead
  <2>2. IInv' /\ (ok' => data_off' = data_off + n)
    BY <2>1, <1>n, <1>t, AdjMbufKeeps
  <2>3. inUse' = TRUE /\ (~ok' => data_off' = data_off)
    BY <2>1 DEF AdjMbuf, Refuse, Accept, mbufVars
  <2>4. MemOK'
    BY <1>3, <1>t, CopyKeeps DEF DecapsulateHead, MemOK
  <2>5. pkt' \in Pkt /\ pkt'.Ether = data_off'
    <3>1. CASE ok'
      <4>1. PICK x \in Int : x = data_off + n
        BY <1>t, <1>n
      <4>2. pkt' = [pkt EXCEPT !.Ether = x]
        BY <1>3, <3>1, <4>1, <1>t DEF DecapsulateHead
      <4>3. QED
        BY <4>1, <4>2, <1>m, <2>2, <3>1
    <3>2. CASE ~ok'
      BY <1>3, <3>2, <2>3, <1>t DEF DecapsulateHead
    <3>3. QED
      BY <3>1, <3>2
  <2>6. QED
    BY <2>2, <2>3, <2>4, <2>5, <1>e, <1>1 DEF PInv, PktOK, Untouched
<1>4. CASE EncapsulateTail(start, n) \/ DecapsulateTail(start, n)
  <2>1. AppendMbuf(n) \/ TrimMbuf(n)
    BY <1>4 DEF EncapsulateTail, DecapsulateTail
  <2>2. IInv'
    BY <2>1, <1>n, <1>t, AppendMbufKeeps, TrimMbufKeeps
  <2>3. inUse' = TRUE /\ data_off' = data_off
    BY <2>1 DEF AppendMbuf, TrimMbuf, Refuse, Accept, mbufVars
  <2>4. MemOK'
    BY <1>4, <1>t, CopyKeeps DEF EncapsulateTail, DecapsulateTail, MemOK
  <2>5. pkt' = pkt
    BY <1>4 DEF EncapsulateTail, DecapsulateTail
  <2>6. QED
    BY <2>2, <2>3, <2>4, <2>5, <1>e, <1>1, <1>t DEF PInv, PktOK, Untouched
<1>5. CASE PacketBytesChange(start, n)
  <2>1. /\ UNCHANGED <<data_off, data_len, pkt_len, packetStructSize, inUse, overrun, pkt>>
        /\ ok' \in BOOLEAN
    BY <1>5 DEF PacketBytesChange, mbufVars
  <2>2. IInv' /\ Untouched'
    BY <2>1 DEF PInv, IInv, TypeOK, DataInside, LenCongruent, Untouched
  <2>3. DOMAIN buf' = DOMAIN buf /\ \A a \in DOMAIN buf : buf'[a] \in {Byte(0), buf[a]}
    BY <1>5 DEF PacketBytesChange, Write
  <2>4. MemOK'
    BY <2>3, <1>t DEF MemOK, Byte, Cell
  <2>5. QED
    BY <2>1, <2>2, <2>4, <1>e, <1>1, <1>t DEF PInv, PktOK
<1>6. QED
  BY <1>2, <1>3, <1>4, <1>5

(* PInv is an invariant, so also in the hands of package packet the data   *)
(* stays inside its buffer and behind the packet structure.                *)
LEMMA PacketInvariant ==
  ASSUME Short
  PROVE  PacketSpec => []PInv
<1>1. PacketInit => PInv
  BY PacketInitEstablishes
<1>2. PInv /\ [PacketNext]_allVars => PInv'
  <2> SUFFICES ASSUME PInv, [PacketNext]_allVars PROVE PInv'
    OBVIOUS
  <2>1. CASE MbufOnly \/ Alloc \/ ParseL2 \/ VxlanDecap \/ ParseData
    BY <2>1, MbufOnlyKeeps, AllocKeeps, ParseL2Keeps, VxlanDecapKeeps, ParseDataKeeps
  <2>2. CASE \E f \in Frames : Receive(f)
    BY <2>2, ReceiveKeeps
  <2>3. CASE \E f \in Templates : InitEmpty(f)
    BY <2>3, InitEmptyKeeps
  <2>4. CASE \E a, h, data : ComputeChecksums(a, h, data)
    BY <2>4, ComputeChecksumsKeeps
  <2>5. CASE \E start \in Starts, n \in Counts :
               \/ EncapsulateHead(start, n) \/ EncapsulateTail(start, n)
               \/ DecapsulateHead(start, n) \/ DecapsulateTail(start, n)
               \/ PacketBytesChange(start, n)
    <3>1. PICK start \in Starts, n \in Counts :
            \/ EncapsulateHead(start, n) \/ EncapsulateTail(start, n)
            \/ DecapsulateHead(start, n) \/ DecapsulateTail(start, n)
            \/ PacketBytesChange(start, n)
      BY <2>5
    <3>2. start \in Nat /\ n \in 0..(U16 - 1)
      BY EditArguments
    <3>3. QED
      BY <3>1, <3>2, EditKeeps
  <2>6. CASE UNCHANGED allVars
    BY <2>6 DEF allVars, vars, mbufVars, pktVars, PInv, IInv, TypeOK, DataInside, LenCongruent,
                Untouched, MemOK, PktOK
  <2>7. QED
    BY <2>1, <2>2, <2>3, <2>4, <2>5, <2>6 DEF PacketNext
<1>3. QED
  BY <1>1, <1>2, PTL DEF PacketSpec

(* The functions of package packet change the mbuf through those of        *)
(* package mbuf only, whatever lengths they pass on.                       *)
LEMMA PacketMbuf ==
  ASSUME IInv /\ Untouched, [PacketNext]_allVars
  PROVE  IInv' /\ Untouched'
<1>a. IInv /\ Untouched
  OBVIOUS
<1>1. ASSUME UNCHANGED <<data_off, data_len, pkt_len, packetStructSize, overrun>>,
             ok' \in BOOLEAN, inUse' \in BOOLEAN, inUse => inUse'
      PROVE  IInv' /\ Untouched'
  BY <1>1, <1>a DEF IInv, Untouched, TypeOK, DataInside, LenCongruent
<1>2. ASSUME NEW n \in Nat, PrependMbuf(n) \/ AppendMbuf(n) \/ AdjMbuf(n) \/ TrimMbuf(n)
      PROVE  IInv' /\ Untouched'
  <2>1. IInv'
    BY <1>2, <1>a, PrependMbufKeeps, AppendMbufKeeps, AdjMbufKeeps, TrimMbufKeeps
  <2>2. inUse' = TRUE
    BY <1>2 DEF PrependMbuf, AppendMbuf, AdjMbuf, TrimMbuf, Refuse, Accept
  <2>3. QED
    BY <2>1, <2>2 DEF Untouched
<1>3. CASE MbufOnly
  BY <1>3, <1>a, NextKeeps DEF MbufOnly
<1>4. CASE Alloc
  BY <1>1, <1>4, <1>a DEF Alloc, mbufVars
<1>5. ASSUME NEW p, NEW result \in BOOLEAN, NEW name, Parsed(p, result, name)
      PROVE  IInv' /\ Untouched'
  BY <1>1, <1>5, <1>a DEF Parsed, mbufVars, IInv, TypeOK
<1>6. CASE ParseL2 \/ VxlanDecap \/ ParseData
  <2>1. CASE ParseL2
    BY <2>1, <1>5 DEF ParseL2
  <2>2. CASE VxlanDecap
    <3> DEFINE p0 == ParseL3([pkt EXCEPT !.Overlay = FALSE, !.L2 = data_off])
               p  == ParseL4ForIPv4(p0)
               q  == ParseL3L4(EnterOverlay(p))
               known == EtherType(q) = "arp" \/ KnownL4(q) # "none"
    <3>1. \/ Parsed(p0, FALSE, "VxlanDecap")
          \/ Parsed(p, FALSE, "VxlanDecap")
          \/ Parsed(ParseL7(q, KnownL4(q)), known, "VxlanDecap")
      BY <2>2, Zenon DEF VxlanDecap
    <3>2. known \in BOOLEAN
      <4>1. \A x, y, v, z : (x = y \/ v # z) \in BOOLEAN
        OBVIOUS
      <4> HIDE DEF q
      <4>2. QED
        BY <4>1, Zenon
    <3> HIDE DEF p0, p, q, known
    <3>3. CASE Parsed(p0, FALSE, "VxlanDecap")
      BY <3>3, <1>5
    <3>4. CASE Parsed(p, FALSE, "VxlanDecap")
      BY <3>4, <1>5
    <3>5. CASE Parsed(ParseL7(q, KnownL4(q)), known, "VxlanDecap")
      BY <3>2, <3>5, <1>5
    <3>6. QED
      BY <3>1, <3>3, <3>4, <3>5
  <2>3. CASE ParseData
    <3>1. \E q : Parsed(ParseL7(q, KnownL4(q)), KnownL4(q) # "none", "ParseData")
      BY <2>3, Zenon DEF ParseData
    <3>2. QED
      BY <1>5, <3>1
  <2>4. QED
    BY <1>6, <2>1, <2>2, <2>3
<1>7. ASSUME NEW f \in Frames, Receive(f)
      PROVE  IInv' /\ Untouched'
  <2>1. /\ data_off = HEADROOM /\ data_off' = HEADROOM /\ data_len' = FrameLen(f)
        /\ pkt_len' = FrameLen(f) /\ FrameLen(f) <= buf_len - HEADROOM /\ ok' = TRUE
        /\ inUse' = TRUE /\ UNCHANGED <<packetStructSize, overrun>> /\ FrameLen(f) \in Nat
    BY <1>7, FrameLens DEF Receive
  <2>2. u16(FrameLen(f)) = FrameLen(f)
    BY <2>1, Conversions, MbufDataAssumption
  <2>3. QED
    BY <2>1, <2>2, <1>a, MbufDataAssumption
       DEF IInv, Untouched, TypeOK, DataInside, LenCongruent
<1>8. ASSUME NEW f \in Templates, InitEmpty(f)
      PROVE  IInv' /\ Untouched'
  <2>1. FrameLen(f) \in Nat /\ AppendMbuf(FrameLen(f))
    BY <1>8, TemplateFacts, FrameLens DEF InitEmpty
  <2>2. QED
    BY <1>2, <2>1
<1>9. ASSUME NEW a, NEW h, NEW data, ComputeChecksums(a, h, data)
      PROVE  IInv' /\ Untouched'
  BY <1>9, <1>1, <1>a DEF ComputeChecksums, vars, mbufVars, IInv, TypeOK
<1>10. ASSUME NEW start \in Starts, NEW n \in Counts, EditOf(start, n)
       PROVE  IInv' /\ Untouched'
  <2>0. n \in Nat
    BY PacketAssumption
  <2>1. CASE PacketBytesChange(start, n)
    BY <2>1, <1>1, <1>a DEF PacketBytesChange, mbufVars, IInv, TypeOK
  <2>2. CASE ~PacketBytesChange(start, n)
    BY <1>10, <2>0, <2>2, <1>2
       DEF EditOf, EncapsulateHead, EncapsulateTail, DecapsulateHead, DecapsulateTail
  <2>3. QED
    BY <2>1, <2>2
<1>11. CASE UNCHANGED allVars
  BY <1>11, <1>1, <1>a DEF allVars, vars, mbufVars, IInv, TypeOK
<1>12. QED
  BY <1>3, <1>4, <1>6, <1>7, <1>8, <1>9, <1>10, <1>11 DEF PacketNext, EditOf

LEMMA PacketMbufInvariant == PacketSpec => []IInv
<1>1. PacketInit => IInv /\ Untouched
  BY PacketInitEstablishes DEF PInv
<1>2. IInv /\ Untouched /\ [PacketNext]_allVars => (IInv /\ Untouched)'
  BY PacketMbuf
<1>3. QED
  BY <1>1, <1>2, PTL DEF PacketSpec

(* The packet never leaves the buffer, whichever functions of packages     *)
(* mbuf and packet are called on it and with whatever lengths.             *)
THEOREM PacketDataInside == PacketSpec => []DataInside
  BY PacketMbufInvariant, PTL DEF IInv

(* Neither do they reach into the packet structure in the headroom. *)
THEOREM PacketStructKept == PacketSpec => []StructKept
<1>1. IInv => StructKept
  BY DEF IInv, StructKept
<1>2. QED
  BY <1>1, PacketMbufInvariant, PTL

(* A cell of the buffer after a copy. *)
LEMMA AtAfterCopy ==
  ASSUME MemOK, NEW dst \in Int, NEW src \in Int, NEW n \in Int, Copy(dst, src, n),
         NEW a \in 0..(buf_len - 1)
  PROVE  At(a)' = IF a \in dst..(dst + n - 1) THEN At(a - dst + src) ELSE At(a)
<1>1. a \in DOMAIN buf /\ DOMAIN buf' = DOMAIN buf
  BY DEF MemOK, Copy, Write
<1>2. buf'[a] = IF a \in dst..(dst + n - 1) THEN At(a - dst + src) ELSE buf[a]
  BY <1>1 DEF Copy, Write
<1>3. At(a) = buf[a] /\ At(a)' = buf'[a]
  BY <1>1 DEF At
<1>4. QED
  BY <1>2, <1>3

(* What has been appended counts in pkt_len too. *)
LEMMA AppendedLen ==
  ASSUME IInv, NEW n \in Nat, u16(n) = n, pkt_len = data_len, ok', AppendMbuf(n)
  PROVE  pkt_len' = data_len + n
<1>1. n \in 0..(U16 - 1)
  BY PktLenMoves
<1>2. u32(n) = n
  BY <1>1, Conversions
<1>3. data_off' = data_off /\ data_len' = data_len + n /\ IInv'
  BY AppendMbufKeeps
<1>4. data_len + n \in 0..(U16 - 1)
  BY <1>3 DEF IInv, TypeOK
<1>5. pkt_len' = u32(data_len + n)
  BY <1>2, Zenon DEF AppendMbuf, Refuse
<1>6. QED
  BY <1>4, <1>5, Conversions

(* EncapsulateTail moves what is behind start, before it is overwritten. *)
LEMMA EncapsulateTailExact ==
  ASSUME PInv, NEW start \in Nat, NEW n \in 0..(U16 - 1), pkt.L2 = data_off, InPacket(start, n),
         ok', EncapsulateTail(start, n)
  PROVE  Inserted(start, n)
<1>t. /\ data_off \in Nat /\ data_len \in Nat /\ pkt_len = data_len /\ buf_len \in Nat /\ MemOK
      /\ start + n <= data_len
  BY MbufDataAssumption DEF PInv, IInv, TypeOK, InPacket, LenConsistent
<1>n. n \in Nat /\ u16(n) = n /\ IInv /\ AppendMbuf(n)
  BY Lens, Conversions DEF PInv, EncapsulateTail
<1>1. data_off' = data_off /\ data_len' = data_len + n /\ data_off' + data_len' <= buf_len
  BY <1>n, AppendMbufKeeps DEF IInv, DataInside
<1>2. Copy(data_off + start + n, data_off + start, data_len - start)
  <2>1. pkt_len' = data_len + n
    BY <1>n, <1>t, AppendedLen
  <2>2. pkt_len' - start - n = data_len - start
    BY <2>1, <1>n, <1>t
  <2>3. QED
    BY <2>2 DEF EncapsulateTail
<1>3. ASSUME NEW i \in 0..(data_len - 1)
      PROVE  Bytes'[IF i < start THEN i ELSE i + n] = Bytes[i]
  <2>0. Bytes[i] = At(data_off + i)
    BY DEF Bytes
  <2>1. CASE i < start
    <3>1. data_off + i \in 0..(buf_len - 1) /\ i \in 0..(data_len' - 1)
      BY <1>t, <1>1, <2>1
    <3>2. data_off + i \notin (data_off + start + n)..((data_off + start + n) + (data_len - start) - 1)
      BY <1>t, <2>1
    <3>3. At(data_off + i)' = At(data_off + i)
      <4>1. PICK a \in 0..(buf_len - 1) : a = data_off + i
        BY <3>1
      <4>2. At(a)' = At(a)
        BY <4>1, <1>t, <1>2, <3>2, AtAfterCopy
      <4>3. QED
        BY <4>1, <4>2, <1>1
    <3>4. Bytes'[i] = At(data_off + i)'
      BY <3>1, <1>1 DEF Bytes
    <3>5. QED
      BY <2>0, <2>1, <3>3, <3>4
  <2>2. CASE ~(i < start)
    <3>1. data_off + (i + n) \in 0..(buf_len - 1) /\ i + n \in 0..(data_len' - 1)
      BY <1>t, <1>1, <2>2
    <3>2. PICK a \in 0..(buf_len - 1) : a = data_off + (i + n)
      BY <3>1
    <3>3. /\ a \in (data_off + start + n)..((data_off + start + n) + (data_len - start) - 1)
          /\ a - (data_off + start + n) + (data_off + start) = data_off + i
      BY <1>t, <2>2, <3>2
    <3>4. At(a)' = At(data_off + i)
      <4>1. PICK dst \in Int, src \in Int, m \in Int :
              dst = data_off + start + n /\ src = data_off + start /\ m = data_len - start
        BY <1>t
      <4>2. Copy(dst, src, m) /\ a \in dst..(dst + m - 1) /\ a - dst + src = data_off + i
        BY <1>2, <3>3, <4>1
      <4>3. QED
        BY <4>2, <1>t, AtAfterCopy
    <3>5. Bytes'[i + n] = At(a)'
      BY <3>1, <3>2, <1>1 DEF Bytes
    <3>6. QED
      BY <2>0, <2>2, <3>4, <3>5
  <2>3. QED
    BY <2>1, <2>2
<1>4. DOMAIN Bytes = 0..(data_len - 1)
  BY DEF Bytes
<1>5. QED
  BY <1>1, <1>3, <1>4 DEF Inserted

(* DecapsulateHead moves what is before start. *)
LEMMA DecapsulateHeadExact ==
  ASSUME PInv, NEW start \in Nat, NEW n \in 0..(U16 - 1), pkt.L2 = data_off, InPacket(start, n),
         ok', DecapsulateHead(start, n)
  PROVE  Removed(start, n)
<1>t. /\ data_off \in Nat /\ data_len \in Nat /\ pkt_len = data_len /\ buf_len \in Nat /\ MemOK
      /\ data_off + data_len <= buf_len /\ start + n <= data_len
  BY MbufDataAssumption DEF PInv, IInv, TypeOK, InPacket, LenConsistent, DataInside
<1>n. n \in Nat /\ u16(n) = n /\ IInv /\ AdjMbuf(n)
  BY Lens, Conversions DEF PInv, DecapsulateHead
<1>1. data_off' = data_off + n /\ data_len' = data_len - n
  <2>1. IInv' /\ data_off' = data_off + n /\ data_off' + data_len' = data_off + data_len
    BY <1>n, AdjMbufKeeps
  <2>2. PICK x \in Int, y \in Int : x = data_off' /\ y = data_len'
    BY <2>1 DEF IInv, TypeOK
  <2>3. x + y = data_off + data_len /\ x = data_off + n
    BY <2>1, <2>2
  <2>4. y = data_len - n
    BY <2>3, <1>t
  <2>5. QED
    BY <2>1, <2>2, <2>4
<1>2. Copy(data_off + n, data_off, start)
  BY <1>t DEF DecapsulateHead
<1>3. ASSUME NEW i \in 0..(data_len' - 1)
      PROVE  Bytes'[i] = Bytes[IF i < start THEN i ELSE i + n]
  <2>0. i \in Nat /\ i + n < data_len
    BY <1>1, <1>t
  <2>1. PICK a \in 0..(buf_len - 1) : a = data_off + n + i
    BY <2>0, <1>t
  <2>2. Bytes'[i] = At(a)'
    BY <2>1, <1>1 DEF Bytes
  <2>3. At(a)' = IF a \in (data_off + n)..((data_off + n) + (start) - 1)
                 THEN At(a - (data_off + n) + (data_off)) ELSE At(a)
    BY <1>t, <1>2, AtAfterCopy
  <2>4. CASE i < start
    <3>1. At(a)' = At(data_off + i)
      <4>1. /\ a \in (data_off + n)..((data_off + n) + (start) - 1)
            /\ a - (data_off + n) + (data_off) = data_off + i
        BY <2>0, <2>1, <2>4, <1>t
      <4>2. QED
        BY <4>1, <2>3
    <3>2. i \in 0..(data_len - 1)
      BY <2>0, <1>t
    <3>3. QED
      BY <2>2, <2>4, <3>1, <3>2 DEF Bytes
  <2>5. CASE ~(i < start)
    <3>1. At(a)' = At(data_off + (i + n))
      <4>1. /\ a \notin (data_off + n)..((data_off + n) + (start) - 1)
            /\ a = data_off + (i + n)
        BY <2>0, <2>1, <2>5, <1>t
      <4>2. QED
        BY <4>1, <2>3
    <3>2. i + n \in 0..(data_len - 1)
      BY <2>0, <1>t
    <3>3. QED
      BY <2>2, <2>5, <3>1, <3>2 DEF Bytes
  <2>6. QED
    BY <2>4, <2>5
<1>4. DOMAIN Bytes' = 0..(data_len' - 1)
  BY DEF Bytes
<1>5. QED
  BY <1>1, <1>3, <1>4 DEF Removed

(* DecapsulateTail moves what is behind the bytes removed; what it copies  *)
(* from behind the data stays behind the data.                            *)
LEMMA DecapsulateTailExact ==
  ASSUME PInv, NEW start \in Nat, NEW n \in 0..(U16 - 1), pkt.L2 = data_off, InPacket(start, n),
         ok', DecapsulateTail(start, n)
  PROVE  Removed(start, n)
<1>t. /\ data_off \in Nat /\ data_len \in Nat /\ pkt_len = data_len /\ buf_len \in Nat /\ MemOK
      /\ data_off + data_len <= buf_len /\ start + n <= data_len
  BY MbufDataAssumption DEF PInv, IInv, TypeOK, InPacket, LenConsistent, DataInside
<1>n. n \in Nat /\ u16(n) = n /\ IInv /\ TrimMbuf(n)
  BY Lens, Conversions DEF PInv, DecapsulateTail
<1>1. data_off' = data_off /\ data_len' = data_len - n
  BY <1>n, TrimMbufKeeps
<1>2. Copy(data_off + start, data_off + start + n, data_len - start)
  BY <1>t DEF DecapsulateTail
<1>3. ASSUME NEW i \in 0..(data_len' - 1)
      PROVE  Bytes'[i] = Bytes[IF i < start THEN i ELSE i + n]
  <2>0. i \in Nat /\ i + n < data_len
    BY <1>1, <1>t
  <2>1. PICK a \in 0..(buf_len - 1) : a = data_off + i
    BY <2>0, <1>t
  <2>2. Bytes'[i] = At(a)'
    BY <2>1, <1>1 DEF Bytes
  <2>3. At(a)' = IF a \in (data_off + start)..((data_off + start) + (data_len - start) - 1)
                 THEN At(a - (data_off + start) + (data_off + start + n)) ELSE At(a)
    BY <1>t, <1>2, AtAfterCopy
  <2>4. CASE i < start
    <3>1. At(a)' = At(data_off + i)
      <4>1. a \notin (data_off + start)..((data_off + start) + (data_len - start) - 1) /\ a = data_off + i
        BY <2>0, <2>1, <2>4, <1>t
      <4>2. QED
        BY <4>1, <2>3
    <3>2. i \in 0..(data_len - 1)
      BY <2>0, <1>t
    <3>3. QED
      BY <2>2, <2>4, <3>1, <3>2 DEF Bytes
  <2>5. CASE ~(i < start)
    <3>1. At(a)' = At(data_off + (i + n))
      <4>1. /\ a \in (data_off + start)..((data_off + start) + (data_len - start) - 1)
            /\ a - (data_off + start) + (data_off + start + n) = data_off + (i + n)
        BY <2>0, <2>1, <2>5, <1>t
      <4>2. QED
        BY <4>1, <2>3
    <3>2. i + n \in 0..(data_len - 1)
      BY <2>0, <1>t
    <3>3. QED
      BY <2>2, <2>5, <3>1, <3>2 DEF Bytes
  <2>6. QED
    BY <2>4, <2>5
<1>4. DOMAIN Bytes' = 0..(data_len' - 1)
  BY DEF Bytes
<1>5. QED
  BY <1>1, <1>3, <1>4 DEF Removed

(* EncapsulateTail, DecapsulateHead and DecapsulateTail keep all other     *)
(* bytes in order, for any packet, position, count, buffer and tail room.  *)
THEOREM EditsExactThm ==
  ASSUME Short
  PROVE  PacketSpec => EditsExact
<1>1. PInv /\ [PacketNext]_allVars =>
        [\A start \in Starts, n \in Counts :
           pkt.L2 = data_off /\ InPacket(start, n) /\ ok' =>
             /\ EncapsulateTail(start, n) => Inserted(start, n)
             /\ DecapsulateHead(start, n) => Removed(start, n)
             /\ DecapsulateTail(start, n) => Removed(start, n)]_allVars
  BY EditArguments, EncapsulateTailExact, DecapsulateHeadExact, DecapsulateTailExact
<1>2. QED
  BY <1>1, PacketInvariant, PTL DEF PacketSpec, EditsExact

(* Cells written inside the buffer. *)
LEMMA WriteInside ==
  ASSUME MemOK, stray \in BOOLEAN, NEW dst \in Int, NEW n \in Int, 0 <= dst, dst + n <= buf_len,
         stray' = (stray \/ ~(dst..(dst + n - 1) \subseteq DOMAIN buf))
  PROVE  stray' = stray
<1>1. buf_len \in Int /\ DOMAIN buf = 0..(buf_len - 1)
  BY MbufDataAssumption DEF MemOK
<1>2. dst..(dst + n - 1) \subseteq DOMAIN buf
  BY <1>1
<1>3. QED
  BY <1>2, Zenon

(* A packet that starts at L2 is edited inside its buffer: what it gains   *)
(* in front or behind was checked, and the copies go no further.           *)
LEMMA EditStays ==
  ASSUME PInv, stray \in BOOLEAN, NEW start \in Nat, NEW n \in 0..(U16 - 1), pkt.L2 = data_off,
         InPacket(start, n), EditOf(start, n)
  PROVE  stray' = stray
<1>t. /\ data_off \in Nat /\ data_len \in Nat /\ pkt_len = data_len /\ buf_len \in Nat
      /\ MemOK /\ IInv /\ data_off + data_len <= buf_len /\ start + n <= data_len
  BY MbufDataAssumption DEF PInv, IInv, TypeOK, DataInside, InPacket, LenConsistent
<1>n. n \in Nat /\ u16(n) = n
  BY Lens, Conversions
<1>w. ASSUME NEW dst \in Int, NEW src, NEW m \in Int, 0 <= dst, dst + m <= buf_len,
             Copy(dst, src, m)
      PROVE  stray' = stray
  BY <1>w, <1>t, WriteInside DEF Copy, Write
<1>1. CASE EncapsulateHead(start, n)
  <2>1. CASE ok'
    <3>1. Copy(data_off, data_off + n, start)
      BY <1>1, <2>1 DEF EncapsulateHead
    <3>2. data_off \in Int /\ start \in Int /\ 0 <= data_off /\ data_off + start <= buf_len
      BY <1>t, <1>n
    <3>3. QED
      BY <1>w, <3>1, <3>2
  <2>2. CASE ~ok'
    BY <1>1, <2>2 DEF EncapsulateHead
  <2>3. QED
    BY <2>1, <2>2
<1>2. CASE EncapsulateTail(start, n)
  <2>1. CASE ok'
    <3>1. AppendMbuf(n)
      BY <1>2 DEF EncapsulateTail
    <3>2. pkt_len' = data_len + n /\ data_off + (data_len + n) <= buf_len
      <4>1. IInv' /\ data_off' = data_off /\ data_len' = data_len + n
        BY <3>1, <2>1, <1>n, <1>t, AppendMbufKeeps
      <4>2. QED
        BY <4>1, <3>1, <2>1, <1>n, <1>t, AppendedLen DEF IInv, DataInside
    <3>3. PICK dst \in Int, m \in Int :
            /\ dst = data_off + start + n /\ m = pkt_len' - start - n
            /\ 0 <= dst /\ dst + m <= buf_len
      BY <3>2, <1>t, <1>n
    <3>4. Copy(dst, data_off + start, m)
      BY <1>2, <2>1, <3>3 DEF EncapsulateTail
    <3>5. QED
      BY <1>w, <3>3, <3>4
  <2>2. CASE ~ok'
    BY <1>2, <2>2 DEF EncapsulateTail
  <2>3. QED
    BY <2>1, <2>2
<1>3. CASE DecapsulateHead(start, n)
  <2>1. CASE ok'
    <3>1. PICK dst \in Int : dst = data_off + n /\ 0 <= dst /\ dst + start <= buf_len
      BY <1>t, <1>n
    <3>2. Copy(dst, data_off, start) /\ start \in Int
      BY <1>3, <2>1, <3>1 DEF DecapsulateHead
    <3>3. QED
      BY <1>w, <3>1, <3>2
  <2>2. CASE ~ok'
    BY <1>3, <2>2 DEF DecapsulateHead
  <2>3. QED
    BY <2>1, <2>2
<1>4. CASE DecapsulateTail(start, n)
  <2>1. CASE ok'
    <3>1. PICK dst \in Int, m \in Int :
            dst = data_off + start /\ m = pkt_len - start /\ 0 <= dst /\ dst + m <= buf_len
      BY <1>t, <1>n
    <3>2. Copy(dst, data_off + start + n, m)
      BY <1>4, <2>1, <3>1 DEF DecapsulateTail
    <3>3. QED
      BY <1>w, <3>1, <3>2
  <2>2. CASE ~ok'
    BY <1>4, <2>2 DEF DecapsulateTail
  <2>3. QED
    BY <2>1, <2>2
<1>5. CASE PacketBytesChange(start, n)
  <2>1. CASE ok'
    <3>1. PICK dst \in Int : dst = data_off + start /\ 0 <= dst /\ dst + n <= buf_len
      BY <1>t, <1>n
    <3>2. stray' = (stray \/ ~(dst..(dst + n - 1) \subseteq DOMAIN buf))
      BY <1>5, <2>1, <3>1 DEF PacketBytesChange, Write
    <3>3. n \in Int
      BY <1>n
    <3>4. QED
      BY <1>t, <3>1, <3>2, <3>3, WriteInside
  <2>2. CASE ~ok'
    BY <1>5, <2>2 DEF PacketBytesChange
  <2>3. QED
    BY <2>1, <2>2
<1>6. QED
  BY <1>1, <1>2, <1>3, <1>4, <1>5 DEF EditOf

LEMMA StrayIsBoolean == PacketSpec => [](stray \in BOOLEAN)
<1>1. PacketInit => stray \in BOOLEAN
  BY DEF PacketInit
<1>2. stray \in BOOLEAN /\ [PacketNext]_allVars => (stray \in BOOLEAN)'
  <2> SUFFICES ASSUME stray \in BOOLEAN, [PacketNext]_allVars PROVE stray' \in BOOLEAN
    OBVIOUS
  <2>1. ASSUME NEW start, NEW n, EditOf(start, n) PROVE stray' \in BOOLEAN
    <3>1. \A s, t : (s \/ t) \in BOOLEAN
      OBVIOUS
    <3>2. stray' = stray \/ \E t : stray' = (stray \/ t)
      BY <2>1 DEF EditOf, EncapsulateHead, EncapsulateTail, DecapsulateHead, DecapsulateTail,
                  PacketBytesChange, Copy, Write
    <3>3. QED
      BY <3>1, <3>2
  <2>2. CASE \A start \in Starts, n \in Counts : ~EditOf(start, n)
    BY <2>2 DEF PacketNext, EditOf, MbufOnly, Alloc, ParseL2, VxlanDecap, ParseData, Parsed, Receive,
                InitEmpty, ComputeChecksums, pktVars, allVars
  <2>3. QED
    BY <2>1, <2>2
<1>3. QED
  BY <1>1, <1>2, PTL DEF PacketSpec

(* Editing a packet that starts at L2 writes inside its buffer only, for   *)
(* any packet, position, count, buffer and tail room.                      *)
THEOREM EditsInsideThm ==
  ASSUME Short
  PROVE  PacketSpec => EditsInside
<1>1. PInv /\ stray \in BOOLEAN =>
        [\A start \in Starts, n \in Counts :
           pkt.L2 = data_off /\ InPacket(start, n) /\ EditOf(start, n) =>
             UNCHANGED stray]_allVars
  BY EditArguments, EditStays
<1>2. QED
  BY <1>1, PacketInvariant, StrayIsBoolean, PTL DEF EditsInside

-----------------------------------------------------------------------------
(* Empty packets. *)

(* The cells the InitEmpty functions write, for a packet that starts at d. *)
LEMMA WrittenCells ==
  ASSUME NEW f \in Templates, FrameLen(f) < U16, NEW p, NEW d \in Int, p.Ether = d,
         f.type # "none" => p.L3 = d + EtherLen,
         f.proto # "none" => p.L4 = d + EtherLen + L3Len(f), NEW a \in Int
  PROVE  Written(f, p, a) =
           IF f.type = "none" THEN buf[a]
           ELSE IF a = d THEN Cell("ether", 0, 0, f.type)
           ELSE IF a = d + EtherLen /\ f.type = "ipv4"
                THEN Cell("ipv4", IPv4MinLen, IPv4MinLen + L4Len(f) + f.pay, f.proto)
           ELSE IF a = d + EtherLen /\ f.type = "ipv6"
                THEN Cell("ipv6", 0, L4Len(f) + f.pay, f.proto)
           ELSE IF a = d + EtherLen + L3Len(f) /\ f.proto = "udp"
                THEN Cell("udp", 0, UDPLen + f.pay, "none")
           ELSE IF a = d + EtherLen + L3Len(f) /\ f.proto = "tcp"
                THEN Cell("tcp", TCPMinLen, 0, "none")
           ELSE buf[a]
<1>1. /\ f.type \in {"ipv4", "ipv6", "arp", "none"} /\ (f.type \in {"arp", "none"} => f.proto = "none")
      /\ f.pay \in Nat /\ L3Len(f) \in Nat /\ L4Len(f) \in Nat
      /\ FrameLen(f) = EtherLen + L3Len(f) + L4Len(f) + f.pay
      /\ f.type = "ipv4" => L3Len(f) = IPv4MinLen
      /\ f.type = "ipv6" => L3Len(f) = IPv6Len
      /\ f.proto = "udp" => L4Len(f) = UDPLen
  BY TemplateFacts, FrameLens, Lens
<1>2. f.type = "ipv4" => u16(IPv4MinLen + L4Len(f) + f.pay) = IPv4MinLen + L4Len(f) + f.pay
  <2>1. f.type = "ipv4" => IPv4MinLen + L4Len(f) + f.pay \in 0..(U16 - 1)
    BY <1>1, Lens
  <2>2. QED
    BY <2>1, Conversions
<1>3. u16(L4Len(f) + f.pay) = L4Len(f) + f.pay
  <2>1. L4Len(f) + f.pay \in 0..(U16 - 1)
    BY <1>1, Lens
  <2>2. QED
    BY <2>1, Conversions
<1>4. f.proto = "udp" => u16(UDPLen + f.pay) = UDPLen + f.pay
  <2>1. f.proto = "udp" => UDPLen + f.pay \in 0..(U16 - 1)
    BY <1>1, Lens
  <2>2. QED
    BY <2>1, Conversions
<1>5. CASE f.type = "none"
  <2>1. f.type # "ipv4" /\ f.type # "ipv6" /\ f.proto # "udp" /\ f.proto # "tcp"
    BY <1>1, <1>5
  <2>2. QED
    BY <1>5, <2>1 DEF Written
<1>6. CASE f.type # "none"
  <2>1. d # d + EtherLen /\ d # d + EtherLen + L3Len(f)
    BY <1>1, Lens
  <2>2. f.proto # "none" => d + EtherLen # d + EtherLen + L3Len(f)
    <3>1. f.proto # "none" => f.type \in {"ipv4", "ipv6"}
      BY <1>1
    <3>2. f.type \in {"ipv4", "ipv6"} => L3Len(f) > 0
      BY <1>1, Lens
    <3>3. QED
      BY <3>1, <3>2, <1>1, Lens
  <2>3. PICK x \in Int, y \in Int : x = d + EtherLen /\ y = d + EtherLen + L3Len(f)
    BY <1>1, Lens
  <2>4. p.L3 = x /\ (f.proto # "none" => p.L4 = y /\ x # y) /\ d # x /\ d # y
    BY <2>1, <2>2, <2>3, <1>6
  <2>5. QED
    BY <1>2, <1>3, <1>4, <1>6, <2>3, <2>4 DEF Written
<1>7. QED
  BY <1>5, <1>6

(* What a successful InitEmpty leaves: the mbuf's data starts where it did *)
(* and is as long as the frame, and every cell is written as planned.      *)
LEMMA InitEmptyBuilds ==
  ASSUME Short, PInv, NEW f \in Templates, InitEmpty(f), ok'
  PROVE  /\ frame' = f /\ last' = "InitEmpty" /\ last = "ParseL2" /\ data_len = 0
         /\ edits' = edits /\ data_off' = data_off /\ data_len' = FrameLen(f)
         /\ data_off + FrameLen(f) <= buf_len /\ data_off \in Nat
         /\ pkt'.L2 = data_off /\ pkt'.Ether = data_off
         /\ f.type # "none" => pkt'.L3 = data_off + EtherLen
         /\ f.proto # "none" => pkt'.L4 = data_off + EtherLen + L3Len(f)
         /\ f.type # "arp" => pkt'.Data = data_off + EtherLen + L3Len(f) + L4Len(f)
         /\ \A a \in 0..(buf_len - 1) : At(a) = buf[a] /\ At(a)' = Written(f, pkt', a)
<1>t. /\ pkt \in Pkt /\ last = "ParseL2" /\ pkt.L2 = data_off /\ pkt.Ether = data_off
      /\ data_off \in Nat /\ MemOK /\ IInv /\ data_len = 0 /\ buf_len \in Nat
  BY MbufDataAssumption DEF PInv, IInv, TypeOK, PktOK, InitEmpty
<1>1. FrameLen(f) \in 0..(U16 - 1)
  BY TemplateFacts, FrameLens, MbufDataAssumption DEF Short
<1>2. AppendMbuf(FrameLen(f))
  BY DEF InitEmpty
<1>3. IInv' /\ data_off' = data_off /\ data_len' = FrameLen(f)
  <2>1. FrameLen(f) \in Nat /\ u16(FrameLen(f)) = FrameLen(f)
    BY <1>1, Conversions
  <2>2. IInv' /\ data_off' = data_off /\ data_len' = data_len + FrameLen(f)
    BY <1>2, <1>t, <2>1, AppendMbufKeeps
  <2>3. QED
    BY <2>1, <2>2, <1>t
<1>4. data_off + FrameLen(f) <= buf_len
  BY <1>3 DEF IInv, DataInside
<1>5. /\ edits' = edits /\ last' = "InitEmpty" /\ frame' = f
      /\ pkt' = InitPointers(f) /\ buf' = [a \in DOMAIN buf |-> Written(f, pkt', a)]
  BY DEF InitEmpty
<1>6. \A a \in 0..(buf_len - 1) : At(a) = buf[a] /\ At(a)' = Written(f, pkt', a)
  <2>1. DOMAIN buf = 0..(buf_len - 1) /\ DOMAIN buf' = DOMAIN buf
    BY <1>5, <1>t DEF MemOK
  <2>2. \A a \in DOMAIN buf : buf'[a] = Written(f, pkt', a)
    BY <1>5
  <2>3. QED
    BY <2>1, <2>2 DEF At
<1>7. /\ SameOuter(pkt, pkt')
      /\ f.type # "none" => pkt'.L3 = data_off + EtherLen
      /\ f.proto # "none" => pkt'.L4 = data_off + EtherLen + L3Len(f)
      /\ f.type # "arp" => pkt'.Data = data_off + EtherLen + L3Len(f) + L4Len(f)
  <2>1. pkt.L2 \in Int
    BY <1>t
  <2>2. QED
    BY <2>1, <1>5, <1>t, InitPointersFacts
<1>8. QED
  BY <1>t, <1>3, <1>4, <1>5, <1>6, <1>7 DEF SameOuter

(* The headers of a packet that was just initialised. *)
LEMMA InitEmptyHeaders ==
  ASSUME Short, PInv, NEW f \in Templates, InitEmpty(f), ok', NEW p, p = pkt'
  PROVE  /\ f.type = "ipv4" =>
              At(p.L3)' = Cell("ipv4", IPv4MinLen, IPv4MinLen + L4Len(f) + f.pay, f.proto)
         /\ f.type = "ipv6" => At(p.L3)' = Cell("ipv6", 0, L4Len(f) + f.pay, f.proto)
         /\ f.proto = "udp" => At(p.L4)' = Cell("udp", 0, UDPLen + f.pay, "none")
<1>1. PICK d \in Nat : d = data_off
  BY InitEmptyBuilds
<1>2. /\ d + FrameLen(f) <= buf_len /\ p.Ether = d
      /\ f.type # "none" => p.L3 = d + EtherLen
      /\ f.proto # "none" => p.L4 = d + EtherLen + L3Len(f)
      /\ \A a \in 0..(buf_len - 1) : At(a)' = Written(f, p, a)
  BY <1>1, InitEmptyBuilds
<1>3. /\ f.type \in {"ipv4", "ipv6", "arp", "none"} /\ (f.type \in {"arp", "none"} => f.proto = "none")
      /\ f.pay \in Nat /\ L3Len(f) \in Nat /\ L4Len(f) \in Nat
      /\ FrameLen(f) = EtherLen + L3Len(f) + L4Len(f) + f.pay
      /\ f.type = "ipv4" => L3Len(f) = IPv4MinLen
      /\ f.type = "ipv6" => L3Len(f) = IPv6Len
      /\ f.proto = "udp" => L4Len(f) = UDPLen
  BY TemplateFacts, FrameLens, Lens
<1>4. FrameLen(f) < U16 /\ buf_len \in Nat
  BY MbufDataAssumption DEF Short
<1>5. PICK n3 \in Nat, n4 \in Nat, pay \in Nat : n3 = L3Len(f) /\ n4 = L4Len(f) /\ pay = f.pay
  BY <1>3
<1>6. d + EtherLen + n3 + n4 + pay <= buf_len
  BY <1>2, <1>3, <1>5, Lens
<1>7. ASSUME f.type \in {"ipv4", "ipv6"}
      PROVE  p.L3 = d + EtherLen /\ p.L3 \in 0..(buf_len - 1) /\ p.L3 # d
  <2>1. n3 > 0
    <3>1. f.type = "ipv4" => n3 > 0
      BY <1>3, <1>5, Lens
    <3>2. f.type = "ipv6" => n3 > 0
      BY <1>3, <1>5, Lens
    <3>3. QED
      BY <1>7, <3>1, <3>2
  <2>2. p.L3 = d + EtherLen
    BY <1>2, <1>7
  <2>3. QED
    BY <2>1, <2>2, <1>4, <1>6, Lens
<1>8. ASSUME f.type = "ipv4"
      PROVE  At(p.L3)' = Cell("ipv4", IPv4MinLen, IPv4MinLen + L4Len(f) + f.pay, f.proto)
  <2>1. p.L3 = d + EtherLen /\ p.L3 \in 0..(buf_len - 1) /\ p.L3 # d
    BY <1>7, <1>8
  <2>2. Written(f, p, p.L3) = Cell("ipv4", IPv4MinLen, IPv4MinLen + L4Len(f) + f.pay, f.proto)
    BY <1>2, <1>4, <1>8, <2>1, WrittenCells
  <2>3. QED
    BY <1>2, <2>1, <2>2
<1>9. ASSUME f.type = "ipv6"
      PROVE  At(p.L3)' = Cell("ipv6", 0, L4Len(f) + f.pay, f.proto)
  <2>1. p.L3 = d + EtherLen /\ p.L3 \in 0..(buf_len - 1) /\ p.L3 # d
    BY <1>7, <1>9
  <2>2. Written(f, p, p.L3) = Cell("ipv6", 0, L4Len(f) + f.pay, f.proto)
    BY <1>2, <1>4, <1>9, <2>1, WrittenCells
  <2>3. QED
    BY <1>2, <2>1, <2>2
<1>10. ASSUME f.proto = "udp"
       PROVE  At(p.L4)' = Cell("udp", 0, UDPLen + f.pay, "none")
  <2>1. f.proto # "none" /\ f.type \notin {"arp", "none"}
    BY <1>3, <1>10
  <2>2. n4 = UDPLen /\ n3 > 0 /\ f.type # "none"
    BY <1>3, <1>5, <1>10, <2>1, Lens
  <2>3. p.L4 = d + EtherLen + n3
    BY <1>2, <1>5, <2>1
  <2>4. p.L4 \in 0..(buf_len - 1) /\ p.L4 # d /\ p.L4 # d + EtherLen
    BY <2>2, <2>3, <1>4, <1>6, Lens
  <2>5. Written(f, p, p.L4) = Cell("udp", 0, UDPLen + f.pay, "none")
    BY <1>2, <1>4, <1>5, <1>10, <2>2, <2>3, <2>4, WrittenCells
  <2>6. QED
    BY <1>2, <2>4, <2>5
<1>11. QED
  BY <1>8, <1>9, <1>10

(* The length fields and pointers of a packet that was just initialised. *)
LEMMA InitEmptyRight ==
  ASSUME Short, PInv, NEW f \in Templates, InitEmpty(f)
  PROVE  BuiltRight'
<1>1. CASE ~ok'
  BY <1>1 DEF InitEmpty, BuiltRight
<1>2. CASE ok'
  <2>1. PICK d \in Nat : d = data_off
    BY <1>2, InitEmptyBuilds
  <2>2. PICK p : p = pkt'
    OBVIOUS
  <2>3. /\ frame' = f /\ data_off' = d /\ data_len' = FrameLen(f)
        /\ d + FrameLen(f) <= buf_len
        /\ p.L2 = d /\ p.Ether = d
        /\ f.type # "none" => p.L3 = d + EtherLen
        /\ f.proto # "none" => p.L4 = d + EtherLen + L3Len(f)
        /\ f.type # "arp" => p.Data = d + EtherLen + L3Len(f) + L4Len(f)
        /\ \A a \in 0..(buf_len - 1) : At(a)' = Written(f, p, a)
    BY <1>2, <2>1, <2>2, InitEmptyBuilds
  <2>4. /\ f.type \in {"ipv4", "ipv6", "arp", "none"} /\ (f.type \in {"arp", "none"} => f.proto = "none")
        /\ f.pay \in Nat /\ L3Len(f) \in Nat /\ L4Len(f) \in Nat
        /\ FrameLen(f) = EtherLen + L3Len(f) + L4Len(f) + f.pay
        /\ f.type = "ipv4" => L3Len(f) = IPv4MinLen /\ f.proto # "icmp6"
        /\ f.type = "ipv6" => L3Len(f) = IPv6Len
        /\ f.proto = "udp" => L4Len(f) = UDPLen
    BY TemplateFacts, FrameLens, Lens
  <2>5. FrameLen(f) < U16 /\ buf_len \in Nat
    BY MbufDataAssumption DEF Short
  <2>6. PICK n3 \in Nat, n4 \in Nat, pay \in Nat : n3 = L3Len(f) /\ n4 = L4Len(f) /\ pay = f.pay
    BY <2>4
  <2>7. /\ p.L3 = IF f.type # "none" THEN d + EtherLen ELSE p.L3
        /\ f.proto # "none" => p.L4 = d + EtherLen + n3
        /\ data_len' = EtherLen + n3 + n4 + pay
        /\ d + EtherLen + n3 + n4 + pay <= buf_len
        /\ f.type # "arp" => p.Data = d + EtherLen + n3 + n4
    <3>1. FrameLen(f) = EtherLen + n3 + n4 + pay
      BY <2>4, <2>6
    <3>2. d + FrameLen(f) = d + EtherLen + n3 + n4 + pay
      BY <3>1, Lens
    <3>3. QED
      BY <2>3, <2>6, <3>1, <3>2
  <2>h. /\ f.type = "ipv4" =>
             At(p.L3)' = Cell("ipv4", IPv4MinLen, IPv4MinLen + n4 + pay, f.proto)
        /\ f.type = "ipv6" => At(p.L3)' = Cell("ipv6", 0, n4 + pay, f.proto)
        /\ f.proto = "udp" => At(p.L4)' = Cell("udp", 0, UDPLen + pay, "none")
    BY <1>2, <2>2, <2>6, InitEmptyHeaders, Zenon
  <2>8. f.type = "ipv4" => At(p.L3)'.len = IPv4MinLen + n4 + pay
    BY <2>h DEF Cell
  <2>9. f.type = "ipv6" => At(p.L3)'.len = n4 + pay
    BY <2>h DEF Cell
  <2>10. f.proto = "udp" => At(p.L4)'.len = UDPLen + pay
    BY <2>h DEF Cell
  <2>11. f.type # "arp" => p.Data + pay = d + data_len'
    BY <2>7, Lens
  <2>12. f.type = "ipv4" => IPv4MinLen + n4 + pay = (d + data_len') - p.L3
    <3>1. SUFFICES ASSUME f.type = "ipv4" PROVE IPv4MinLen + n4 + pay = (d + data_len') - p.L3
      OBVIOUS
    <3>2. n3 = IPv4MinLen /\ p.L3 = d + EtherLen
      BY <2>4, <2>6, <2>7, <3>1
    <3>3. QED
      BY <3>2, <2>7, Lens
  <2>13. f.type = "ipv6" => n4 + pay = (d + data_len') - p.L3 - IPv6Len
    <3>1. SUFFICES ASSUME f.type = "ipv6" PROVE n4 + pay = (d + data_len') - p.L3 - IPv6Len
      OBVIOUS
    <3>2. n3 = IPv6Len /\ p.L3 = d + EtherLen
      BY <2>4, <2>6, <2>7, <3>1
    <3>3. QED
      BY <3>2, <2>7, Lens
  <2>14. f.proto = "udp" => UDPLen + pay = (d + data_len') - p.L4
    <3>1. SUFFICES ASSUME f.proto = "udp" PROVE UDPLen + pay = (d + data_len') - p.L4
      OBVIOUS
    <3>2. n4 = UDPLen /\ p.L4 = d + EtherLen + n3
      BY <2>4, <2>6, <2>7, <3>1
    <3>3. QED
      BY <3>2, <2>7, Lens
  <2>15. f.proto = "icmp6" /\ pay = NDMessageSize + NDOptionSize =>
           NDOption' # NULL /\ NDOption' + NDOptionSize = d + data_len'
    <3>1. SUFFICES ASSUME f.proto = "icmp6", pay = NDMessageSize + NDOptionSize
                   PROVE  NDOption' # NULL /\ NDOption' + NDOptionSize = d + data_len'
      OBVIOUS
    <3>2. f.type # "arp"
      BY <2>4, <3>1
    <3>3. /\ p.Data = d + EtherLen + n3 + n4 /\ p.Data \in Int
          /\ data_len' - (p.Data - p.L2) - NDMessageSize > 0
          /\ p.Data + NDMessageSize + NDOptionSize = d + data_len'
      BY <3>1, <3>2, <2>3, <2>7, Lens
    <3>4. NDOption' = p.Data + NDMessageSize
      BY <3>3, <2>2 DEF NDOption, CheckEnoughSpace
    <3>5. NDOption' \in Int
      BY <3>3, <3>4, Lens
    <3>6. QED
      BY <3>3, <3>4, <3>5, PacketAssumption
  <2>16. BuiltRight' =
           LET end == data_off' + data_len'
           IN last' = "InitEmpty" =>
             /\ f.type = "ipv4" => At(p.L3)'.len = end - p.L3
             /\ f.type = "ipv6" => At(p.L3)'.len = end - p.L3 - IPv6Len
             /\ f.proto = "udp" => At(p.L4)'.len = end - p.L4
             /\ f.type # "arp" => p.Data + f.pay = end
             /\ f.proto = "icmp6" /\ f.pay = NDMessageSize + NDOptionSize =>
                  NDOption' # NULL /\ NDOption' + NDOptionSize = end
    BY <2>2, <2>3 DEF BuiltRight, At
  <2>17. /\ f.type = "ipv4" => At(p.L3)'.len = (d + data_len') - p.L3
         /\ f.type = "ipv6" => At(p.L3)'.len = (d + data_len') - p.L3 - IPv6Len
         /\ f.proto = "udp" => At(p.L4)'.len = (d + data_len') - p.L4
         /\ f.type # "arp" => p.Data + f.pay = d + data_len'
         /\ f.proto = "icmp6" /\ f.pay = NDMessageSize + NDOptionSize =>
              NDOption' # NULL /\ NDOption' + NDOptionSize = d + data_len'
    BY <2>6, <2>8, <2>9, <2>10, <2>11, <2>12, <2>13, <2>14, <2>15
  <2>18. QED
    BY <2>3, <2>16, <2>17, Zenon
<1>3. QED
  BY <1>1, <1>2

(* Only InitEmpty says that it made the packet. *)
LEMMA OthersBuildNothing ==
  ASSUME [PacketNext]_allVars, last' = "InitEmpty"
  PROVE  (\E f \in Templates : InitEmpty(f)) \/ UNCHANGED allVars
<1>1. MbufOnly => last' # "InitEmpty"
  BY DEF MbufOnly, pktVars
<1>2. Alloc \/ ParseL2 \/ VxlanDecap \/ ParseData => last' # "InitEmpty"
  BY DEF Alloc, ParseL2, VxlanDecap, ParseData, Parsed
<1>3. \A f : Receive(f) => last' # "InitEmpty"
  BY DEF Receive
<1>4. \A a, h, data : ComputeChecksums(a, h, data) => last' # "InitEmpty"
  BY DEF ComputeChecksums
<1>5. \A start, n : /\ ~EncapsulateHead(start, n) /\ ~EncapsulateTail(start, n)
                    /\ ~DecapsulateHead(start, n) /\ ~DecapsulateTail(start, n)
                    /\ ~PacketBytesChange(start, n)
  BY DEF EncapsulateHead, EncapsulateTail, DecapsulateHead, DecapsulateTail,
         PacketBytesChange, Edit
<1>6. PacketNext => \E f \in Templates : InitEmpty(f)
  BY <1>1, <1>2, <1>3, <1>4, <1>5, Zenon DEF PacketNext
<1>7. QED
  BY <1>6

(* Whatever headers a packet is made with, its length fields agree with    *)
(* the length of its data, and Data is followed by exactly the payload.    *)
THEOREM BuiltRightThm ==
  ASSUME Short
  PROVE  PacketSpec => []BuiltRight
<1>1. PacketInit => BuiltRight
  BY DEF PacketInit, BuiltRight
<1>2. PInv /\ BuiltRight /\ [PacketNext]_allVars => BuiltRight'
  <2> SUFFICES ASSUME PInv, BuiltRight, [PacketNext]_allVars PROVE BuiltRight'
    OBVIOUS
  <2>1. CASE last' # "InitEmpty"
    BY <2>1 DEF BuiltRight
  <2>2. CASE \E f \in Templates : InitEmpty(f)
    BY <2>2, InitEmptyRight
  <2>3. CASE UNCHANGED allVars
    BY <2>3 DEF allVars, vars, mbufVars, pktVars, BuiltRight, At, NDOption, CheckEnoughSpace
  <2>4. QED
    BY <2>1, <2>2, <2>3, OthersBuildNothing
<1>3. QED
  BY <1>1, <1>2, PacketInvariant, PTL DEF PacketSpec

-----------------------------------------------------------------------------
(* Parsing.  MemInv is the invariant: until bytes are inserted or removed, *)
(* memory holds the headers of the frame, or nothing yet.                  *)

Holds(f) ==
  \A i \in 0..(FrameLen(f) - 1) :
    At(data_off + i).p = FrameCell(f, i).p /\ At(data_off + i).hl = FrameCell(f, i).hl

Blank == frame = NoFrame /\ \A a \in DOMAIN buf : buf[a].p = "none" /\ buf[a].hl = 0

MemInv ==
  edits = 0 =>
    \/ Blank /\ (last # "none" => data_len = 0)
    \/ last # "none" /\ frame \in Frames /\ data_len = FrameLen(frame) /\ Holds(frame)

(* The fields of a cell. *)
LEMMA CellFields ==
  /\ \A h, hl, len, p : Cell(h, hl, len, p).hl = hl /\ Cell(h, hl, len, p).p = p
  /\ \A i : Byte(i).hl = 0 /\ Byte(i).p = "none"
  BY DEF Cell, Byte

(* Where a frame has its headers, and what they hold. *)
LEMMA FrameCells ==
  ASSUME NEW f \in Frames, NEW b \in Int, b = Base(f), NEW e3 \in Int, e3 = b + EtherLen,
         NEW e4 \in Int, e4 = e3 + L3Len(f)
  PROVE  /\ b \in 0..(FrameLen(f) - 1) /\ FrameCell(f, b).p = f.type
         /\ f.type \in {"ipv4", "ipv6"} => /\ e3 \in 0..(FrameLen(f) - 1)
                                           /\ FrameCell(f, e3).p = f.proto
         /\ f.type = "ipv4" => FrameCell(f, e3).hl = L3Len(f)
         /\ f.proto \in {"udp", "tcp"} => e4 \in 0..(FrameLen(f) - 1)
         /\ f.proto = "udp" => FrameCell(f, e4).p = "none"
         /\ f.proto = "tcp" => FrameCell(f, e4).hl = L4Len(f)
<1>1. /\ f.pay \in Nat /\ b \in Nat /\ L3Len(f) \in Nat /\ L4Len(f) \in Nat
      /\ FrameLen(f) = b + EtherLen + L3Len(f) + L4Len(f) + f.pay
      /\ f.vxlan \in BOOLEAN /\ f.type \in {"ipv4", "ipv6", "arp", "none"}
      /\ b = IF f.vxlan THEN EtherLen + IPv4MinLen + UDPLen + VXLANLen ELSE 0
      /\ f.type \in {"arp", "none"} => f.proto = "none"
  BY FrameLens
<1>2. f.type \in {"ipv4", "ipv6"} => L3Len(f) > 0
  <2>1. f.type = "ipv4" => L3Len(f) > 0
    BY FrameLens, Lens
  <2>2. f.type = "ipv6" => L3Len(f) > 0
    BY FrameLens, Lens
  <2>3. QED
    BY <2>1, <2>2
<1>3. f.proto \in {"udp", "tcp"} => L4Len(f) > 0 /\ f.type \in {"ipv4", "ipv6"}
  <2>1. f.proto = "udp" => L4Len(f) > 0 /\ f.proto # "none"
    BY FrameLens, Lens
  <2>2. f.proto = "tcp" => L4Len(f) > 0 /\ f.proto # "none"
    BY FrameLens, Lens
  <2>3. f.proto # "none" => f.type \in {"ipv4", "ipv6"}
    BY <1>1
  <2>4. QED
    BY <2>1, <2>2, <2>3
<1>4. /\ b \in 0..(FrameLen(f) - 1)
      /\ f.type \in {"ipv4", "ipv6"} => e3 \in 0..(FrameLen(f) - 1)
      /\ f.proto \in {"udp", "tcp"} => e4 \in 0..(FrameLen(f) - 1)
  BY <1>1, <1>2, <1>3, Lens
<1>5. PICK o3 \in Int, o4 \in Int : o3 = EtherLen /\ o4 = EtherLen + IPv4MinLen
  BY Lens
<1>6. /\ b # e3 /\ b # e4 /\ (f.type \in {"ipv4", "ipv6"} => e3 # e4)
      /\ f.vxlan => /\ b # 0 /\ e3 # 0 /\ e4 # 0
                    /\ b # o3 /\ e3 # o3 /\ e4 # o3 /\ b # o4 /\ e3 # o4 /\ e4 # o4
  BY <1>1, <1>2, <1>5, Lens
<1>c. ASSUME NEW i \in Int
      PROVE  FrameCell(f, i) =
               CASE f.vxlan /\ i = 0 -> Cell("ether", 0, 0, "ipv4")
                 [] f.vxlan /\ i = o3 -> Cell("ipv4", IPv4MinLen, FrameLen(f) - EtherLen, "udp")
                 [] f.vxlan /\ i = o4 ->
                      Cell("udp", 0, FrameLen(f) - EtherLen - IPv4MinLen, "4789")
                 [] i = b -> Cell("ether", 0, 0, f.type)
                 [] i = e3 /\ f.type = "ipv4" -> Cell("ipv4", L3Len(f), FrameLen(f) - i, f.proto)
                 [] i = e3 /\ f.type = "ipv6" -> Cell("ipv6", 0, FrameLen(f) - i - IPv6Len, f.proto)
                 [] i = e4 /\ f.proto = "udp" -> Cell("udp", 0, FrameLen(f) - i, "none")
                 [] i = e4 /\ f.proto = "tcp" -> Cell("tcp", L4Len(f), 0, "none")
                 [] OTHER -> Byte(i)
  BY <1>5 DEF FrameCell
<1>7. FrameCell(f, b) = Cell("ether", 0, 0, f.type)
  BY <1>c, <1>6
<1>8. f.type = "ipv4" => FrameCell(f, e3) = Cell("ipv4", L3Len(f), FrameLen(f) - e3, f.proto)
  BY <1>c, <1>6
<1>9. f.type = "ipv6" => FrameCell(f, e3) = Cell("ipv6", 0, FrameLen(f) - e3 - IPv6Len, f.proto)
  BY <1>c, <1>6
<1>10. f.proto = "udp" => FrameCell(f, e4) = Cell("udp", 0, FrameLen(f) - e4, "none")
  BY <1>c, <1>3, <1>6
<1>11. f.proto = "tcp" => FrameCell(f, e4) = Cell("tcp", L4Len(f), 0, "none")
  BY <1>c, <1>3, <1>6
<1>12. QED
  BY <1>4, <1>7, <1>8, <1>9, <1>10, <1>11, CellFields

(* The headers of the tunnel around a frame. *)
LEMMA OuterCells ==
  ASSUME NEW f \in Frames, f.vxlan, NEW o4 \in Int, o4 = EtherLen + IPv4MinLen
  PROVE  /\ 0 \in 0..(FrameLen(f) - 1) /\ FrameCell(f, 0).p = "ipv4"
         /\ EtherLen \in 0..(FrameLen(f) - 1)
         /\ FrameCell(f, EtherLen).p = "udp" /\ FrameCell(f, EtherLen).hl = IPv4MinLen
         /\ o4 \in 0..(FrameLen(f) - 1) /\ FrameCell(f, o4).p = "4789"
<1>1. /\ f.pay \in Nat /\ L3Len(f) \in Nat /\ L4Len(f) \in Nat
      /\ FrameLen(f) = Base(f) + EtherLen + L3Len(f) + L4Len(f) + f.pay
      /\ Base(f) = EtherLen + IPv4MinLen + UDPLen + VXLANLen
  BY FrameLens
<1>2. PICK b \in Int, e3 \in Int, e4 \in Int :
        b = Base(f) /\ e3 = b + EtherLen /\ e4 = b + EtherLen + L3Len(f)
  BY <1>1, Lens
<1>3. /\ EtherLen # 0 /\ o4 # 0 /\ o4 # EtherLen
      /\ b # 0 /\ e3 # 0 /\ e4 # 0 /\ b # EtherLen /\ e3 # EtherLen /\ e4 # EtherLen
      /\ b # o4 /\ e3 # o4 /\ e4 # o4
  BY <1>1, <1>2, Lens
<1>c. ASSUME NEW i \in Int
      PROVE  FrameCell(f, i) =
               CASE i = 0 -> Cell("ether", 0, 0, "ipv4")
                 [] i = EtherLen -> Cell("ipv4", IPv4MinLen, FrameLen(f) - EtherLen, "udp")
                 [] i = o4 -> Cell("udp", 0, FrameLen(f) - EtherLen - IPv4MinLen, "4789")
                 [] i = b -> Cell("ether", 0, 0, f.type)
                 [] i = e3 /\ f.type = "ipv4" -> Cell("ipv4", L3Len(f), FrameLen(f) - i, f.proto)
                 [] i = e3 /\ f.type = "ipv6" -> Cell("ipv6", 0, FrameLen(f) - i - IPv6Len, f.proto)
                 [] i = e4 /\ f.proto = "udp" -> Cell("udp", 0, FrameLen(f) - i, "none")
                 [] i = e4 /\ f.proto = "tcp" -> Cell("tcp", L4Len(f), 0, "none")
                 [] OTHER -> Byte(i)
  BY <1>2 DEF FrameCell
<1>4. FrameCell(f, 0) = Cell("ether", 0, 0, "ipv4")
  BY <1>c, <1>3
<1>5. FrameCell(f, EtherLen) = Cell("ipv4", IPv4MinLen, FrameLen(f) - EtherLen, "udp")
  BY <1>c, <1>3, Lens
<1>6. FrameCell(f, o4) = Cell("udp", 0, FrameLen(f) - EtherLen - IPv4MinLen, "4789")
  BY <1>c, <1>3
<1>7. 0 \in 0..(FrameLen(f) - 1) /\ EtherLen \in 0..(FrameLen(f) - 1) /\ o4 \in 0..(FrameLen(f) - 1)
  BY <1>1, Lens
<1>8. QED
  BY <1>4, <1>5, <1>6, <1>7, CellFields

(* What the parser sees of a frame in memory, behind its tunnel if any. *)
LEMMA LayersAt ==
  ASSUME NEW f \in Frames, Holds(f), data_off \in Int, NEW a \in Int, a = data_off + Base(f)
  PROVE  /\ At(a).p = f.type
         /\ ProtoAt(a) = IF Known(f) THEN f.proto ELSE "none"
         /\ Known(f) => L4At(a) = a + EtherLen + L3Len(f) /\ DataAt(a) = L4At(a) + L4Len(f)
         /\ f.type = "ipv4" /\ f.proto = "udp" => At(L4At(a)).p # "4789"
         /\ f.type = "ipv4" => At(a + EtherLen).p = f.proto
<1>1. PICK b \in Int, e3 \in Int, e4 \in Int :
        b = Base(f) /\ e3 = b + EtherLen /\ e4 = e3 + L3Len(f)
  BY FrameLens, Lens
<1>2. /\ b \in 0..(FrameLen(f) - 1) /\ FrameCell(f, b).p = f.type
      /\ f.type \in {"ipv4", "ipv6"} => /\ e3 \in 0..(FrameLen(f) - 1)
                                        /\ FrameCell(f, e3).p = f.proto
      /\ f.type = "ipv4" => FrameCell(f, e3).hl = L3Len(f)
      /\ f.proto \in {"udp", "tcp"} => e4 \in 0..(FrameLen(f) - 1)
      /\ f.proto = "udp" => FrameCell(f, e4).p = "none"
      /\ f.proto = "tcp" => FrameCell(f, e4).hl = L4Len(f)
  BY <1>1, FrameCells
<1>3. PICK a3 \in Int, a4 \in Int : a3 = data_off + e3 /\ a4 = data_off + e4
  OBVIOUS
<1>4. a3 = a + EtherLen /\ a4 = a + EtherLen + L3Len(f) /\ a4 = a3 + L3Len(f)
  BY <1>1, <1>3, FrameLens, Lens
<1>5. /\ At(a).p = f.type
      /\ f.type \in {"ipv4", "ipv6"} => At(a3).p = f.proto
      /\ f.type = "ipv4" => At(a3).hl = L3Len(f)
      /\ f.proto = "udp" => At(a4).p = "none"
      /\ f.proto = "tcp" => At(a4).hl = L4Len(f)
  BY <1>1, <1>2, <1>3 DEF Holds
<1>6. ProtoAt(a) = IF Known(f) THEN f.proto ELSE "none"
  BY <1>4, <1>5 DEF ProtoAt, Known
<1>7. /\ f.type = "ipv4" => L4At(a) = a4
      /\ f.type = "ipv6" => L4At(a) = a4
  BY <1>4, <1>5, FrameLens DEF L4At
<1>8. Known(f) => L4At(a) = a4 /\ f.proto \in {"udp", "tcp", "icmp", "icmp6"}
  BY <1>7 DEF Known
<1>9. Known(f) => DataAt(a) = a4 + L4Len(f)
  <2>1. SUFFICES ASSUME Known(f) PROVE DataAt(a) = a4 + L4Len(f)
    OBVIOUS
  <2>2. ProtoAt(a) = f.proto /\ L4At(a) = a4
    BY <1>6, <1>8, <2>1
  <2>3. CASE f.proto = "tcp"
    BY <1>5, <2>2, <2>3 DEF DataAt
  <2>4. CASE f.proto = "udp"
    BY <2>2, <2>4, FrameLens DEF DataAt
  <2>5. CASE f.proto \in {"icmp", "icmp6"}
    BY <2>2, <2>5, FrameLens DEF DataAt
  <2>6. QED
    BY <1>8, <2>1, <2>3, <2>4, <2>5
<1>10. QED
  BY <1>4, <1>5, <1>6, <1>7, <1>8, <1>9

(* VxlanDecap recognises the tunnel of a frame, and no other. *)
LEMMA TunnelAt ==
  ASSUME NEW f \in Frames, Holds(f), data_off \in Int
  PROVE  /\ Tunnel(data_off) = f.vxlan
         /\ f.vxlan => /\ L4At(data_off) = data_off + EtherLen + IPv4MinLen
                       /\ Inner(data_off) = data_off + Base(f)
                       /\ ProtoAt(data_off) = "udp"
                       /\ DataAt(data_off) = L4At(data_off) + UDPLen
<1>1. CASE f.vxlan
  <2>1. PICK o4 \in Int : o4 = EtherLen + IPv4MinLen
    BY Lens
  <2>2. /\ 0 \in 0..(FrameLen(f) - 1) /\ FrameCell(f, 0).p = "ipv4"
        /\ EtherLen \in 0..(FrameLen(f) - 1)
        /\ FrameCell(f, EtherLen).p = "udp" /\ FrameCell(f, EtherLen).hl = IPv4MinLen
        /\ o4 \in 0..(FrameLen(f) - 1) /\ FrameCell(f, o4).p = "4789"
    BY <1>1, <2>1, OuterCells
  <2>3. data_off + 0 = data_off
    OBVIOUS
  <2>4. /\ At(data_off).p = "ipv4" /\ At(data_off + EtherLen).p = "udp"
        /\ At(data_off + EtherLen).hl = IPv4MinLen /\ At(data_off + o4).p = "4789"
    BY <2>2, <2>3 DEF Holds
  <2>5. L4At(data_off) = data_off + EtherLen + IPv4MinLen /\ L4At(data_off) = data_off + o4
    BY <2>1, <2>4, Lens DEF L4At
  <2>6. Tunnel(data_off)
    BY <2>4, <2>5 DEF Tunnel
  <2>7. ProtoAt(data_off) = "udp"
    BY <2>4 DEF ProtoAt
  <2>8. DataAt(data_off) = L4At(data_off) + UDPLen
    BY <2>7 DEF DataAt
  <2>9. Inner(data_off) = data_off + Base(f)
    BY <1>1, <2>5, FrameLens, Lens DEF Inner
  <2>10. (Tunnel(data_off) = TRUE) /\ (f.vxlan = TRUE)
    BY <1>1, <2>6, FrameLens DEF Tunnel
  <2>11. QED
    BY <2>5, <2>7, <2>8, <2>9, <2>10
<1>2. CASE ~f.vxlan
  <2>1. data_off = data_off + Base(f)
    BY <1>2, FrameLens
  <2>2. /\ At(data_off).p = f.type
        /\ f.type = "ipv4" /\ f.proto = "udp" => At(L4At(data_off)).p # "4789"
        /\ f.type = "ipv4" => At(data_off + EtherLen).p = f.proto
    BY <2>1, LayersAt
  <2>3. ~Tunnel(data_off)
    BY <2>2 DEF Tunnel
  <2>4. (Tunnel(data_off) = FALSE) /\ (f.vxlan = FALSE)
    BY <1>2, <2>3, FrameLens DEF Tunnel
  <2>5. QED
    BY <2>4
<1>3. QED
  BY <1>1, <1>2, FrameLens

(* Calls that leave the frame and the mbuf's data alone. *)
LEMMA MemUnchanged ==
  ASSUME MemInv, UNCHANGED <<data_off, data_len, edits, buf, frame>>, last # "none", last' # "none"
  PROVE  MemInv'
<1>1. \A f : Holds(f)' <=> Holds(f)
  BY DEF Holds, At
<1>2. Blank' <=> Blank
  BY DEF Blank
<1>3. QED
  BY <1>1, <1>2 DEF MemInv

(* A received frame is what memory holds. *)
LEMMA ReceiveHolds ==
  ASSUME PInv, NEW f \in Frames, Receive(f)
  PROVE  MemInv'
<1>1. /\ data_off' = HEADROOM /\ data_len' = FrameLen(f) /\ frame' = f /\ last' = "Receive"
      /\ FrameLen(f) <= buf_len - HEADROOM
      /\ buf' = [a \in DOMAIN buf |->
           IF a \in HEADROOM..(HEADROOM + FrameLen(f) - 1) THEN FrameCell(f, a - HEADROOM) ELSE buf[a]]
  BY DEF Receive
<1>2. DOMAIN buf = 0..(buf_len - 1)
  BY DEF PInv, MemOK
<1>3. ASSUME NEW i \in 0..(FrameLen(f) - 1)
      PROVE  At(HEADROOM + i)' = FrameCell(f, i)
  <2>1. PICK n \in Nat : n = FrameLen(f)
    BY FrameLens
  <2>2. PICK a \in Int : a = HEADROOM + i
    BY MbufDataAssumption
  <2>3. a \in 0..(buf_len - 1) /\ a \in HEADROOM..(HEADROOM + n - 1) /\ a - HEADROOM = i
    BY <1>1, <2>1, <2>2, MbufDataAssumption
  <2>4. buf'[a] = FrameCell(f, i) /\ a \in DOMAIN buf'
    BY <1>1, <1>2, <2>1, <2>3
  <2>5. QED
    BY <2>2, <2>4 DEF At
<1>4. Holds(f)'
  BY <1>1, <1>3 DEF Holds
<1>5. QED
  BY <1>1, <1>4 DEF MemInv

(* A frame without a tunnel, cell by cell. *)
LEMMA PlainCells ==
  ASSUME NEW f \in Templates, NEW i \in Int
  PROVE  FrameCell(f, i) =
           CASE i = 0 -> Cell("ether", 0, 0, f.type)
             [] i = EtherLen /\ f.type = "ipv4" ->
                  Cell("ipv4", L3Len(f), FrameLen(f) - i, f.proto)
             [] i = EtherLen /\ f.type = "ipv6" ->
                  Cell("ipv6", 0, FrameLen(f) - i - IPv6Len, f.proto)
             [] i = EtherLen + L3Len(f) /\ f.proto = "udp" -> Cell("udp", 0, FrameLen(f) - i, "none")
             [] i = EtherLen + L3Len(f) /\ f.proto = "tcp" -> Cell("tcp", L4Len(f), 0, "none")
             [] OTHER -> Byte(i)
<1>1. f.vxlan = FALSE /\ Base(f) = 0
  BY TemplateFacts, FrameLens
<1>2. Base(f) + EtherLen = EtherLen /\ Base(f) + EtherLen + L3Len(f) = EtherLen + L3Len(f)
  BY <1>1, TemplateFacts, FrameLens, Lens
<1>3. QED
  BY <1>1, <1>2 DEF FrameCell

(* The headers that the InitEmpty functions write into blank memory are    *)
(* those of the frame.                                                     *)
LEMMA InitEmptyHolds ==
  ASSUME Short, PInv, MemInv, NEW f \in Templates, InitEmpty(f)
  PROVE  MemInv'
<1>1. CASE ~ok'
  <2>1. UNCHANGED <<data_off, data_len, edits, buf, frame>> /\ last = "ParseL2" /\ last' = "refused"
    BY <1>1 DEF InitEmpty, AppendMbuf, Refuse, Accept, mbufVars
  <2>2. QED
    BY <2>1, MemUnchanged
<1>2. CASE ok' /\ edits' # 0
  BY <1>2 DEF MemInv
<1>3. CASE ok' /\ edits' = 0
  <2>t. ok'
    BY <1>3
  <2>1. PICK d \in Nat : d = data_off
    BY <2>t, InitEmptyBuilds
  <2>2. PICK p : p = pkt'
    OBVIOUS
  <2>3. /\ frame' = f /\ data_off' = d /\ data_len' = FrameLen(f) /\ data_len = 0
        /\ last = "ParseL2" /\ last' = "InitEmpty" /\ edits' = edits
        /\ d + FrameLen(f) <= buf_len /\ p.Ether = d
        /\ f.type # "none" => p.L3 = d + EtherLen
        /\ f.proto # "none" => p.L4 = d + EtherLen + L3Len(f)
        /\ \A a \in 0..(buf_len - 1) : At(a) = buf[a] /\ At(a)' = Written(f, p, a)
    BY <2>t, <2>1, <2>2, InitEmptyBuilds
  <2>4. Blank
    <3>1. \A g \in Frames : FrameLen(g) # 0
      BY FrameLens, Lens
    <3>2. QED
      BY <3>1, <2>3, <1>3 DEF MemInv
  <2>5. /\ f \in Frames /\ f.type \in {"ipv4", "ipv6", "arp", "none"}
        /\ (f.type \in {"arp", "none"} => f.proto = "none")
        /\ L3Len(f) \in Nat /\ FrameLen(f) \in Nat
        /\ f.type = "ipv4" => L3Len(f) = IPv4MinLen
        /\ f.type = "ipv6" => L3Len(f) = IPv6Len
        /\ f.proto = "tcp" => L4Len(f) = TCPMinLen
    BY TemplateFacts, FrameLens, Lens
  <2>6. ASSUME NEW i \in 0..(FrameLen(f) - 1)
        PROVE  /\ At(d + i)'.p = FrameCell(f, i).p
               /\ At(d + i)'.hl = FrameCell(f, i).hl
    <3>1. PICK a \in 0..(buf_len - 1) : a = d + i
      BY <2>3, <2>5, MbufDataAssumption
    <3>2. PICK e \in Int, t \in Int : e = EtherLen /\ t = EtherLen + L3Len(f)
      BY <2>5, Lens
    <3>3. /\ (a = d) = (i = 0) /\ (a = d + EtherLen) = (i = e)
          /\ (a = d + EtherLen + L3Len(f)) = (i = t)
      BY <3>1, <3>2, <2>5, Lens
    <3>4. buf[a].p = "none" /\ buf[a].hl = 0
      BY <2>4 DEF Blank, PInv, MemOK
    <3>5. FrameLen(f) < U16
      BY DEF Short
    <3>6. At(a)' = IF f.type = "none" THEN buf[a]
                   ELSE IF i = 0 THEN Cell("ether", 0, 0, f.type)
                   ELSE IF i = e /\ f.type = "ipv4"
                        THEN Cell("ipv4", IPv4MinLen, IPv4MinLen + L4Len(f) + f.pay, f.proto)
                   ELSE IF i = e /\ f.type = "ipv6"
                        THEN Cell("ipv6", 0, L4Len(f) + f.pay, f.proto)
                   ELSE IF i = t /\ f.proto = "udp" THEN Cell("udp", 0, UDPLen + f.pay, "none")
                   ELSE IF i = t /\ f.proto = "tcp" THEN Cell("tcp", TCPMinLen, 0, "none")
                   ELSE buf[a]
      BY <2>3, <3>3, <3>5, WrittenCells
    <3>7. FrameCell(f, i) =
            CASE i = 0 -> Cell("ether", 0, 0, f.type)
              [] i = e /\ f.type = "ipv4" -> Cell("ipv4", L3Len(f), FrameLen(f) - i, f.proto)
              [] i = e /\ f.type = "ipv6" -> Cell("ipv6", 0, FrameLen(f) - i - IPv6Len, f.proto)
              [] i = t /\ f.proto = "udp" -> Cell("udp", 0, FrameLen(f) - i, "none")
              [] i = t /\ f.proto = "tcp" -> Cell("tcp", L4Len(f), 0, "none")
              [] OTHER -> Byte(i)
      BY <3>2, PlainCells
    <3>8. /\ e # 0 /\ t # 0 /\ (f.type = "none" => f.proto = "none")
          /\ f.proto # "none" => e # t
      <4>1. e # 0 /\ t # 0 /\ (f.type = "none" => f.proto = "none")
        BY <3>2, <2>5, Lens
      <4>2. f.type = "ipv4" => e # t
        BY <3>2, <2>5, Lens
      <4>3. f.type = "ipv6" => e # t
        BY <3>2, <2>5, Lens
      <4>4. QED
        BY <4>1, <4>2, <4>3, <2>5
    <3>9. /\ At(a)'.p = FrameCell(f, i).p
          /\ At(a)'.hl = FrameCell(f, i).hl
      <4>1. CASE f.type = "none"
        <5>1. f.type # "ipv4" /\ f.type # "ipv6" /\ f.proto # "udp" /\ f.proto # "tcp"
          BY <4>1, <3>8
        <5>2. FrameCell(f, i) = Cell("ether", 0, 0, "none") \/ FrameCell(f, i) = Byte(i)
          BY <4>1, <3>7, <5>1
        <5>3. QED
          BY <4>1, <3>4, <3>6, <5>2, CellFields
      <4>2. CASE f.type # "none" /\ i = 0
        <5>1. FrameCell(f, i) = Cell("ether", 0, 0, f.type) /\ At(a)' = Cell("ether", 0, 0, f.type)
          BY <4>2, <3>6, <3>7, <3>8
        <5>2. QED
          BY <5>1, CellFields
      <4>3. CASE i = e /\ f.type = "ipv4"
        <5>1. /\ FrameCell(f, i) = Cell("ipv4", L3Len(f), FrameLen(f) - i, f.proto)
              /\ At(a)' = Cell("ipv4", IPv4MinLen, IPv4MinLen + L4Len(f) + f.pay, f.proto)
          BY <4>3, <3>6, <3>7, <3>8
        <5>2. QED
          BY <4>3, <5>1, <2>5, CellFields
      <4>4. CASE i = e /\ f.type = "ipv6"
        <5>1. /\ FrameCell(f, i) = Cell("ipv6", 0, FrameLen(f) - i - IPv6Len, f.proto)
              /\ At(a)' = Cell("ipv6", 0, L4Len(f) + f.pay, f.proto)
          BY <4>4, <3>6, <3>7, <3>8
        <5>2. QED
          BY <5>1, CellFields
      <4>5. CASE i = t /\ f.proto = "udp"
        <5>1. /\ FrameCell(f, i) = Cell("udp", 0, FrameLen(f) - i, "none")
              /\ At(a)' = Cell("udp", 0, UDPLen + f.pay, "none")
          BY <4>5, <3>6, <3>7, <3>8
        <5>2. QED
          BY <5>1, CellFields
      <4>6. CASE i = t /\ f.proto = "tcp"
        <5>1. /\ FrameCell(f, i) = Cell("tcp", L4Len(f), 0, "none")
              /\ At(a)' = Cell("tcp", TCPMinLen, 0, "none")
          BY <4>6, <3>6, <3>7, <3>8
        <5>2. QED
          BY <4>6, <5>1, <2>5, CellFields
      <4>7. CASE /\ f.type # "none" /\ i # 0
                 /\ ~(i = e /\ f.type = "ipv4") /\ ~(i = e /\ f.type = "ipv6")
                 /\ ~(i = t /\ f.proto = "udp") /\ ~(i = t /\ f.proto = "tcp")
        <5>1. FrameCell(f, i) = Byte(i) /\ At(a)' = buf[a]
          BY <4>7, <3>6, <3>7
        <5>2. QED
          BY <5>1, <3>4, CellFields
      <4>8. QED
        BY <4>1, <4>2, <4>3, <4>4, <4>5, <4>6, <4>7
    <3>10. QED
      BY <3>1, <3>9
  <2>7. Holds(f)'
    BY <2>3, <2>6 DEF Holds
  <2>8. QED
    BY <2>3, <2>5, <2>7 DEF MemInv
<1>4. QED
  BY <1>1, <1>2, <1>3

(* Blank memory is neither a tunnel nor a packet of a known protocol. *)
LEMMA BlankAt ==
  ASSUME Blank
  PROVE  /\ \A a : ~Tunnel(a) /\ ProtoAt(a) = "none"
         /\ frame.vxlan = FALSE /\ Base(frame) = 0 /\ ~Known(frame) /\ frame.type # "arp"
<1>1. \A a : At(a).p = "none"
  BY CellFields DEF Blank, At
<1>2. \A a : ~Tunnel(a) /\ ProtoAt(a) = "none"
  BY <1>1 DEF Tunnel, ProtoAt
<1>3. frame.vxlan = FALSE /\ frame.type = "none"
  BY DEF Blank, NoFrame
<1>4. QED
  BY <1>2, <1>3 DEF Base, Known

(* The pointers of a packet of a known protocol that was parsed from where *)
(* its frame starts, behind the tunnel.                                    *)
LEMMA PointersFound ==
  ASSUME PInv, frame \in Frames, Holds(frame), data_len = FrameLen(frame), Known(frame),
         NEW a \in Int, a = data_off + Base(frame), UNCHANGED <<data_off, data_len, frame>>,
         pkt'.L3 = a + EtherLen, pkt'.L4 = L4At(a), pkt'.Data = DataAt(a)
  PROVE  PointersRight(frame)'
<1>1. PICK d \in Nat : d = data_off
  BY DEF PInv, IInv, TypeOK
<1>2. PICK b \in Nat, n3 \in Nat, n4 \in Nat, pay \in Nat :
        /\ b = Base(frame) /\ n3 = L3Len(frame) /\ n4 = L4Len(frame) /\ pay = frame.pay
        /\ data_len = b + EtherLen + n3 + n4 + pay
  BY FrameLens
<1>3. L4At(a) = a + EtherLen + L3Len(frame) /\ DataAt(a) = L4At(a) + L4Len(frame)
  BY <1>1, LayersAt
<1>4. /\ pkt'.L3 = d + b + EtherLen /\ pkt'.L4 = pkt'.L3 + n3 /\ pkt'.Data = pkt'.L4 + n4
      /\ pkt'.Data + pay = d + data_len
  BY <1>1, <1>2, <1>3, Lens
<1>5. /\ Base(frame)' = b /\ L3Len(frame)' = n3 /\ L4Len(frame)' = n4 /\ frame'.pay = pay
      /\ data_off' = d /\ data_len' = data_len
  BY <1>1, <1>2 DEF Base, L3Len, L4Len
<1>6. QED
  BY <1>4, <1>5 DEF PointersRight

(* VxlanDecap finds the tunnel and the packet inside it. *)
LEMMA VxlanDecapRight ==
  ASSUME PInv, MemInv, VxlanDecap
  PROVE  ParsedRight'
<1>1. /\ UNCHANGED <<data_off, data_len, edits, buf, frame>> /\ last' = "VxlanDecap" /\ last # "none"
      /\ data_off \in Int /\ pkt \in Pkt /\ MemOK
  <2>1. last \in {"Receive", "ParseL2"}
    BY DEF VxlanDecap
  <2>2. last # "none"
    BY <2>1
  <2>3. UNCHANGED <<data_off, data_len, edits, buf, frame>> /\ last' = "VxlanDecap"
    BY VxlanDecapKeeps
  <2>4. QED
    BY <2>2, <2>3 DEF PInv, IInv, TypeOK, PktOK
<1>2. /\ ~Tunnel(data_off) => pkt'.L2 = data_off /\ pkt'.Overlay = FALSE /\ ok' = FALSE
      /\ Tunnel(data_off) =>
           /\ pkt'.Overlay = TRUE /\ pkt'.OuterL2 = data_off
           /\ pkt'.OuterL3 = data_off + EtherLen /\ pkt'.OuterL4 = L4At(data_off)
           /\ pkt'.Vxlan = L4At(data_off) + UDPLen
           /\ pkt'.L2 = Inner(data_off) /\ Inner(data_off) \in Int
           /\ ok' = (At(pkt'.L2).p = "arp" \/ ProtoAt(pkt'.L2) # "none")
           /\ pkt'.L3 = pkt'.L2 + EtherLen
           /\ ProtoAt(pkt'.L2) # "none" => pkt'.L4 = L4At(pkt'.L2) /\ pkt'.Data = DataAt(pkt'.L2)
  BY <1>1, VxlanDecapFacts
<1>3. Base(frame)' = Base(frame) /\ Known(frame)' = Known(frame)
  BY <1>1 DEF Base, Known
<1>4. SUFFICES ASSUME edits = 0
               PROVE  /\ pkt'.Overlay = frame.vxlan
                      /\ pkt'.L2 = data_off + Base(frame)
                      /\ ok' = (frame.vxlan /\ (frame.type = "arp" \/ Known(frame)))
                      /\ frame.vxlan => /\ pkt'.OuterL2 = data_off
                                        /\ pkt'.OuterL3 = data_off + EtherLen
                                        /\ pkt'.OuterL4 = pkt'.OuterL3 + IPv4MinLen
                                        /\ pkt'.Vxlan + VXLANLen = pkt'.L2
                      /\ ok' /\ Known(frame) => PointersRight(frame)'
  BY <1>1, <1>3 DEF ParsedRight
<1>f. ASSUME ~Tunnel(data_off), frame.vxlan = FALSE, Base(frame) = 0
      PROVE  /\ pkt'.Overlay = frame.vxlan
             /\ pkt'.L2 = data_off + Base(frame)
             /\ ok' = (frame.vxlan /\ (frame.type = "arp" \/ Known(frame)))
             /\ ok' = FALSE
  <2>1. pkt'.L2 = data_off /\ pkt'.Overlay = FALSE /\ ok' = FALSE
    BY <1>2, <1>f
  <2>2. data_off + 0 = data_off
    BY <1>1
  <2>3. QED
    BY <2>1, <2>2, <1>f, Zenon
<1>5. CASE Blank
  <2>1. ~Tunnel(data_off) /\ frame.vxlan = FALSE /\ Base(frame) = 0
    BY <1>5, BlankAt
  <2>2. QED
    BY <1>f, <2>1, Zenon
<1>6. CASE frame \in Frames /\ data_len = FrameLen(frame) /\ Holds(frame)
  <2>1. /\ Tunnel(data_off) = frame.vxlan
        /\ frame.vxlan => /\ L4At(data_off) = data_off + EtherLen + IPv4MinLen
                          /\ Inner(data_off) = data_off + Base(frame)
    BY <1>1, <1>6, TunnelAt
  <2>2. CASE ~frame.vxlan
    <3>1. ~Tunnel(data_off) /\ frame.vxlan = FALSE /\ Base(frame) = 0
      BY <1>6, <2>1, <2>2, FrameLens
    <3>2. QED
      BY <1>f, <3>1, Zenon
  <2>3. CASE frame.vxlan
    <3>1. Tunnel(data_off) /\ frame.vxlan = TRUE
      BY <1>6, <2>1, <2>3, FrameLens
    <3>2. PICK a \in Int : a = data_off + Base(frame) /\ a = pkt'.L2
      BY <1>2, <2>1, <3>1
    <3>3. At(a).p = frame.type /\ ProtoAt(a) = IF Known(frame) THEN frame.proto ELSE "none"
      BY <1>1, <1>6, <3>2, LayersAt
    <3>4. Known(frame) => ProtoAt(a) # "none"
      BY <3>3 DEF Known
    <3>5. ok' = (frame.type = "arp" \/ Known(frame))
      <4>1. ok' = (frame.type = "arp" \/ ProtoAt(a) # "none")
        BY <1>2, <3>1, <3>2, <3>3
      <4>2. (ProtoAt(a) # "none") <=> Known(frame)
        BY <3>3, <3>4
      <4>3. QED
        BY <4>1, <4>2
    <3>6. Known(frame) => PointersRight(frame)'
      BY <1>1, <1>2, <1>6, <3>1, <3>2, <3>4, PointersFound
    <3>7. pkt'.OuterL4 = pkt'.OuterL3 + IPv4MinLen
      BY <1>2, <2>1, <3>1
    <3>8. pkt'.Vxlan + VXLANLen = pkt'.L2
      BY <1>2, <3>1 DEF Inner
    <3>9. ok' = (frame.vxlan /\ (frame.type = "arp" \/ Known(frame)))
      BY <3>1, <3>5
    <3>10. /\ pkt'.Overlay = frame.vxlan /\ pkt'.L2 = data_off + Base(frame)
           /\ pkt'.OuterL2 = data_off /\ pkt'.OuterL3 = data_off + EtherLen
      BY <1>2, <3>1, <3>2
    <3>11. QED
      BY <3>6, <3>7, <3>8, <3>9, <3>10
  <2>4. QED
    BY <2>2, <2>3
<1>7. QED
  BY <1>1, <1>4, <1>5, <1>6 DEF MemInv

(* ParseData finds the layers of the frame, or of the tunnel around it.    *)
LEMMA ParseDataRight ==
  ASSUME PInv, MemInv, ParsedRight, ParseData
  PROVE  ParsedRight'
<1>1. /\ UNCHANGED <<data_off, data_len, edits, buf, frame>> /\ last' = "ParseData"
      /\ data_off \in Int /\ pkt \in Pkt /\ pkt.L2 \in Int /\ MemOK /\ last \in {"ParseL2", "VxlanDecap"}
  BY ParseDataKeeps DEF PInv, IInv, TypeOK, PktOK, ParseData
<1>2. /\ pkt'.L2 = pkt.L2 /\ pkt'.L3 = pkt.L2 + EtherLen
      /\ ok' = (ProtoAt(pkt.L2) # "none")
      /\ ProtoAt(pkt.L2) # "none" => pkt'.L4 = L4At(pkt.L2) /\ pkt'.Data = DataAt(pkt.L2)
  BY <1>1, ParseDataFacts DEF SameOuter
<1>3. Known(frame)' = Known(frame)
  BY <1>1 DEF Known
<1>4. SUFFICES ASSUME edits = 0
               PROVE  LET tunnel == frame.vxlan /\ pkt'.L2 = data_off
                      IN  /\ ok' = (tunnel \/ Known(frame))
                          /\ ok' /\ ~tunnel => PointersRight(frame)'
                          /\ tunnel => pkt'.Data = data_off + OuterLen - VXLANLen
  BY <1>1, <1>3 DEF ParsedRight
<1>5. CASE Blank
  BY <1>2, <1>5, BlankAt
<1>6. CASE frame \in Frames /\ data_len = FrameLen(frame) /\ Holds(frame)
  <2>1. PICK b \in Nat : b = Base(frame) /\ (frame.vxlan => b # 0)
    BY <1>6, FrameLens, Lens
  <2>2. CASE frame.vxlan /\ pkt.L2 = data_off
    <3>1. /\ L4At(data_off) = data_off + EtherLen + IPv4MinLen /\ ProtoAt(data_off) = "udp"
          /\ DataAt(data_off) = L4At(data_off) + UDPLen
      BY <1>1, <1>6, <2>2, TunnelAt
    <3>2. DataAt(data_off) = data_off + (OuterLen - VXLANLen)
      BY <3>1, <1>1, Lens DEF OuterLen
    <3>3. QED
      BY <1>2, <2>2, <3>1, <3>2
  <2>3. CASE ~(frame.vxlan /\ pkt.L2 = data_off)
    <3>1. PICK a \in Int : a = data_off + Base(frame) /\ a = pkt.L2
      <4>1. CASE last = "VxlanDecap"
        BY <4>1, <1>1, <1>4, <2>1 DEF ParsedRight
      <4>2. CASE last = "ParseL2"
        <5>1. pkt.L2 = data_off
          BY <4>2 DEF PInv, PktOK
        <5>2. Base(frame) = 0
          BY <5>1, <2>3, <1>6, FrameLens
        <5>3. QED
          BY <5>1, <5>2, <1>1
      <4>3. QED
        BY <1>1, <4>1, <4>2
    <3>2. ProtoAt(a) = IF Known(frame) THEN frame.proto ELSE "none"
      BY <1>1, <1>6, <3>1, LayersAt
    <3>3. (ProtoAt(a) # "none") <=> Known(frame)
      BY <3>2 DEF Known
    <3>4. ok' = Known(frame)
      BY <1>2, <3>1, <3>3 DEF Known
    <3>5. Known(frame) => PointersRight(frame)'
      BY <1>1, <1>2, <1>6, <3>1, <3>3, PointersFound
    <3>6. QED
      BY <1>2, <2>3, <3>4, <3>5 DEF Known
  <2>4. QED
    BY <2>2, <2>3
<1>7. QED
  BY <1>1, <1>4, <1>5, <1>6 DEF MemInv

(* Every step keeps MemInv. *)
LEMMA MemInvKept ==
  ASSUME Short, PInv, MemInv, [PacketNext]_allVars
  PROVE  MemInv'
<1>1. CASE MbufOnly
  <2>1. UNCHANGED <<buf, frame, last, edits>> /\ last = "none"
    BY <1>1 DEF MbufOnly, pktVars
  <2>2. QED
    BY <2>1 DEF MemInv, Blank
<1>2. CASE Alloc
  <2>1. UNCHANGED <<buf, frame, data_len, edits>> /\ last = "none" /\ data_len = 0
    BY <1>2 DEF Alloc, mbufVars
  <2>2. QED
    BY <2>1 DEF MemInv, Blank
<1>3. CASE ParseL2 \/ VxlanDecap \/ ParseData
  <2>1. UNCHANGED <<data_off, data_len, edits, buf, frame>>
    BY <1>3 DEF ParseL2, VxlanDecap, ParseData, Parsed, mbufVars
  <2>2. last' \in {"ParseL2", "VxlanDecap", "ParseData"}
    BY <1>3 DEF ParseL2, VxlanDecap, ParseData, Parsed
  <2>3. ParseL2 => last # "none"
    BY DEF ParseL2
  <2>4. VxlanDecap => last \in {"Receive", "ParseL2"}
    BY DEF VxlanDecap
  <2>5. ParseData => last \in {"ParseL2", "VxlanDecap"}
    BY DEF ParseData
  <2>6. last # "none" /\ last' # "none"
    BY <1>3, <2>2, <2>3, <2>4, <2>5
  <2>7. QED
    BY <2>1, <2>6, MemUnchanged
<1>4. CASE \E f \in Frames : Receive(f)
  BY <1>4, ReceiveHolds
<1>5. CASE \E f \in Templates : InitEmpty(f)
  BY <1>5, InitEmptyHolds
<1>6. CASE \E a, h, data : ComputeChecksums(a, h, data)
  <2>1. UNCHANGED <<data_off, data_len, edits, buf, frame>> /\ last = "InitEmpty" /\ last' = "Checksum"
    BY <1>6 DEF ComputeChecksums, vars, mbufVars
  <2>2. QED
    BY <2>1, MemUnchanged
<1>7. CASE \E start \in Starts, n \in Counts :
             \/ EncapsulateHead(start, n) \/ EncapsulateTail(start, n)
             \/ DecapsulateHead(start, n) \/ DecapsulateTail(start, n)
             \/ PacketBytesChange(start, n)
  <2>1. PICK start \in Starts, n \in Counts :
          \/ EncapsulateHead(start, n) \/ EncapsulateTail(start, n)
          \/ DecapsulateHead(start, n) \/ DecapsulateTail(start, n)
          \/ PacketBytesChange(start, n)
    BY <1>7
  <2>2. start \in Nat /\ n \in 0..(U16 - 1)
    BY EditArguments
  <2>3. edits' # 0
    BY <2>1, <2>2, EditKeeps
  <2>4. QED
    BY <2>3 DEF MemInv
<1>8. CASE UNCHANGED allVars
  <2>1. UNCHANGED <<data_off, data_len, edits, buf, frame, last>>
    BY <1>8 DEF allVars, vars, mbufVars, pktVars
  <2>2. QED
    BY <2>1 DEF MemInv, Blank, Holds, At
<1>9. QED
  BY <1>1, <1>2, <1>3, <1>4, <1>5, <1>6, <1>7, <1>8 DEF PacketNext

(* Only the parsers say that they parsed the packet. *)
LEMMA OthersParseNothing ==
  ASSUME [PacketNext]_allVars, last' \in {"VxlanDecap", "ParseData"}
  PROVE  VxlanDecap \/ ParseData \/ UNCHANGED allVars
<1>1. MbufOnly => last' = "none"
  BY DEF MbufOnly, pktVars
<1>2. /\ Alloc => last' = "Alloc"
      /\ ParseL2 => last' = "ParseL2"
  BY DEF Alloc, ParseL2, Parsed
<1>3. \A f : Receive(f) => last' = "Receive"
  BY DEF Receive
<1>4. \A f : InitEmpty(f) => last' \in {"InitEmpty", "refused"}
  BY DEF InitEmpty
<1>5. \A a, h, data : ComputeChecksums(a, h, data) => last' = "Checksum"
  BY DEF ComputeChecksums
<1>6. \A start, n : /\ EncapsulateHead(start, n) => last' = "edit"
                    /\ EncapsulateTail(start, n) => last' = "edit"
                    /\ DecapsulateHead(start, n) => last' = "edit"
                    /\ DecapsulateTail(start, n) => last' = "edit"
                    /\ PacketBytesChange(start, n) => last' = "edit"
  BY DEF EncapsulateHead, EncapsulateTail, DecapsulateHead, DecapsulateTail,
         PacketBytesChange, Edit
<1>7. /\ last' # "none" /\ last' # "Alloc" /\ last' # "ParseL2" /\ last' # "Receive"
      /\ last' \notin {"InitEmpty", "refused"} /\ last' # "Checksum" /\ last' # "edit"
  OBVIOUS
<1>8. PacketNext => VxlanDecap \/ ParseData
  BY <1>1, <1>2, <1>3, <1>4, <1>5, <1>6, <1>7, Zenon DEF PacketNext
<1>9. QED
  BY <1>8

(* Whatever tunnel and options a frame has, VxlanDecap and ParseData       *)
(* recognise what it is and find every header where the frame has it.      *)
THEOREM ParsedRightThm ==
  ASSUME Short
  PROVE  PacketSpec => []ParsedRight
<1>1. PacketInit => MemInv /\ ParsedRight
  <2>1. PacketInit => MemInv
    BY CellFields DEF PacketInit, Init, MemInv, Blank
  <2>2. PacketInit => last # "VxlanDecap" /\ last # "ParseData"
    BY DEF PacketInit
  <2>3. QED
    BY <2>1, <2>2 DEF ParsedRight
<1>2. PInv /\ MemInv /\ ParsedRight /\ [PacketNext]_allVars => MemInv' /\ ParsedRight'
  <2> SUFFICES ASSUME PInv, MemInv, ParsedRight, [PacketNext]_allVars PROVE MemInv' /\ ParsedRight'
    OBVIOUS
  <2>1. MemInv'
    BY MemInvKept
  <2>2. CASE last' \notin {"VxlanDecap", "ParseData"}
    <3>1. last' # "VxlanDecap" /\ last' # "ParseData"
      BY <2>2
    <3>2. QED
      BY <2>1, <3>1 DEF ParsedRight
  <2>3. CASE VxlanDecap \/ ParseData
    BY <2>1, <2>3, VxlanDecapRight, ParseDataRight
  <2>4. CASE UNCHANGED allVars
    BY <2>1, <2>4 DEF allVars, vars, mbufVars, pktVars, ParsedRight, PointersRight, Known, Base,
                      L3Len, L4Len
  <2>5. QED
    BY <2>2, <2>3, <2>4, OthersParseNothing
<1>3. QED
  BY <1>1, <1>2, PacketInvariant, PTL DEF PacketSpec

-----------------------------------------------------------------------------
(* Checksums.  Everything is said with multiples of W - 1: reduceChecksum  *)
(* subtracts such a multiple, so that the sum of a packet and its checksum *)
(* is one, and the loop over the payload adds what is on the wire.         *)

(* Induction over the natural numbers, for a set in place of a predicate. *)
LEMMA SetInduction ==
  ASSUME NEW S, \A n \in Nat : (\A m \in Nat : m < n => m \in S) => n \in S
  PROVE  Nat \subseteq S
<1> DEFINE T == Nat \ S
<1>1. SUFFICES ASSUME T # {} PROVE FALSE
  OBVIOUS
<1>2. PICK x \in T : \A y \in T : ~ (<<y, x>> \in OpToRel(<, Nat))
  BY <1>1, WFMin, NatLessThanWellFounded
<1>3. \A y \in T : ~ (y < x)
  BY <1>2 DEF OpToRel
<1>4. \A m \in Nat : m < x => m \in S
  BY <1>3
<1>5. QED
  BY <1>4

(* The sums of the first elements of s, up to n of them. *)
Sums(n, s, f) == f = [i \in 0..n |-> IF i = 0 THEN 0 ELSE f[i - 1] + s[i]]

(* The recursion of SumTo has a solution. *)
LEMMA SumsExist ==
  ASSUME NEW s
  PROVE  \A n \in Nat : \E f : Sums(n, s, f)
<1> DEFINE S == {n \in Nat : \E f : Sums(n, s, f)}
<1>1. ASSUME NEW n \in Nat, \A m \in Nat : m < n => m \in S PROVE n \in S
  <2>1. CASE n = 0
    <3>1. Sums(0, s, [i \in 0..0 |-> 0])
      BY DEF Sums
    <3>2. QED
      BY <2>1, <3>1
  <2>2. CASE n # 0
    <3>1. n - 1 \in Nat /\ n - 1 < n
      BY <2>2
    <3>2. PICK f : Sums(n - 1, s, f)
      BY <1>1, <3>1
    <3> DEFINE g == [i \in 0..n |-> IF i = n THEN f[n - 1] + s[n] ELSE f[i]]
    <3>3. ASSUME NEW i \in 0..n
          PROVE  g[i] = IF i = 0 THEN 0 ELSE g[i - 1] + s[i]
      <4>1. CASE i = n
        BY <2>2, <4>1
      <4>2. CASE i \in 0..(n - 1)
        <5>1. g[i] = f[i] /\ (i # 0 => g[i - 1] = f[i - 1])
          BY <4>2
        <5>2. f[i] = IF i = 0 THEN 0 ELSE f[i - 1] + s[i]
          BY <3>2, <4>2 DEF Sums
        <5>3. QED
          BY <5>1, <5>2
      <4>3. QED
        BY <4>1, <4>2
    <3>4. Sums(n, s, g)
      <4>1. g = [i \in 0..n |-> g[i]]
        OBVIOUS
      <4> HIDE DEF g
      <4>2. QED
        BY <3>3, <4>1 DEF Sums
    <3>5. QED
      BY <3>4
  <2>3. QED
    BY <2>1, <2>2
<1>2. Nat \subseteq S
  <2> HIDE DEF S
  <2>1. QED
    BY <1>1, SetInduction
<1>3. QED
  BY <1>2

(* What SumTo adds up. *)
LEMMA SumToSums ==
  ASSUME NEW n \in Nat, NEW s, \A i \in 1..n : s[i] \in Nat
  PROVE  \E f : /\ \A i \in 0..n : f[i] \in Nat
                /\ f[0] = 0 /\ \A i \in 1..n : f[i] = f[i - 1] + s[i]
                /\ SumTo(n, s) = f[n]
<1> DEFINE f == CHOOSE f : Sums(n, s, f)
<1>1. Sums(n, s, f)
  <2>1. \E g : Sums(n, s, g)
    BY SumsExist
  <2>2. QED
    BY <2>1
<1>2. SumTo(n, s) = f[n]
  BY DEF SumTo, Sums
<1> HIDE DEF f
<1>3. f[0] = 0 /\ \A i \in 1..n : f[i] = f[i - 1] + s[i]
  BY <1>1 DEF Sums
<1> DEFINE S == {i \in Nat : i <= n => f[i] \in Nat}
<1>4. ASSUME NEW i \in Nat, \A m \in Nat : m < i => m \in S PROVE i \in S
  <2>1. CASE i = 0
    BY <1>3, <2>1
  <2>2. CASE i \in 1..n
    <3>1. i - 1 \in S /\ i - 1 <= n
      BY <1>4, <2>2
    <3>2. f[i - 1] \in Nat /\ s[i] \in Nat
      BY <2>2, <3>1
    <3>3. QED
      BY <1>3, <2>2, <3>2
  <2>3. CASE i > n
    BY <2>3
  <2>4. QED
    BY <2>1, <2>2, <2>3
<1>5. Nat \subseteq S
  <2> HIDE DEF S
  <2>1. QED
    BY <1>4, SetInduction
<1>6. \A i \in 0..n : f[i] \in Nat
  BY <1>5
<1>7. QED
  BY <1>2, <1>3, <1>6

(* Running sums of two rows that agree on the first n elements. *)
LEMMA SumsAgree ==
  ASSUME NEW n \in Nat, NEW s, NEW t, NEW f, NEW g, \A i \in 1..n : s[i] = t[i],
         f[0] = g[0], \A i \in 1..n : f[i] = f[i - 1] + s[i],
         \A i \in 1..n : g[i] = g[i - 1] + t[i]
  PROVE  f[n] = g[n]
<1> DEFINE S == {i \in Nat : i <= n => f[i] = g[i]}
<1>1. ASSUME NEW i \in Nat, \A m \in Nat : m < i => m \in S PROVE i \in S
  <2>1. CASE i = 0
    BY <2>1
  <2>2. CASE i \in 1..n
    <3>1. i - 1 \in S /\ i - 1 <= n
      BY <1>1, <2>2
    <3>2. f[i - 1] = g[i - 1]
      BY <3>1
    <3>3. QED
      BY <2>2, <3>2
  <2>3. CASE i > n
    BY <2>3
  <2>4. QED
    BY <2>1, <2>2, <2>3
<1>2. Nat \subseteq S
  <2> HIDE DEF S
  <2>1. QED
    BY <1>1, SetInduction
<1>3. QED
  BY <1>2

(* Rows that agree have the same sum. *)
LEMMA SumToSame ==
  ASSUME NEW n \in Nat, NEW s, NEW t, \A i \in 1..n : s[i] \in Nat /\ s[i] = t[i]
  PROVE  SumTo(n, s) = SumTo(n, t) /\ SumTo(n, s) \in Nat
<1>1. PICK f : /\ \A i \in 0..n : f[i] \in Nat
               /\ f[0] = 0 /\ \A i \in 1..n : f[i] = f[i - 1] + s[i]
               /\ SumTo(n, s) = f[n]
  BY SumToSums
<1>2. PICK g : /\ g[0] = 0 /\ \A i \in 1..n : g[i] = g[i - 1] + t[i]
               /\ SumTo(n, t) = g[n]
  BY SumToSums
<1>3. f[n] = g[n]
  BY <1>1, <1>2, SumsAgree
<1>4. QED
  BY <1>1, <1>2, <1>3

(* One more element adds one more summand. *)
LEMMA SumToNext ==
  ASSUME NEW n \in Nat, NEW s, NEW t, \A i \in 1..(n + 1) : t[i] \in Nat,
         \A i \in 1..n : s[i] = t[i]
  PROVE  SumTo(n + 1, t) = SumTo(n, s) + t[n + 1] /\ SumTo(n, s) \in Nat
<1>1. \A i \in 1..n : i \in 1..(n + 1)
  OBVIOUS
<1>2. PICK f : /\ \A i \in 0..n : f[i] \in Nat
               /\ f[0] = 0 /\ \A i \in 1..n : f[i] = f[i - 1] + s[i]
               /\ SumTo(n, s) = f[n]
  BY <1>1, SumToSums
<1>3. PICK l \in Nat : l = n + 1
  OBVIOUS
<1>4. PICK g : /\ g[0] = 0 /\ \A i \in 1..l : g[i] = g[i - 1] + t[i]
               /\ SumTo(l, t) = g[l]
  BY <1>3, SumToSums
<1>5. f[n] = g[n]
  BY <1>1, <1>2, <1>3, <1>4, SumsAgree
<1>6. l \in 1..l /\ l - 1 = n
  BY <1>3
<1>7. g[l] = g[n] + t[l]
  BY <1>4, <1>6
<1>8. QED
  BY <1>2, <1>3, <1>4, <1>5, <1>7

(* Division of natural numbers. *)
LEMMA DivMod ==
  ASSUME NEW m \in Nat \ {0}, NEW x \in Nat
  PROVE  /\ x \div m \in Nat /\ x % m \in 0..(m - 1)
         /\ x = m * (x \div m) + (x % m)
<1>1. x = m * (x \div m) + (x % m) /\ x % m \in 0..(m - 1) /\ x \div m \in Int
  OBVIOUS
<1>2. x \div m >= 0
  OBVIOUS
<1>3. QED
  BY <1>1, <1>2

(* A multiple of m leaves no remainder. *)
LEMMA MultipleMod ==
  ASSUME NEW m \in Nat \ {0}, NEW q \in Nat, NEW x \in Nat, x = m * q
  PROVE  x % m = 0
<1>1. PICK d \in Nat, r \in 0..(m - 1) : d = x \div m /\ r = x % m /\ x = m * d + r
  BY DivMod
<1>2. PICK k \in Int : k = q - d
  OBVIOUS
<1>3. r - 0 = m * k
  BY <1>1, <1>2, Products
<1>4. r = 0
  BY <1>3, NoMultiple
<1>5. QED
  BY <1>1, <1>4

(* SwapBytesUint16 turns a word in memory into the word on the wire. *)
LEMMA SwapPair ==
  ASSUME NEW x \in 0..(B - 1), NEW y \in 0..(B - 1)
  PROVE  SwapBytesUint16(x + B * y) = B * x + y /\ B * x + y \in Nat
<1>1. B \in Nat \ {0}
  BY PacketAssumption
<1>2. PICK z \in Nat : z = B * y
  BY <1>1
<1>3. PICK w \in Nat : w = x + z
  BY <1>1, <1>2
<1>4. PICK d \in Nat, r \in 0..(B - 1) : d = w \div B /\ r = w % B /\ w = B * d + r
  BY <1>1, DivMod
<1>5. PICK k \in Int : k = d - y
  BY <1>1
<1>6. x - r = B * k
  BY <1>1, <1>2, <1>3, <1>4, <1>5, Products
<1>7. x = r /\ k = 0
  BY <1>1, <1>6, NoMultiple
<1>8. d = y
  BY <1>1, <1>5, <1>7
<1>9. SwapBytesUint16(w) = x * B + y
  BY <1>4, <1>7, <1>8 DEF SwapBytesUint16
<1>10. x * B = B * x /\ B * x \in Nat
  BY <1>1
<1>11. QED
  BY <1>1, <1>2, <1>3, <1>9, <1>10

(* The loop over the payload adds the words on the wire, the padding of an *)
(* odd byte included, whatever follows the payload in memory.              *)
LEMMA DataChecksumOnWire ==
  ASSUME NEW n \in Nat, NEW mem, \A i \in 1..n : mem[i] \in 0..(B - 1)
  PROVE  calculateDataChecksum(mem, n) = OnWire(mem, n) /\ OnWire(mem, n) \in Nat
<1> DEFINE at(i) == IF i <= n THEN mem[i] ELSE 0
           words == (n + 1) \div 2
           h == n \div 2
           s == [i \in 1..h |-> SwapBytesUint16(mem[2 * i - 1] + B * mem[2 * i])]
           t == [i \in 1..words |-> B * at(2 * i - 1) + at(2 * i)]
<1>b. B \in Nat /\ B > 1
  BY PacketAssumption
<1>1. /\ h \in Nat /\ words \in Nat
      /\ n % 2 = 0 => n = 2 * h /\ words = h
      /\ n % 2 # 0 => n = 2 * h + 1 /\ words = h + 1
  OBVIOUS
<1>2. OnWire(mem, n) = SumTo(words, t)
  BY DEF OnWire
<1>3. calculateDataChecksum(mem, n) = SumTo(h, s) + (IF n % 2 # 0 THEN mem[n] * B ELSE 0)
  BY DEF calculateDataChecksum, SumSlice
<1>4. ASSUME NEW i \in 1..h PROVE s[i] = t[i] /\ s[i] \in Nat
  <2>1. PICK j \in 1..n, l \in 1..n : j = 2 * i - 1 /\ l = 2 * i
    BY <1>1
  <2>2. s[i] = B * mem[j] + mem[l] /\ s[i] \in Nat
    BY <2>1, SwapPair
  <2>3. i \in 1..words
    BY <1>1
  <2>4. t[i] = B * mem[j] + mem[l]
    BY <2>1, <2>3
  <2>5. QED
    BY <2>2, <2>4
<1>5. CASE n % 2 = 0
  <2>1. words = h
    BY <1>1, <1>5
  <2> HIDE DEF s, t, h, words
  <2>2. SumTo(h, s) = SumTo(h, t) /\ SumTo(h, s) \in Nat
    BY <1>1, <1>4, SumToSame
  <2>3. QED
    BY <1>2, <1>3, <1>5, <2>1, <2>2
<1>6. CASE n % 2 # 0
  <2>1. n = 2 * h + 1 /\ words = h + 1
    BY <1>1, <1>6
  <2>2. t[h + 1] = B * mem[n] /\ B * mem[n] \in Nat /\ mem[n] * B = B * mem[n]
    <3>1. PICK x \in 0..(B - 1) : x = mem[n]
      BY <2>1, <1>1
    <3>2. B * x \in Nat /\ x * B = B * x
      BY <1>b
    <3>3. 2 * (h + 1) - 1 = n /\ ~(2 * (h + 1) <= n) /\ h + 1 \in 1..words
      BY <2>1, <1>1
    <3>4. t[h + 1] = B * x + 0
      BY <3>1, <3>3
    <3>5. QED
      BY <3>1, <3>2, <3>4
  <2> HIDE DEF s, t, h, words
  <2>3. \A i \in 1..(h + 1) : t[i] \in Nat
    <3>1. \A i \in 1..(h + 1) : i \in 1..h \/ i = h + 1
      BY <1>1
    <3>2. QED
      BY <3>1, <1>4, <2>2
  <2>4. SumTo(h + 1, t) = SumTo(h, s) + t[h + 1] /\ SumTo(h, s) \in Nat
    BY <1>1, <1>4, <2>3, SumToNext
  <2>5. QED
    BY <1>2, <1>3, <1>6, <2>1, <2>2, <2>4
<1>7. QED
  BY <1>5, <1>6

(* x and y differ by a multiple of W - 1. *)
Congruent(x, y) == \E q \in Int : x - y = (W - 1) * q

(* Congruence is an equivalence, and sums respect it. *)
LEMMA Congruence ==
  ASSUME NEW x \in Int, NEW y \in Int, NEW z \in Int
  PROVE  /\ Congruent(x, x) /\ (Congruent(x, y) => Congruent(y, x))
         /\ Congruent(x, y) /\ Congruent(y, z) => Congruent(x, z)
         /\ Congruent(x, y) => Congruent(x + z, y + z)
<1>1. PICK m \in Int : m = W - 1
  BY Lens
<1>2. Congruent(x, x)
  <2>1. x - x = m * 0
    BY <1>1
  <2>2. QED
    BY <1>1, <2>1 DEF Congruent
<1>3. ASSUME Congruent(x, y) PROVE Congruent(y, x)
  <2>1. PICK q \in Int : x - y = m * q
    BY <1>1, <1>3 DEF Congruent
  <2>2. y - x = m * (0 - q)
    BY <2>1, Products
  <2>3. 0 - q \in Int
    OBVIOUS
  <2>4. QED
    BY <1>1, <2>2, <2>3 DEF Congruent
<1>4. ASSUME Congruent(x, y), Congruent(y, z) PROVE Congruent(x, z)
  <2>1. PICK q \in Int : x - y = m * q
    BY <1>1, <1>4 DEF Congruent
  <2>2. PICK p \in Int : y - z = m * p
    BY <1>1, <1>4 DEF Congruent
  <2>3. x - z = m * (q + p)
    BY <2>1, <2>2, Products
  <2>4. q + p \in Int
    OBVIOUS
  <2>5. QED
    BY <1>1, <2>3, <2>4 DEF Congruent
<1>5. ASSUME Congruent(x, y) PROVE Congruent(x + z, y + z)
  <2>1. PICK q \in Int : x - y = m * q
    BY <1>1, <1>5 DEF Congruent
  <2>2. (x + z) - (y + z) = m * q
    BY <2>1
  <2>3. QED
    BY <1>1, <2>2 DEF Congruent
<1>6. QED
  BY <1>2, <1>3, <1>4, <1>5

(* One round of the loop in reduceChecksum: the carries are added. *)
LEMMA Carry ==
  ASSUME NEW x \in Nat, x >= W
  PROVE  /\ (x \div W) + (x % W) \in Nat /\ (x \div W) + (x % W) < x
         /\ (x \div W) + (x % W) > 0
         /\ Congruent(x, (x \div W) + (x % W))
<1>w. W \in Nat \ {0} /\ W > 3
  BY Lens
<1>1. PICK d \in Nat, r \in 0..(W - 1) : d = x \div W /\ r = x % W /\ x = W * d + r
  BY <1>w, DivMod
<1>2. d >= 1
  <2>1. d <= 0 => W * d <= 0
    BY <1>w, Products
  <2>2. QED
    BY <1>1, <1>w, <2>1
<1>3. PICK m \in Nat : m = W - 1
  BY <1>w
<1>4. W * d = m * d + d
  BY <1>w, <1>3
<1>5. m * d \in Int /\ m * d >= m
  BY <1>2, Products
<1>6. x - (d + r) = m * d
  BY <1>1, <1>4, <1>5
<1>7. Congruent(x, d + r)
  BY <1>3, <1>6 DEF Congruent
<1>8. d + r \in Nat /\ d + r < x /\ d + r > 0
  BY <1>1, <1>2, <1>3, <1>4, <1>5, <1>w
<1>9. QED
  BY <1>1, <1>7, <1>8

Reduces(f) == f = [sum \in Nat |-> IF sum >= W THEN f[(sum \div W) + (sum % W)] ELSE sum]

(* The loop of reduceChecksum ends: its recursion has a solution, which    *)
(* maps a positive sum to the congruent number in 1..W-1.                  *)
LEMMA ReducesExists == \E f : Reduces(f)
<1>w. W \in Nat /\ W > 3
  BY Lens
<1> DEFINE Rem(x) == {r \in 1..(W - 1) : Congruent(x, r)}
           val(x) == IF x = 0 THEN 0 ELSE CHOOSE r : r \in Rem(x)
           f == [x \in Nat |-> val(x)]
<1>1. ASSUME NEW x \in 1..(W - 1) PROVE Rem(x) = {x}
  <2>1. x \in Rem(x)
    BY <1>w, Congruence
  <2>2. ASSUME NEW r \in Rem(x) PROVE r = x
    <3>1. PICK m \in Nat \ {0} : m = W - 1
      BY <1>w
    <3>2. PICK q \in Int : x - r = m * q
      BY <3>1 DEF Congruent
    <3>3. r \in 1..(W - 1) /\ x - r < m /\ r - x < m
      BY <1>w, <3>1
    <3>4. QED
      BY <3>2, <3>3, <1>w, NoMultiple
  <2>3. QED
    BY <2>1, <2>2
<1>2. ASSUME NEW x \in Nat, NEW y \in Nat, Congruent(x, y) PROVE Rem(x) = Rem(y)
  <2>1. ASSUME NEW r \in 1..(W - 1) PROVE Congruent(x, r) <=> Congruent(y, r)
    <3>1. r \in Int /\ x \in Int /\ y \in Int
      BY <1>w
    <3>2. Congruent(y, x)
      BY <1>2, <3>1, Congruence
    <3>3. QED
      BY <1>2, <3>1, <3>2, Congruence
  <2>2. QED
    BY <2>1
<1>3. ASSUME NEW x \in Nat
      PROVE  f[x] = IF x >= W THEN f[(x \div W) + (x % W)] ELSE x
  <2>1. CASE x = 0
    BY <2>1, <1>w
  <2>2. CASE x \in 1..(W - 1)
    <3>1. Rem(x) = {x}
      BY <2>2, <1>1
    <3> HIDE DEF Rem
    <3>2. val(x) = x
      BY <2>2, <3>1
    <3> HIDE DEF val
    <3>3. f[x] = x /\ ~(x >= W)
      BY <2>2, <3>2, <1>w
    <3>4. QED
      BY <3>3
  <2>3. CASE x >= W
    <3>1. PICK y : y = (x \div W) + (x % W)
      OBVIOUS
    <3>2. y \in Nat /\ y > 0 /\ Congruent(x, y)
      BY <2>3, <3>1, Carry
    <3>3. Rem(x) = Rem(y)
      BY <3>2, <1>2
    <3> HIDE DEF Rem
    <3>4. val(x) = val(y)
      BY <2>3, <3>2, <3>3, <1>w
    <3> HIDE DEF val
    <3>5. f[x] = f[y]
      BY <3>2, <3>4
    <3>6. QED
      BY <2>3, <3>1, <3>5
  <2>4. QED
    BY <2>1, <2>2, <2>3, <1>w
<1>4. f = [x \in Nat |-> f[x]]
  OBVIOUS
<1> HIDE DEF f
<1>5. Reduces(f)
  BY <1>3, <1>4 DEF Reduces
<1>6. QED
  BY <1>5

(* reduceChecksum yields a word that is congruent to the sum. *)
LEMMA Reduced ==
  ASSUME NEW x \in Nat
  PROVE  reduceChecksum[x] \in 0..(W - 1) /\ Congruent(x, reduceChecksum[x])
<1>w. W \in Nat /\ W > 3
  BY Lens
<1>1. reduceChecksum = CHOOSE f : Reduces(f)
  BY DEF reduceChecksum, Reduces
<1>2. Reduces(reduceChecksum)
  BY <1>1, ReducesExists
<1>3. PICK f : f = reduceChecksum
  OBVIOUS
<1>4. \A y \in Nat : f[y] = IF y >= W THEN f[(y \div W) + (y % W)] ELSE y
  BY <1>2, <1>3 DEF Reduces
<1> DEFINE S == {y \in Nat : f[y] \in 0..(W - 1) /\ Congruent(y, f[y])}
<1>5. ASSUME NEW n \in Nat, \A m \in Nat : m < n => m \in S PROVE n \in S
  <2>1. CASE n < W
    <3>1. f[n] = n
      BY <1>4, <1>w, <2>1
    <3>2. Congruent(n, n)
      BY Congruence
    <3>3. QED
      BY <2>1, <3>1, <3>2, <1>w
  <2>2. CASE n >= W
    <3>1. PICK y : y = (n \div W) + (n % W)
      OBVIOUS
    <3>2. y \in Nat /\ y < n /\ Congruent(n, y)
      BY <2>2, <3>1, Carry
    <3>3. f[n] = f[y]
      BY <1>4, <2>2, <3>1
    <3>4. f[y] \in 0..(W - 1) /\ Congruent(y, f[y])
      BY <1>5, <3>2
    <3>5. PICK r \in Int : r = f[y]
      BY <3>4, <1>w
    <3>6. Congruent(n, r)
      BY <3>2, <3>4, <3>5, Congruence
    <3>7. QED
      BY <3>3, <3>4, <3>5, <3>6
  <2>3. QED
    BY <2>1, <2>2, <1>w
<1>6. Nat \subseteq S
  <2> HIDE DEF S
  <2>1. QED
    BY <1>5, SetInduction
<1>7. QED
  BY <1>3, <1>6

(* The complement of a word that is congruent to a sum makes the sum zero  *)
(* in one's complement arithmetic.                                         *)
LEMMA ComplementVerifies ==
  ASSUME NEW x \in Nat, NEW r \in 0..(W - 1), Congruent(x, r)
  PROVE  /\ Not(r) \in 0..(W - 1) /\ (x + Not(r)) % (W - 1) = 0
         /\ Not(r) = 0 => (x + Not(Not(r))) % (W - 1) = 0
<1>w. W \in Nat /\ W > 3
  BY Lens
<1>1. PICK m \in Nat \ {0} : m = W - 1 /\ m > 2
  BY <1>w
<1>2. PICK q \in Int : x - r = m * q
  BY <1>1 DEF Congruent
<1>3. Not(r) = m - r
  BY <1>1 DEF Not
<1>4. x + (m - r) = m * (q + 1)
  BY <1>1, <1>2, <1>w, Products
<1>a. ASSUME NEW y \in Nat, NEW p \in Int, y = m * p PROVE y % m = 0
  <2>1. CASE p >= 0
    BY <1>a, <2>1, MultipleMod
  <2>2. CASE p < 0
    <3>1. m * p <= 0
      BY <2>2, Products
    <3>2. y = m * 0
      BY <1>a, <3>1, Products
    <3>3. QED
      BY <3>2, MultipleMod
  <2>3. QED
    BY <2>1, <2>2
<1>5. (x + Not(r)) % m = 0
  <2>1. x + (m - r) \in Nat /\ q + 1 \in Int
    BY <1>1, <1>w
  <2>2. QED
    BY <1>3, <1>4, <2>1, <1>a
<1>6. Not(r) = 0 => (x + Not(Not(r))) % m = 0
  <2>1. SUFFICES ASSUME Not(r) = 0 PROVE (x + Not(0)) % m = 0
    OBVIOUS
  <2>2. r = m /\ Not(0) = m
    BY <1>1, <1>3, <2>1, <1>w DEF Not
  <2>3. x + m = m * (q + 2) /\ x + m \in Nat /\ q + 2 \in Int
    BY <1>2, <2>2, Products
  <2>4. QED
    BY <2>2, <2>3, <1>a
<1>7. Not(r) \in 0..(W - 1)
  BY <1>1, <1>3, <1>w
<1>8. QED
  BY <1>1, <1>5, <1>6, <1>7

(* The sum of a row of words. *)
LEMMA SumSwappedNat ==
  ASSUME NEW n \in Nat, NEW words \in [1..n -> Nat]
  PROVE  SumSwapped(words) \in Nat
<1>b. B \in Nat \ {0}
  BY PacketAssumption
<1>1. words \in Seq(Nat)
  OBVIOUS
<1>2. PICK l \in Nat : l = Len(words)
  BY <1>1
<1>3. DOMAIN words = 1..l /\ \A i \in 1..l : words[i] \in Nat
  BY <1>1, <1>2
<1>4. \A x \in Nat : SwapBytesUint16(x) \in Nat
  <2>1. SUFFICES ASSUME NEW x \in Nat PROVE SwapBytesUint16(x) \in Nat
    OBVIOUS
  <2>2. PICK d \in Nat, r \in 0..(B - 1) : d = x \div B /\ r = x % B
    BY <1>b, DivMod
  <2>3. r * B \in Nat
    BY <1>b, <2>2
  <2>4. r * B + d \in Nat
    BY <2>2, <2>3
  <2>5. QED
    BY <2>2, <2>4 DEF SwapBytesUint16
<1> DEFINE s == [i \in DOMAIN words |-> SwapBytesUint16(words[i])]
<1>5. \A i \in 1..l : s[i] \in Nat
  BY <1>3, <1>4
<1>6. SumSwapped(words) = SumTo(l, s)
  BY <1>2 DEF SumSwapped
<1> HIDE DEF s
<1>7. QED
  BY <1>5, <1>6, SumToSame

(* A packet with a known transport header and a payload of pay bytes. *)
Whole(k, pay) ==
  /\ k.type \in {"ipv4", "ipv6"}
  /\ k.type = "ipv4" => k.ipLen = IPv4MinLen + HeaderLen(k.proto) + pay
  /\ k.type = "ipv6" => k.ipLen = HeaderLen(k.proto) + pay
  /\ k.ipLen \in 0..(W - 1)
  /\ k.proto = "udp" => k.dgramLen = UDPLen + pay
  /\ SumSwapped(k.addrs) \in Nat /\ SumSwapped(k.hdr) \in Nat /\ SumSwapped(k.iphdr) \in Nat
  /\ \A i \in 1..pay : k.mem[i] \in 0..(B - 1)

(* What the checksum functions add up is what a receiver adds up. *)
LEMMA SumsOfWhole ==
  ASSUME NEW k, NEW pay \in Nat, Whole(k, pay)
  PROVE  /\ HeaderLen(k.proto) \in Nat /\ ProtoNumber(k.proto) \in Nat
         /\ OnWire(k.mem, pay) \in Nat
         /\ Segment(k) = SumSwapped(k.hdr) + (IF k.proto = "udp" THEN UDPLen + pay ELSE 0)
                           + OnWire(k.mem, pay)
         /\ PseudoHdr(k) = SumSwapped(k.addrs) + ProtoNumber(k.proto) + HeaderLen(k.proto) + pay
<1>1. PICK h \in Nat : h = HeaderLen(k.proto)
  BY Lens DEF HeaderLen
<1>2. PICK n \in Nat : n = ProtoNumber(k.proto)
  BY DEF ProtoNumber
<1>3. W \in Nat \ {0} /\ IPv4MinLen \in Nat
  BY Lens
<1>4. dataLength(k) = h + pay
  <2>1. CASE k.type = "ipv4"
    <3>1. k.ipLen - IPv4MinLen = h + pay /\ h + pay \in 0..(W - 1)
      BY <1>1, <1>3, <2>1 DEF Whole
    <3>2. (h + pay) % W = h + pay
      BY <1>3, <3>1, ModSmall
    <3>3. QED
      BY <2>1, <3>1, <3>2 DEF dataLength
  <2>2. CASE k.type = "ipv6"
    <3>1. k.type # "ipv4"
      BY <2>2
    <3>2. QED
      BY <1>1, <2>2, <3>1 DEF dataLength, Whole
  <2>3. QED
    BY <2>1, <2>2 DEF Whole
<1>5. (dataLength(k) - HeaderLen(k.proto)) % W = pay
  <2>1. dataLength(k) - HeaderLen(k.proto) = pay
    BY <1>1, <1>4
  <2>2. pay \in 0..(W - 1)
    <3>1. CASE k.type = "ipv4"
      BY <3>1, <1>1, <1>3 DEF Whole
    <3>2. CASE k.type = "ipv6"
      BY <3>2, <1>1, <1>3 DEF Whole
    <3>3. QED
      BY <3>1, <3>2 DEF Whole
  <2>3. QED
    BY <1>3, <2>1, <2>2, ModSmall
<1>6. calculateDataChecksum(k.mem, pay) = OnWire(k.mem, pay) /\ OnWire(k.mem, pay) \in Nat
  BY DataChecksumOnWire DEF Whole
<1>7. (IF k.proto = "udp" THEN k.dgramLen ELSE 0) = IF k.proto = "udp" THEN UDPLen + pay ELSE 0
  BY DEF Whole
<1>8. Segment(k) = SumSwapped(k.hdr) + (IF k.proto = "udp" THEN UDPLen + pay ELSE 0)
                     + OnWire(k.mem, pay)
  BY <1>5, <1>6, <1>7 DEF Segment
<1>9. (IF k.proto = "udp" THEN k.dgramLen ELSE dataLength(k)) = h + pay
  <2>1. k.proto = "udp" => HeaderLen(k.proto) = UDPLen
    BY DEF HeaderLen
  <2>2. QED
    BY <1>1, <1>4, <2>1 DEF Whole
<1>10. PICK a \in Nat : a = SumSwapped(k.addrs)
  BY DEF Whole
<1>11. PseudoHdr(k) = (a + n) + (h + pay)
  BY <1>2, <1>9, <1>10 DEF PseudoHdr
<1>12. PseudoHdr(k) = a + n + h + pay
  BY <1>11
<1>13. QED
  BY <1>1, <1>2, <1>6, <1>8, <1>10, <1>12

(* The checksums of a whole packet verify, in software and hardware. *)
LEMMA WholeVerifies ==
  ASSUME NEW k, NEW pay \in Nat, Whole(k, pay)
  PROVE  /\ Verifies(k, pay, CalculateChecksum(k))
         /\ k.proto = "udp" => CalculateChecksum(k) # 0
         /\ k.proto \in {"udp", "tcp"} => Verifies(k, pay, Offloaded(k))
         /\ k.type = "ipv4" => IPv4Verifies(k, pay, CalculateIPv4Checksum(k))
<1>w. W \in Nat /\ W > 3 /\ IPv4MinLen \in Nat /\ UDPLen \in Nat
  BY Lens
<1>1. PICK h \in Nat, n \in Nat, o \in Nat :
        h = HeaderLen(k.proto) /\ n = ProtoNumber(k.proto) /\ o = OnWire(k.mem, pay)
  BY SumsOfWhole
<1>2. PICK a \in Nat, t \in Nat, g \in Nat :
        a = SumSwapped(k.addrs) /\ t = SumSwapped(k.hdr) /\ g = SumSwapped(k.iphdr)
  BY DEF Whole
<1>3. PICK l \in Nat : l = IF k.proto = "udp" THEN UDPLen + pay ELSE 0
  BY <1>w
<1>4. PICK seg \in Nat, ps \in Nat : seg = Segment(k) /\ ps = PseudoHdr(k)
                                     /\ seg = t + l + o /\ ps = a + n + h + pay
  BY <1>1, <1>2, <1>3, SumsOfWhole
<1>5. PICK p \in Nat : /\ p = IF k.type = "ipv4" /\ k.proto = "icmp" THEN 0 ELSE ps
  BY <1>4
<1>6. ASSUME NEW c \in 0..(W - 1), (p + seg + c) % (W - 1) = 0
      PROVE  Verifies(k, pay, c)
  <2>1. p = IF k.type = "ipv4" /\ k.proto = "icmp" THEN 0 ELSE a + n + h + pay
    BY <1>4, <1>5
  <2>2. p + t + l + o + c = p + seg + c
    BY <1>4, <1>w
  <2>3. (p + t + l + o + c) % (W - 1) = 0
    BY <1>6, <2>2
  <2>4. QED
    BY <1>1, <1>2, <1>3, <2>1, <2>3 DEF Verifies
<1>7. PICK x \in Nat : x = p + seg
  BY <1>4, <1>5
<1>8. PICK r \in 0..(W - 1) : r = reduceChecksum[x] /\ Congruent(x, r)
  BY Reduced
<1>9. CalculateChecksum(k) = IF k.proto = "udp" /\ Not(r) = 0 THEN Not(Not(r)) ELSE Not(r)
  BY <1>4, <1>5, <1>7, <1>8 DEF CalculateChecksum
<1>10. /\ Not(r) \in 0..(W - 1) /\ (x + Not(r)) % (W - 1) = 0
       /\ Not(r) = 0 => (x + Not(Not(r))) % (W - 1) = 0
  BY <1>8, ComplementVerifies
<1>11. Not(r) = 0 => Not(Not(r)) \in 0..(W - 1) /\ Not(Not(r)) # 0
  BY <1>w DEF Not
<1>12. /\ CalculateChecksum(k) \in 0..(W - 1)
       /\ (p + seg + CalculateChecksum(k)) % (W - 1) = 0
       /\ k.proto = "udp" => CalculateChecksum(k) # 0
  BY <1>7, <1>9, <1>10, <1>11
<1>13. Verifies(k, pay, CalculateChecksum(k))
  BY <1>6, <1>12
<1>14. ASSUME k.proto \in {"udp", "tcp"} PROVE Verifies(k, pay, Offloaded(k))
  <2>1. p = ps
    <3>1. k.proto # "icmp"
      BY <1>14
    <3>2. QED
      BY <1>5, <3>1
  <2>2. PICK r1 \in 0..(W - 1) : r1 = reduceChecksum[ps] /\ Congruent(ps, r1)
    BY Reduced
  <2>3. PICK y \in Nat : y = r1 + seg
    BY <1>w
  <2>4. PICK r2 \in 0..(W - 1) : r2 = reduceChecksum[y] /\ Congruent(y, r2)
    BY Reduced
  <2>5. Congruent(x, y)
    <3>1. ps \in Int /\ r1 \in Int /\ seg \in Int
      BY <1>w
    <3>2. Congruent(ps + seg, r1 + seg)
      BY <2>2, <3>1, Congruence
    <3>3. QED
      BY <1>7, <2>1, <2>3, <3>2
  <2>6. Congruent(x, r2)
    <3>1. r2 \in Int
      BY <1>w
    <3>2. QED
      BY <2>4, <2>5, <3>1, Congruence
  <2>7. Not(r2) \in 0..(W - 1) /\ (x + Not(r2)) % (W - 1) = 0
    BY <2>6, ComplementVerifies
  <2>8. Offloaded(k) = Not(r2)
    BY <1>4, <2>2, <2>3, <2>4 DEF Offloaded
  <2>9. QED
    BY <1>6, <1>7, <2>7, <2>8
<1>15. ASSUME k.type = "ipv4" PROVE IPv4Verifies(k, pay, CalculateIPv4Checksum(k))
  <2>1. PICK z \in Nat : z = a + g + k.ipLen + n /\ z = a + g + n + IPv4MinLen + h + pay
    BY <1>1, <1>15, <1>w DEF Whole
  <2>2. PICK r3 \in 0..(W - 1) : r3 = reduceChecksum[z] /\ Congruent(z, r3)
    BY Reduced
  <2>3. CalculateIPv4Checksum(k) = Not(r3)
    BY <1>1, <1>2, <2>1, <2>2 DEF CalculateIPv4Checksum
  <2>4. (z + Not(r3)) % (W - 1) = 0
    BY <2>2, ComplementVerifies
  <2>5. (a + g + n + IPv4MinLen + h + pay + Not(r3)) % (W - 1) = 0
    BY <2>1, <2>4
  <2>6. QED
    BY <1>1, <1>2, <2>3, <2>5 DEF IPv4Verifies
<1>16. QED
  BY <1>12, <1>13, <1>14, <1>15

(* Built: what the checksum functions read of a packet after InitEmpty. *)
Built ==
  last = "InitEmpty" =>
    /\ frame \in Templates
    /\ frame.proto # "none" => At(pkt.L3).p = frame.proto
    /\ frame.type = "ipv4" => At(pkt.L3).len = IPv4MinLen + L4Len(frame) + frame.pay
    /\ frame.type = "ipv6" => At(pkt.L3).len = L4Len(frame) + frame.pay
    /\ frame.proto = "udp" => At(pkt.L4).len = UDPLen + frame.pay

(* The InitEmpty functions establish Built. *)
LEMMA InitEmptyBuilt ==
  ASSUME Short, PInv, NEW f \in Templates, InitEmpty(f)
  PROVE  Built'
<1>1. CASE ~ok'
  BY <1>1 DEF InitEmpty, Built
<1>2. CASE ok'
  <2>1. PICK p : p = pkt'
    OBVIOUS
  <2>2. /\ f.type = "ipv4" =>
             At(p.L3)' = Cell("ipv4", IPv4MinLen, IPv4MinLen + L4Len(f) + f.pay, f.proto)
        /\ f.type = "ipv6" => At(p.L3)' = Cell("ipv6", 0, L4Len(f) + f.pay, f.proto)
        /\ f.proto = "udp" => At(p.L4)' = Cell("udp", 0, UDPLen + f.pay, "none")
    BY <1>2, <2>1, InitEmptyHeaders, Zenon
  <2>3. /\ f.type = "ipv4" => At(p.L3)'.len = IPv4MinLen + L4Len(f) + f.pay /\ At(p.L3)'.p = f.proto
        /\ f.type = "ipv6" => At(p.L3)'.len = L4Len(f) + f.pay /\ At(p.L3)'.p = f.proto
        /\ f.proto = "udp" => At(p.L4)'.len = UDPLen + f.pay
    BY <2>2 DEF Cell
  <2>4. f.proto # "none" => f.type = "ipv4" \/ f.type = "ipv6"
    BY TemplateFacts, FrameLens
  <2>5. frame' = f /\ L4Len(frame)' = L4Len(f)
    BY <1>2, InitEmptyBuilds DEF L4Len
  <2>6. At(pkt.L3)' = At(p.L3)' /\ At(pkt.L4)' = At(p.L4)'
    BY <2>1 DEF At
  <2>7. QED
    BY <2>3, <2>4, <2>5, <2>6 DEF Built
<1>3. QED
  BY <1>1, <1>2

(* The lengths of the parts of a template. *)
LEMMA TemplateLens ==
  ASSUME NEW f \in Templates
  PROVE  /\ f.pay \in Nat /\ f.type \in {"ipv4", "ipv6", "arp", "none"}
         /\ f.type \in {"arp", "none"} => f.proto = "none"
         /\ f.proto \in Protos /\ L3Len(f) \in Nat /\ L4Len(f) \in Nat
         /\ FrameLen(f) = EtherLen + L3Len(f) + L4Len(f) + f.pay
         /\ f.type = "ipv4" => L3Len(f) = IPv4MinLen
         /\ f.proto = "udp" => L4Len(f) = UDPLen
         /\ f.proto = "tcp" => L4Len(f) = TCPMinLen
         /\ f.proto \in {"icmp", "icmp6"} => L4Len(f) = ICMPLen
<1>1. f \in Frames /\ f.opt = 0 /\ f.topt = 0 /\ Base(f) = 0
  BY TemplateFacts
<1>2. /\ f.pay \in Nat /\ f.type \in {"ipv4", "ipv6", "arp", "none"}
      /\ f.type \in {"arp", "none"} => f.proto = "none"
      /\ f.proto \in Protos /\ L3Len(f) \in Nat /\ L4Len(f) \in Nat
      /\ f.proto = "udp" => L4Len(f) = UDPLen
      /\ f.proto \in {"icmp", "icmp6"} => L4Len(f) = ICMPLen
  BY <1>1, FrameLens
<1>3. FrameLen(f) = EtherLen + L3Len(f) + L4Len(f) + f.pay
  BY <1>1, <1>2, FrameLens, Lens
<1>4. f.type = "ipv4" => L3Len(f) = IPv4MinLen
  BY <1>1, FrameLens, Lens
<1>5. f.proto = "tcp" => L4Len(f) = TCPMinLen
  BY <1>1, FrameLens, Lens
<1>6. QED
  BY <1>2, <1>3, <1>4, <1>5

(* The packet that the checksum functions see is a whole one. *)
LEMMA FilledWhole ==
  ASSUME Short, Built, last = "InitEmpty", frame.proto # "none",
         NEW a \in FieldWords, NEW h \in FieldWords, NEW data \in [1..frame.pay -> 0..(B - 1)],
         NEW k, k = Filled(a, h, data)
  PROVE  /\ Whole(k, frame.pay) /\ frame.pay \in Nat
         /\ k.type = frame.type /\ k.proto = frame.proto
<1>w. W \in Nat \ {0} /\ a \in Nat /\ h \in Nat /\ U16 = W
  BY PacketAssumption, Lens
<1>1. /\ frame \in Templates /\ At(pkt.L3).p = frame.proto
      /\ frame.type = "ipv4" => At(pkt.L3).len = IPv4MinLen + L4Len(frame) + frame.pay
      /\ frame.type = "ipv6" => At(pkt.L3).len = L4Len(frame) + frame.pay
      /\ frame.proto = "udp" => At(pkt.L4).len = UDPLen + frame.pay
  BY DEF Built
<1>2. /\ frame.pay \in Nat /\ frame.type \in {"ipv4", "ipv6", "arp", "none"}
      /\ frame.type \in {"arp", "none"} => frame.proto = "none"
      /\ frame.proto \in Protos /\ L3Len(frame) \in Nat /\ L4Len(frame) \in Nat
      /\ FrameLen(frame) = EtherLen + L3Len(frame) + L4Len(frame) + frame.pay
      /\ frame.type = "ipv4" => L3Len(frame) = IPv4MinLen
      /\ frame.proto = "udp" => L4Len(frame) = UDPLen
      /\ frame.proto = "tcp" => L4Len(frame) = TCPMinLen
      /\ frame.proto \in {"icmp", "icmp6"} => L4Len(frame) = ICMPLen
  <2>1. PICK f \in Templates : f = frame
    BY <1>1
  <2>2. /\ f.pay \in Nat /\ f.type \in {"ipv4", "ipv6", "arp", "none"}
        /\ f.type \in {"arp", "none"} => f.proto = "none"
        /\ f.proto \in Protos /\ L3Len(f) \in Nat /\ L4Len(f) \in Nat
        /\ FrameLen(f) = EtherLen + L3Len(f) + L4Len(f) + f.pay
        /\ f.type = "ipv4" => L3Len(f) = IPv4MinLen
        /\ f.proto = "udp" => L4Len(f) = UDPLen
        /\ f.proto = "tcp" => L4Len(f) = TCPMinLen
        /\ f.proto \in {"icmp", "icmp6"} => L4Len(f) = ICMPLen
    BY TemplateLens
  <2>3. QED
    BY <2>1, <2>2, Zenon
<1>3. FrameLen(frame) < W
  BY <1>1, <1>w DEF Short
<1>4. frame.type \in {"ipv4", "ipv6"}
  BY <1>2
<1>5. HeaderLen(frame.proto) = L4Len(frame)
  <2>1. CASE frame.proto = "tcp"
    BY <1>2, <2>1 DEF HeaderLen
  <2>2. CASE frame.proto = "udp"
    BY <1>2, <2>2 DEF HeaderLen
  <2>3. CASE frame.proto \in {"icmp", "icmp6"}
    BY <1>2, <2>3 DEF HeaderLen
  <2>4. QED
    BY <1>2, <2>1, <2>2, <2>3 DEF Protos
<1>6. /\ k.type = frame.type /\ k.proto = frame.proto /\ k.ipLen = At(pkt.L3).len
      /\ k.dgramLen = At(pkt.L4).len
      /\ k.addrs = [i \in 1..(IF frame.type = "ipv4" THEN 4 ELSE 16) |-> (a * i) % W]
      /\ k.iphdr = [i \in 1..4 |-> (h + i) % W]
      /\ k.hdr = [i \in 1..HeaderWords(frame.proto) |-> (h * i) % W]
      /\ k.mem = [i \in 1..(frame.pay + 1) |-> IF i \in DOMAIN data THEN data[i] ELSE B - 1]
  BY <1>1 DEF Filled
<1>7. \A x \in Nat : x % W \in Nat
  BY <1>w, DivMod
<1>8. SumSwapped(k.addrs) \in Nat
  <2>1. PICK n \in Nat : n = IF frame.type = "ipv4" THEN 4 ELSE 16
    OBVIOUS
  <2>2. \A i \in 1..n : a * i \in Nat
    BY <1>w, <2>1
  <2>3. \A i \in 1..n : (a * i) % W \in Nat
    BY <1>7, <2>2
  <2>4. k.addrs = [i \in 1..n |-> (a * i) % W]
    BY <1>6, <2>1, Zenon
  <2>5. k.addrs \in [1..n -> Nat]
    BY <2>3, <2>4
  <2>6. QED
    BY <2>5, SumSwappedNat
<1>9. SumSwapped(k.iphdr) \in Nat
  <2>1. \A i \in 1..4 : h + i \in Nat
    BY <1>w
  <2>2. k.iphdr \in [1..4 -> Nat] /\ 4 \in Nat
    BY <1>6, <1>7, <2>1
  <2>3. QED
    BY <2>2, SumSwappedNat
<1>10. SumSwapped(k.hdr) \in Nat
  <2>1. PICK n \in Nat : n = HeaderWords(frame.proto)
    BY DEF HeaderWords
  <2>2. \A i \in 1..n : h * i \in Nat
    BY <1>w, <2>1
  <2>3. k.hdr \in [1..n -> Nat]
    BY <1>6, <1>7, <2>1, <2>2
  <2>4. QED
    BY <2>3, SumSwappedNat
<1>11. \A i \in 1..frame.pay : k.mem[i] \in 0..(B - 1)
  <2>1. SUFFICES ASSUME NEW i \in 1..frame.pay PROVE k.mem[i] \in 0..(B - 1)
    OBVIOUS
  <2>2. i \in 1..(frame.pay + 1) /\ i \in DOMAIN data /\ data[i] \in 0..(B - 1)
    BY <1>2
  <2>3. QED
    BY <1>6, <2>2
<1>12. k.ipLen \in 0..(W - 1)
  <2>1. PICK n3 \in Nat, n4 \in Nat, pay \in Nat :
          n3 = L3Len(frame) /\ n4 = L4Len(frame) /\ pay = frame.pay
    BY <1>2
  <2>2. EtherLen + n3 + n4 + pay < W
    BY <1>2, <1>3, <2>1
  <2>3. CASE frame.type = "ipv4"
    <3>1. k.ipLen = n3 + n4 + pay
      BY <1>1, <1>2, <1>6, <2>1, <2>3
    <3>2. QED
      BY <2>2, <3>1, <1>w, Lens
  <2>4. CASE frame.type = "ipv6"
    <3>1. k.ipLen = n4 + pay
      BY <1>1, <1>6, <2>1, <2>4
    <3>2. QED
      BY <2>2, <3>1, <1>w, Lens
  <2>5. QED
    BY <1>4, <2>3, <2>4
<1>13. /\ k.type = "ipv4" => k.ipLen = IPv4MinLen + HeaderLen(k.proto) + frame.pay
       /\ k.type = "ipv6" => k.ipLen = HeaderLen(k.proto) + frame.pay
       /\ k.proto = "udp" => k.dgramLen = UDPLen + frame.pay
  BY <1>1, <1>5, <1>6
<1>14. Whole(k, frame.pay)
  BY <1>4, <1>6, <1>8, <1>9, <1>10, <1>11, <1>12, <1>13 DEF Whole
<1>15. QED
  BY <1>2, <1>6, <1>14

(* The checksums that were just computed. *)
LEMMA ComputeChecksumsRight ==
  ASSUME Short, Built, NEW a \in FieldWords, NEW h \in FieldWords,
         NEW data \in [1..frame.pay -> 0..(B - 1)], ComputeChecksums(a, h, data)
  PROVE  ChecksumVerifies'
<1>1. PICK k : k = Filled(a, h, data)
  OBVIOUS
<1>2. /\ last = "InitEmpty" /\ frame.proto # "none" /\ frame' = frame
      /\ summed' = [k |-> k, soft |-> CalculateChecksum(k), hard |-> Offloaded(k),
                    ip |-> CalculateIPv4Checksum(k)]
  BY <1>1 DEF ComputeChecksums
<1>3. /\ Whole(k, frame.pay) /\ frame.pay \in Nat
      /\ k.type = frame.type /\ k.proto = frame.proto
  BY <1>1, <1>2, FilledWhole
<1>4. /\ Verifies(k, frame.pay, CalculateChecksum(k))
      /\ k.proto = "udp" => CalculateChecksum(k) # 0
      /\ k.proto \in {"udp", "tcp"} => Verifies(k, frame.pay, Offloaded(k))
      /\ k.type = "ipv4" => IPv4Verifies(k, frame.pay, CalculateIPv4Checksum(k))
  BY <1>3, WholeVerifies
<1>5. /\ summed'.k = k /\ summed'.soft = CalculateChecksum(k)
      /\ summed'.hard = Offloaded(k) /\ summed'.ip = CalculateIPv4Checksum(k)
  BY <1>2
<1>6. QED
  BY <1>2, <1>3, <1>4, <1>5 DEF ChecksumVerifies

(* Only ComputeChecksums says that it computed the checksums. *)
LEMMA OthersSumNothing ==
  ASSUME PacketNext, last' = "Checksum"
  PROVE  \E a, h \in FieldWords : \E data \in [1..frame.pay -> 0..(B - 1)] :
           ComputeChecksums(a, h, data)
<1>1. MbufOnly => last' = "none"
  BY DEF MbufOnly, pktVars
<1>2. Alloc \/ ParseL2 \/ VxlanDecap \/ ParseData => last' # "Checksum"
  BY DEF Alloc, ParseL2, VxlanDecap, ParseData, Parsed
<1>3. \A f : Receive(f) => last' # "Checksum"
  BY DEF Receive
<1>4. \A f : InitEmpty(f) => last' # "Checksum"
  BY DEF InitEmpty
<1>5. \A start, n : /\ ~EncapsulateHead(start, n) /\ ~EncapsulateTail(start, n)
                    /\ ~DecapsulateHead(start, n) /\ ~DecapsulateTail(start, n)
                    /\ ~PacketBytesChange(start, n)
  BY DEF EncapsulateHead, EncapsulateTail, DecapsulateHead, DecapsulateTail,
         PacketBytesChange, Edit
<1>6. last' # "none"
  OBVIOUS
<1>7. QED
  BY <1>1, <1>2, <1>3, <1>4, <1>5, <1>6, Zenon DEF PacketNext

(* Every step keeps Built. *)
LEMMA BuiltKept ==
  ASSUME Short, PInv, Built, [PacketNext]_allVars
  PROVE  Built'
<1>1. CASE last' # "InitEmpty"
  BY <1>1 DEF Built
<1>2. CASE \E f \in Templates : InitEmpty(f)
  BY <1>2, InitEmptyBuilt
<1>3. CASE UNCHANGED allVars
  <2>1. UNCHANGED <<buf, pkt, frame, last>>
    BY <1>3 DEF allVars, pktVars
  <2>2. QED
    BY <2>1 DEF Built, At, L4Len
<1>4. QED
  BY <1>1, <1>2, <1>3, OthersBuildNothing

(* Whatever a packet is filled with, a receiver accepts its checksums, and *)
(* that of a UDP packet does not say that there is none.                   *)
THEOREM ChecksumVerifiesThm ==
  ASSUME Short
  PROVE  PacketSpec => []ChecksumVerifies
<1>1. PacketInit => Built /\ ChecksumVerifies
  <2>1. PacketInit => last # "InitEmpty" /\ last # "Checksum"
    BY DEF PacketInit
  <2>2. QED
    BY <2>1 DEF Built, ChecksumVerifies
<1>2. PInv /\ Built /\ ChecksumVerifies /\ [PacketNext]_allVars => Built' /\ ChecksumVerifies'
  <2> SUFFICES ASSUME PInv, Built, ChecksumVerifies, [PacketNext]_allVars
               PROVE  Built' /\ ChecksumVerifies'
    OBVIOUS
  <2>1. Built'
    BY BuiltKept
  <2>2. ChecksumVerifies'
    <3>1. CASE UNCHANGED allVars
      <4>1. UNCHANGED <<frame, last, summed>>
        BY <3>1 DEF allVars, pktVars
      <4>2. QED
        BY <4>1 DEF ChecksumVerifies
    <3>2. CASE last' # "Checksum"
      BY <3>2 DEF ChecksumVerifies
    <3>3. CASE PacketNext /\ last' = "Checksum"
      BY <3>3, OthersSumNothing, ComputeChecksumsRight
    <3>4. QED
      BY <3>1, <3>2, <3>3
  <2>3. QED
    BY <2>1, <2>2
<1>3. QED
  BY <1>1, <1>2, PacketInvariant, PTL DEF PacketSpec

(* Also in the hands of package packet every accepted operation on the     *)
(* mbuf moves the ends of the data by what a uint16 holds of its length.   *)
THEOREM PacketMovesExactly == PacketSpec => MovesExactly
<1>1. IInv =>
        [\A n \in Lengths :
           /\ PrependMbuf(n) /\ ok' => /\ data_off' = data_off - u16(n)
                                       /\ data_off' + data_len' = data_off + data_len
           /\ AdjMbuf(n) /\ ok' => /\ data_off' = data_off + u16(n)
                                   /\ data_off' + data_len' = data_off + data_len
           /\ AppendMbuf(n) /\ ok' => data_off' = data_off /\ data_len' = data_len + u16(n)
           /\ TrimMbuf(n) /\ ok' => data_off' = data_off /\ data_len' = data_len - u16(n)
           /\ (PrependMbuf(n) \/ AdjMbuf(n) \/ AppendMbuf(n) \/ TrimMbuf(n)) /\ ~ok' =>
                UNCHANGED mbufVars]_vars
  BY Moves
<1>2. QED
  BY <1>1, PacketMbufInvariant, PTL DEF MovesExactly

-----------------------------------------------------------------------------
(* The code adds up in a uint32, the model in the natural numbers: they    *)
(* agree, because no sum reaches the W * W values of a uint32.             *)

(* A sum of n numbers up to c. *)
LEMMA SumToBound ==
  ASSUME NEW n \in Nat, NEW c \in Nat, NEW s, \A i \in 1..n : s[i] \in 0..c
  PROVE  SumTo(n, s) \in Nat /\ SumTo(n, s) <= c * n
<1>1. PICK f : /\ \A i \in 0..n : f[i] \in Nat
               /\ f[0] = 0 /\ \A i \in 1..n : f[i] = f[i - 1] + s[i]
               /\ SumTo(n, s) = f[n]
  BY SumToSums
<1> DEFINE S == {i \in Nat : i <= n => f[i] <= c * i}
<1>2. ASSUME NEW i \in Nat, \A m \in Nat : m < i => m \in S PROVE i \in S
  <2>1. CASE i = 0
    <3>1. c * 0 = 0
      OBVIOUS
    <3>2. QED
      BY <1>1, <2>1, <3>1
  <2>2. CASE i \in 1..n
    <3>1. PICK j \in Nat : j = i - 1 /\ j < i /\ j <= n /\ j \in 0..n
      BY <2>2
    <3>2. f[j] \in Nat /\ f[j] <= c * j
      BY <1>1, <1>2, <3>1
    <3>3. f[i] = f[j] + s[i] /\ s[i] \in 0..c
      BY <1>1, <2>2, <3>1
    <3>4. c * i = c * j + c /\ c * j \in Nat
      <4>1. i = j + 1
        BY <3>1
      <4>2. QED
        BY <4>1, Products
    <3>5. f[i] <= c * i
      BY <3>2, <3>3, <3>4
    <3>6. QED
      BY <3>5
  <2>3. CASE i > n
    BY <2>3
  <2>4. QED
    BY <2>1, <2>2, <2>3
<1>3. Nat \subseteq S
  <2> HIDE DEF S
  <2>1. QED
    BY <1>2, SetInduction
<1>4. QED
  BY <1>1, <1>3

(* Two bytes make a word. *)
LEMMA WordBound ==
  ASSUME NEW x \in 0..(B - 1), NEW y \in 0..(B - 1)
  PROVE  B * x + y \in 0..(W - 1)
<1>1. B \in Nat /\ B > 1
  BY PacketAssumption
<1>2. PICK j \in Nat : j = (B - 1) - x
  BY <1>1
<1>3. B * ((B - 1) - j) = (B * B - B) - B * j /\ B * j \in Int /\ B * j >= 0 /\ B * B \in Int
  <2>1. B * (B - 1) = B * B - B /\ B * B \in Int
    BY <1>1
  <2>2. PICK e \in Int : e = B - 1
    BY <1>1
  <2>3. B * (e - j) = B * e - B * j /\ B * j \in Int
    BY <1>1, Products
  <2>4. B * j >= 0
    BY <1>1
  <2>5. QED
    BY <2>1, <2>2, <2>3, <2>4
<1>4. x = (B - 1) - j
  BY <1>1, <1>2
<1>5. B * x = (B * B - B) - B * j
  BY <1>3, <1>4
<1>6. B * x \in Nat
  BY <1>1
<1>7. B * x <= B * B - B
  BY <1>1, <1>3, <1>5
<1>8. QED
  BY <1>1, <1>3, <1>6, <1>7 DEF W

(* A row of n words. *)
LEMMA SumSwappedBound ==
  ASSUME NEW n \in Nat, NEW words \in [1..n -> 0..(W - 1)]
  PROVE  SumSwapped(words) \in Nat /\ SumSwapped(words) <= (W - 1) * n
<1>b. B \in Nat \ {0} /\ B > 1 /\ W \in Nat /\ W > 3 /\ W = B * B
  BY PacketAssumption, Lens DEF W
<1>1. words \in Seq(Nat)
  <2>1. words \in [1..n -> Nat]
    BY <1>b
  <2>2. QED
    BY <2>1
<1>2. PICK l \in Nat : l = Len(words)
  BY <1>1
<1>3. DOMAIN words = 1..l /\ DOMAIN words = 1..n
  BY <1>1, <1>2
<1>4. l = n
  BY <1>3
<1>5. \A x \in 0..(W - 1) : SwapBytesUint16(x) \in 0..(W - 1)
  <2>1. SUFFICES ASSUME NEW x \in 0..(W - 1) PROVE SwapBytesUint16(x) \in 0..(W - 1)
    OBVIOUS
  <2>2. PICK d \in Nat, r \in 0..(B - 1) : d = x \div B /\ r = x % B /\ x = B * d + r
    BY <1>b, DivMod
  <2>3. d <= B - 1
    <3>1. SUFFICES ASSUME d >= B PROVE FALSE
      BY <1>b
    <3>2. PICK j \in Nat : d = B + j
      BY <1>b, <3>1
    <3>3. B * (B + j) = B * B + B * j /\ B * j \in Nat
      BY <1>b, Products
    <3>4. PICK z \in Nat : z = B * j
      BY <3>3
    <3>5. x = (W + z) + r
      BY <1>b, <2>2, <3>2, <3>3, <3>4
    <3>6. QED
      BY <3>5, <1>b
  <2>4. B * r + d \in 0..(W - 1)
    BY <2>3, <1>b, WordBound
  <2>5. r * B = B * r
    BY <1>b
  <2>6. QED
    BY <2>2, <2>4, <2>5 DEF SwapBytesUint16
<1> DEFINE s == [i \in DOMAIN words |-> SwapBytesUint16(words[i])]
<1>6. \A i \in 1..n : s[i] \in 0..(W - 1)
  BY <1>3, <1>5
<1>7. SumSwapped(words) = SumTo(n, s)
  BY <1>2, <1>4 DEF SumSwapped
<1> HIDE DEF s
<1>8. PICK c \in Nat : c = W - 1
  BY <1>b
<1>9. QED
  BY <1>6, <1>7, <1>8, SumToBound

(* The payload on the wire. *)
LEMMA OnWireBound ==
  ASSUME NEW n \in Nat, NEW mem, \A i \in 1..n : mem[i] \in 0..(B - 1)
  PROVE  \E w \in Nat : 2 * w <= n + 1 /\ OnWire(mem, n) <= (W - 1) * w
<1> DEFINE at(i) == IF i <= n THEN mem[i] ELSE 0
           w == (n + 1) \div 2
           t == [i \in 1..w |-> B * at(2 * i - 1) + at(2 * i)]
<1>b. B \in Nat /\ B > 1 /\ W \in Nat /\ W > 3
  BY PacketAssumption, Lens
<1>1. w \in Nat /\ 2 * w <= n + 1
  OBVIOUS
<1>2. OnWire(mem, n) = SumTo(w, t)
  BY DEF OnWire
<1>3. \A i \in Nat \ {0} : at(i) \in 0..(B - 1)
  BY <1>b
<1>4. ASSUME NEW i \in 1..w PROVE t[i] \in 0..(W - 1)
  <2>1. 2 * i - 1 \in Nat \ {0} /\ 2 * i \in Nat \ {0}
    BY <1>1
  <2>2. PICK x \in 0..(B - 1), y \in 0..(B - 1) : x = at(2 * i - 1) /\ y = at(2 * i)
    BY <1>3, <2>1
  <2>3. t[i] = B * x + y
    BY <2>2
  <2>4. QED
    BY <2>3, WordBound
<1> HIDE DEF t, w
<1>5. PICK c \in Nat : c = W - 1
  BY <1>b
<1>6. SumTo(w, t) <= c * w
  BY <1>1, <1>4, <1>5, SumToBound
<1>7. QED
  BY <1>1, <1>2, <1>5, <1>6

(* The sums of the checksum functions stay below the values of a uint32. *)
SumsFit(k) ==
  /\ PseudoHdr(k) + Segment(k) < W * W
  /\ SumSwapped(k.addrs) + SumSwapped(k.iphdr) + k.ipLen + ProtoNumber(k.proto) < W * W

NoCarryLost == last = "Checksum" => SumsFit(summed.k)

(* How much the words of the headers add up to. *)
LEMMA FilledBounds ==
  ASSUME NEW a \in FieldWords, NEW h \in FieldWords, NEW data, NEW k, k = Filled(a, h, data)
  PROVE  /\ SumSwapped(k.addrs) <= (W - 1) * 16
         /\ SumSwapped(k.hdr) <= (W - 1) * 9
         /\ SumSwapped(k.iphdr) <= (W - 1) * 4
<1>w. W \in Nat \ {0} /\ a \in Nat /\ h \in Nat
  BY PacketAssumption, Lens
<1>1. /\ k.addrs = [i \in 1..(IF frame.type = "ipv4" THEN 4 ELSE 16) |-> (a * i) % W]
      /\ k.iphdr = [i \in 1..4 |-> (h + i) % W]
      /\ k.hdr = [i \in 1..HeaderWords(frame.proto) |-> (h * i) % W]
  BY DEF Filled
<1>2. \A x \in Nat : x % W \in 0..(W - 1)
  BY <1>w, DivMod
<1>3. PICK c \in Nat : c = W - 1
  BY <1>w
<1>4. ASSUME NEW l \in Nat, NEW n \in Nat, n <= l, NEW words \in [1..n -> 0..(W - 1)]
      PROVE  SumSwapped(words) <= (W - 1) * l
  <2>1. SumSwapped(words) \in Nat /\ SumSwapped(words) <= c * n
    BY <1>3, SumSwappedBound
  <2>2. PICK j \in Nat : l = n + j
    BY <1>4
  <2>3. c * (n + j) = c * n + c * j /\ c * j \in Nat /\ c * n \in Nat
    BY Products
  <2>4. PICK x \in Nat, y \in Nat : x = c * n /\ y = c * j
    BY <2>3
  <2>5. SumSwapped(words) <= x + y
    BY <2>1, <2>4
  <2>6. QED
    BY <1>3, <2>2, <2>3, <2>4, <2>5
<1>5. SumSwapped(k.addrs) <= (W - 1) * 16
  <2>1. PICK n \in Nat : n = (IF frame.type = "ipv4" THEN 4 ELSE 16) /\ n <= 16
    OBVIOUS
  <2>2. \A i \in 1..n : a * i \in Nat
    BY <1>w, <2>1
  <2>3. \A i \in 1..n : (a * i) % W \in 0..(W - 1)
    BY <1>2, <2>2
  <2>4. k.addrs = [i \in 1..n |-> (a * i) % W]
    BY <1>1, <2>1, Zenon
  <2>5. k.addrs \in [1..n -> 0..(W - 1)]
    BY <2>3, <2>4
  <2>6. 16 \in Nat
    OBVIOUS
  <2>7. QED
    BY <1>4, <2>1, <2>5, <2>6
<1>6. SumSwapped(k.hdr) <= (W - 1) * 9
  <2>1. PICK n \in Nat : n = HeaderWords(frame.proto) /\ n <= 9
    BY DEF HeaderWords
  <2>2. \A i \in 1..n : h * i \in Nat
    BY <1>w, <2>1
  <2>3. \A i \in 1..n : (h * i) % W \in 0..(W - 1)
    BY <1>2, <2>2
  <2>4. k.hdr = [i \in 1..n |-> (h * i) % W]
    BY <1>1, <2>1, Zenon
  <2>5. k.hdr \in [1..n -> 0..(W - 1)]
    BY <2>3, <2>4
  <2>6. 9 \in Nat
    OBVIOUS
  <2>7. QED
    BY <1>4, <2>1, <2>5, <2>6
<1>7. SumSwapped(k.iphdr) <= (W - 1) * 4
  <2>1. \A i \in 1..4 : h + i \in Nat
    BY <1>w
  <2>2. \A i \in 1..4 : (h + i) % W \in 0..(W - 1)
    BY <1>2, <2>1
  <2>3. k.iphdr \in [1..4 -> 0..(W - 1)] /\ 4 \in Nat
    BY <1>1, <2>2
  <2>4. PICK n \in Nat : n = 4
    OBVIOUS
  <2>5. k.iphdr \in [1..n -> 0..(W - 1)]
    BY <2>3, <2>4, Zenon
  <2>6. n <= n
    OBVIOUS
  <2>7. SumSwapped(k.iphdr) <= (W - 1) * n
    BY <1>4, <2>5, <2>6, Zenon
  <2>8. QED
    BY <2>4, <2>7, Zenon
<1>8. QED
  BY <1>5, <1>6, <1>7

(* The sums for a packet that the application has filled. *)
LEMMA FilledFits ==
  ASSUME Short, W >= 64, Built, last = "InitEmpty", frame.proto # "none",
         NEW a \in FieldWords, NEW h \in FieldWords, NEW data \in [1..frame.pay -> 0..(B - 1)],
         NEW k, k = Filled(a, h, data)
  PROVE  SumsFit(k)
<1>1. PICK m \in Nat : m = W - 1 /\ m >= 63 /\ W = m + 1
  BY Lens
<1>2. PICK pay \in Nat : pay = frame.pay /\ Whole(k, pay)
  BY FilledWhole
<1>3. PICK len \in 0..m : len = k.ipLen
  BY <1>1, <1>2 DEF Whole
<1>4. /\ SumSwapped(k.addrs) <= m * 16 /\ SumSwapped(k.hdr) <= m * 9
      /\ SumSwapped(k.iphdr) <= m * 4
  BY <1>1, FilledBounds
<1>5. PICK ad \in Nat, hd \in Nat, ih \in Nat :
        /\ ad = SumSwapped(k.addrs) /\ hd = SumSwapped(k.hdr) /\ ih = SumSwapped(k.iphdr)
        /\ ad <= 16 * m /\ hd <= 9 * m /\ ih <= 4 * m
  BY <1>2, <1>4 DEF Whole
<1>6. PICK n \in 0..3 : n = ProtoNumber(k.proto)
  BY DEF ProtoNumber
<1>7. PICK hl \in Nat : hl = HeaderLen(k.proto)
  BY <1>2, SumsOfWhole
<1>8. hl + pay <= m /\ pay <= m
  <2>1. k.type = "ipv4" => len = IPv4MinLen + hl + pay
    BY <1>2, <1>3, <1>7 DEF Whole
  <2>2. k.type = "ipv6" => len = hl + pay
    BY <1>2, <1>3, <1>7 DEF Whole
  <2>3. k.type = "ipv4" \/ k.type = "ipv6"
    BY <1>2 DEF Whole
  <2>4. k.type = "ipv4" => hl + pay <= m
    BY <1>3, <2>1, Lens
  <2>5. k.type = "ipv6" => hl + pay <= m
    BY <1>3, <2>2
  <2>6. QED
    BY <2>3, <2>4, <2>5
<1>9. PICK dl \in 0..m : dl = IF k.proto = "udp" THEN UDPLen + pay ELSE 0
  <2>1. k.proto = "udp" => hl = UDPLen
    BY <1>7 DEF HeaderLen
  <2>2. QED
    BY <1>8, <2>1
<1>10. PICK w \in Nat : 2 * w <= pay + 1 /\ OnWire(k.mem, pay) <= m * w
  BY <1>1, <1>2, OnWireBound DEF Whole
<1>11. PICK o \in Nat : o = OnWire(k.mem, pay) /\ o <= m * w
  BY <1>2, <1>10, SumsOfWhole
<1>12. PICK q \in Nat, mw \in Nat : q = m * m /\ mw = m * w
  OBVIOUS
<1>13. 2 * mw <= q + m
  <2>1. 2 * w <= m + 1
    BY <1>8, <1>10
  <2>2. PICK j \in Nat : m + 1 = 2 * w + j
    BY <2>1
  <2>3. m * (m + 1) = q + m
    BY <1>12
  <2>4. m * (2 * w + j) = m * (2 * w) + m * j /\ m * j \in Nat
    BY Products
  <2>5. m * (2 * w) = 2 * mw
    BY <1>12
  <2>6. QED
    BY <2>2, <2>3, <2>4, <2>5
<1>14. q >= 63 * m
  <2>1. PICK j \in Nat : m = 63 + j
    BY <1>1
  <2>2. m * (63 + j) = m * 63 + m * j /\ m * j \in Nat
    BY Products
  <2>3. q = m * 63 + m * j
    BY <2>1, <2>2, <1>12
  <2>4. QED
    BY <2>2, <2>3
<1>15. W * W = q + 2 * m + 1
  BY <1>1, <1>12
<1>16. Segment(k) = hd + dl + o /\ PseudoHdr(k) = ad + n + hl + pay
  BY <1>2, <1>5, <1>6, <1>7, <1>9, <1>11, SumsOfWhole
<1>17. (ad + n + hl + pay) + (hd + dl + o) < q + 2 * m + 1
  <2>1. o <= mw
    BY <1>11, <1>12
  <2>2. ad + n + hl + pay <= 18 * m
    BY <1>1, <1>5, <1>8
  <2>3. hd <= 9 * m
    BY <1>5, Zenon
  <2>4. dl <= m
    OBVIOUS
  <2>5. hd + dl + o <= 10 * m + mw
    BY <2>1, <2>3, <2>4
  <2>6. QED
    BY <1>1, <1>13, <1>14, <2>2, <2>5
<1>18. ad + ih + len + n < q + 2 * m + 1
  <2>1. ad <= 16 * m /\ ih <= 4 * m
    BY <1>5, Zenon
  <2>2. m >= 63
    BY <1>1, Zenon
  <2>3. len <= m /\ n <= 3
    OBVIOUS
  <2>4. ad + ih + len + n <= 22 * m
    BY <2>1, <2>2, <2>3
  <2>5. QED
    BY <1>14, <2>4
<1>19. QED
  BY <1>3, <1>5, <1>6, <1>15, <1>16, <1>17, <1>18 DEF SumsFit

(* With words of at least 64 values, and so with those of 2^16, no carry   *)
(* is lost in the uint32 in which the code adds up headers and payload.    *)
THEOREM SumsFitUint32 ==
  ASSUME Short, W >= 64
  PROVE  PacketSpec => []NoCarryLost
<1>1. PacketInit => Built /\ NoCarryLost
  <2>1. PacketInit => last # "InitEmpty" /\ last # "Checksum"
    BY DEF PacketInit
  <2>2. QED
    BY <2>1 DEF Built, NoCarryLost
<1>2. PInv /\ Built /\ NoCarryLost /\ [PacketNext]_allVars => Built' /\ NoCarryLost'
  <2> SUFFICES ASSUME PInv, Built, NoCarryLost, [PacketNext]_allVars PROVE Built' /\ NoCarryLost'
    OBVIOUS
  <2>1. Built'
    BY BuiltKept
  <2>2. NoCarryLost'
    <3>1. CASE UNCHANGED allVars
      <4>1. UNCHANGED <<last, summed>>
        BY <3>1 DEF allVars, pktVars
      <4>2. QED
        BY <4>1 DEF NoCarryLost
    <3>2. CASE last' # "Checksum"
      BY <3>2 DEF NoCarryLost
    <3>3. CASE PacketNext /\ last' = "Checksum"
      <4>1. PICK a \in FieldWords, h \in FieldWords, data \in [1..frame.pay -> 0..(B - 1)] :
              ComputeChecksums(a, h, data)
        BY <3>3, OthersSumNothing
      <4>2. PICK k : k = Filled(a, h, data)
        OBVIOUS
      <4>3. last = "InitEmpty" /\ frame.proto # "none" /\ summed'.k = k
        BY <4>1, <4>2 DEF ComputeChecksums
      <4>4. SumsFit(k)
        BY <4>1, <4>2, <4>3, FilledFits
      <4>5. QED
        BY <4>3, <4>4 DEF NoCarryLost
    <3>4. QED
      BY <3>1, <3>2, <3>3
  <2>3. QED
    BY <2>1, <2>2
<1>3. QED
  BY <1>1, <1>2, PacketInvariant, PTL DEF PacketSpec

=============================================================================
