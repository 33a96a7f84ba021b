------------------------- MODULE SnifferWorkerProofs -------------------------
(***************************************************************************)
(* Proofs about SnifferWorker, for any number of workers and mbufs, any    *)
(* burst size and any size of the transmit buffer.                         *)
(*                                                                         *)
(* Neither property is inductive.  The packets of a queue stand in line in *)
(* the transmit buffer, the rest of the burst and the receive ring, and    *)
(* LineInv says that their numbers rise along that line and are above all  *)
(* that has been sent.  As two entries of the line then hold different     *)
(* mbufs, the places of OneOwner come down to the sets of OwnInv.          *)
(***************************************************************************)
EXTENDS SnifferWorker, SequenceTheorems, TLAPS

(* Along s the numbers of the packets rise; those in A are below those in B. *)
Rising(f, s) == \A j, k \in DOMAIN s : j < k => f[s[j]].id < f[s[k]].id
Below(f, A, B) == \A x \in A, y \in B : f[x].id < f[y].id

(* The mbufs between the receive ring of w and its transmit ring. *)
Waiting(w) == Range(txBuf[w]) \cup Range(Pending(w)) \cup Range(rxRing[w])

(* The types of the variables. *)
WorkerTypeOK ==
  /\ pool \subseteq Mbufs
  /\ arrived \in Nat
  /\ DOMAIN pkt = Mbufs
  /\ \A m \in Mbufs : /\ pkt[m] = [id |-> pkt[m].id, kind |-> pkt[m].kind]
                      /\ pkt[m].id \in Nat
  /\ rxRing \in [Workers -> Seq(Mbufs)]
  /\ buf \in [Workers -> Seq(Mbufs)]
  /\ txBuf \in [Workers -> Seq(Mbufs)]
  /\ nic \in [Workers -> SUBSET Mbufs]
  /\ pc \in [Workers -> {"flush", "rx", "packets"}]
  /\ i \in [Workers -> Nat \ {0}]
  /\ \A w \in Workers : i[w] <= Len(buf[w]) + 1
  /\ sent \in [Workers -> Seq(Nat)]

(* The packets of w are numbered in the order of the line they stand in:   *)
(* sent, in the transmit buffer, of the burst not yet handled, in the      *)
(* receive ring.                                                           *)
LineInv(w) ==
  /\ Rising(pkt, txBuf[w]) /\ Rising(pkt, Pending(w)) /\ Rising(pkt, rxRing[w])
  /\ Below(pkt, Range(txBuf[w]), Range(Pending(w)) \cup Range(rxRing[w]))
  /\ Below(pkt, Range(Pending(w)), Range(rxRing[w]))
  /\ \A m \in Waiting(w) : pkt[m].id <= arrived
  /\ \A x \in Range(sent[w]) : x <= arrived /\ \A m \in Waiting(w) : x < pkt[m].id
  /\ \A j, k \in DOMAIN sent[w] : j < k => sent[w][j] < sent[w][k]

(* Every mbuf is in the pool, with the device or waiting, and with one     *)
(* worker only.                                                            *)
OwnInv ==
  /\ \A m \in Mbufs : m \in pool \/ \E w \in Workers : m \in nic[w] \/ m \in Waiting(w)
  /\ \A w \in Workers : pool \cap nic[w] = {} /\ pool \cap Waiting(w) = {}
  /\ \A v, w \in Workers : /\ nic[v] \cap Waiting(w) = {}
                           /\ v # w => nic[v] \cap nic[w] = {} /\ Waiting(v) \cap Waiting(w) = {}

WorkerInv == WorkerTypeOK /\ OwnInv /\ \A w \in Workers : LineInv(w)

-----------------------------------------------------------------------------
(* Sequences. *)

(* The length of what is left of a sequence, as SubSeq counts it. *)
LEMMA CutLen ==
  ASSUME NEW l \in Nat, NEW n \in 0..l, NEW c,
         c = IF n + 1 <= l THEN l - (n + 1) + 1 ELSE 0
  PROVE  c = l - n /\ l - (n + 1) + 1 = l - n
OBVIOUS

(* A sequence of mbufs cut in two. *)
LEMMA SplitSeq ==
  ASSUME NEW s \in Seq(Mbufs), NEW n \in 0..Len(s)
  PROVE  LET a == SubSeq(s, 1, n)
             b == SubSeq(s, n + 1, Len(s))
         IN  /\ a \in Seq(Mbufs) /\ Len(a) = n /\ \A j \in 1..n : a[j] = s[j]
             /\ b \in Seq(Mbufs) /\ Len(b) = Len(s) - n
             /\ \A j \in 1..(Len(s) - n) : b[j] = s[n + j]
             /\ Range(s) = Range(a) \cup Range(b)
<1> DEFINE a == SubSeq(s, 1, n)
           b == SubSeq(s, n + 1, Len(s))
<1>1. Len(s) \in Nat /\ DOMAIN s = 1..Len(s) /\ \A j \in 1..Len(s) : s[j] \in Mbufs
  OBVIOUS
<1>2. a \in Seq(Mbufs) /\ Len(a) = n /\ \A j \in 1..n : a[j] = s[j]
  BY <1>1, SubSeqProperties
<1>3. b \in Seq(Mbufs) /\ Len(b) = Len(s) - n /\ \A j \in 1..(Len(s) - n) : b[j] = s[n + j]
  <2>1. \A j \in (n + 1)..Len(s) : s[j] \in Mbufs
    BY <1>1
  <2>2. /\ b \in Seq(Mbufs) /\ Len(b) = IF n + 1 <= Len(s) THEN Len(s) - (n + 1) + 1 ELSE 0
        /\ \A j \in 1..(Len(s) - (n + 1) + 1) : b[j] = s[n + 1 + j - 1]
    BY <1>1, <2>1, SubSeqProperties
  <2> HIDE DEF b
  <2>3. Len(b) = Len(s) - n /\ Len(s) - (n + 1) + 1 = Len(s) - n
    BY <1>1, <2>2, CutLen
  <2>4. ASSUME NEW j \in 1..(Len(s) - n) PROVE b[j] = s[n + j]
    <3>1. n + 1 + j - 1 = n + j
      OBVIOUS
    <3>2. QED
      BY <2>2, <2>3, <3>1
  <2>5. QED
    BY <2>2, <2>3, <2>4
<1> HIDE DEF a, b
<1>4. DOMAIN a = 1..n /\ DOMAIN b = 1..(Len(s) - n)
  BY <1>2, <1>3
<1>5. ASSUME NEW j \in 1..Len(s), j > n PROVE s[j] = b[j - n] /\ j - n \in DOMAIN b
  <2>1. j - n \in 1..(Len(s) - n) /\ n + (j - n) = j
    BY <1>5
  <2>2. QED
    BY <1>3, <1>4, <2>1
<1>6. ASSUME NEW j \in 1..Len(s) PROVE s[j] \in Range(a) \cup Range(b)
  <2>1. CASE j <= n
    BY <1>2, <1>4, <2>1 DEF Range
  <2>2. CASE j > n
    BY <1>5, <2>2 DEF Range
  <2>3. QED
    BY <1>1, <2>1, <2>2
<1>7. \A j \in DOMAIN a : a[j] \in Range(s)
  BY <1>1, <1>2, <1>4 DEF Range
<1>8. \A j \in DOMAIN b : b[j] \in Range(s)
  BY <1>1, <1>3, <1>4 DEF Range
<1>9. Range(s) = Range(a) \cup Range(b)
  BY <1>1, <1>6, <1>7, <1>8 DEF Range
<1>10. QED
  BY <1>2, <1>3, <1>9 DEF a, b

(* The parts of a sequence in order are in order, and one comes before the *)
(* other.                                                                  *)
LEMMA SplitRising ==
  ASSUME WorkerTypeOK, NEW s \in Seq(Mbufs), NEW n \in 0..Len(s), Rising(pkt, s)
  PROVE  LET a == SubSeq(s, 1, n)
             b == SubSeq(s, n + 1, Len(s))
         IN  Rising(pkt, a) /\ Rising(pkt, b) /\ Below(pkt, Range(a), Range(b))
<1> DEFINE a == SubSeq(s, 1, n)
           b == SubSeq(s, n + 1, Len(s))
<1>1. /\ a \in Seq(Mbufs) /\ Len(a) = n /\ \A j \in 1..n : a[j] = s[j]
      /\ b \in Seq(Mbufs) /\ Len(b) = Len(s) - n
      /\ \A j \in 1..(Len(s) - n) : b[j] = s[n + j]
  BY SplitSeq
<1> HIDE DEF a, b
<1>2. DOMAIN a = 1..n /\ DOMAIN b = 1..(Len(s) - n) /\ DOMAIN s = 1..Len(s) /\ Len(s) \in Nat
  BY <1>1
<1>3. Rising(pkt, a)
  BY <1>1, <1>2 DEF Rising
<1>4. Rising(pkt, b)
  <2>1. ASSUME NEW j \in DOMAIN b, NEW k \in DOMAIN b, j < k PROVE pkt[b[j]].id < pkt[b[k]].id
    <3>1. n + j < n + k /\ n + j \in DOMAIN s /\ n + k \in DOMAIN s
      BY <1>2, <2>1
    <3>2. b[j] = s[n + j] /\ b[k] = s[n + k]
      BY <1>1, <1>2
    <3>3. QED
      BY <3>1, <3>2 DEF Rising
  <2>2. QED
    BY <2>1 DEF Rising
<1>5. Below(pkt, Range(a), Range(b))
  <2>1. ASSUME NEW j \in 1..n, NEW k \in 1..(Len(s) - n) PROVE pkt[a[j]].id < pkt[b[k]].id
    <3>1. j < n + k /\ j \in DOMAIN s /\ n + k \in DOMAIN s
      BY <1>2
    <3>2. a[j] = s[j] /\ b[k] = s[n + k]
      BY <1>1
    <3>3. QED
      BY <3>1, <3>2 DEF Rising
  <2>2. QED
    BY <1>2, <2>1 DEF Below, Range
<1>6. QED
  BY <1>3, <1>4, <1>5 DEF a, b

(* A sequence of mbufs with one more. *)
LEMMA AppendFacts ==
  ASSUME NEW s \in Seq(Mbufs), NEW m \in Mbufs
  PROVE  /\ Append(s, m) \in Seq(Mbufs)
         /\ Range(Append(s, m)) = Range(s) \cup {m}
<1> DEFINE t == Append(s, m)
<1>1. /\ t \in Seq(Mbufs) /\ Len(t) = Len(s) + 1 /\ Len(s) \in Nat
      /\ DOMAIN t = 1..(Len(s) + 1) /\ DOMAIN s = 1..Len(s)
      /\ t[Len(s) + 1] = m /\ \A j \in 1..Len(s) : t[j] = s[j]
  OBVIOUS
<1> HIDE DEF t
<1>2. Range(t) = Range(s) \cup {m}
  <2>1. \A j \in DOMAIN t : t[j] \in Range(s) \cup {m}
    BY <1>1 DEF Range
  <2>2. \A j \in DOMAIN s : s[j] \in Range(t)
    BY <1>1 DEF Range
  <2>3. m \in Range(t)
    BY <1>1 DEF Range
  <2>4. QED
    BY <2>1, <2>2, <2>3 DEF Range
<1>3. QED
  BY <1>1, <1>2 DEF t

(* A later packet may follow a sequence in order. *)
LEMMA AppendRising ==
  ASSUME NEW s \in Seq(Mbufs), NEW m \in Mbufs, NEW f,
         Rising(f, s), Below(f, Range(s), {m})
  PROVE  Rising(f, Append(s, m))
<1> DEFINE t == Append(s, m)
<1>1. /\ Len(s) \in Nat /\ DOMAIN t = 1..(Len(s) + 1) /\ DOMAIN s = 1..Len(s)
      /\ t[Len(s) + 1] = m /\ \A j \in 1..Len(s) : t[j] = s[j]
  OBVIOUS
<1> HIDE DEF t
<1>2. ASSUME NEW j \in DOMAIN t, NEW k \in DOMAIN t, j < k PROVE f[t[j]].id < f[t[k]].id
  <2>1. CASE k = Len(s) + 1
    <3>1. j \in DOMAIN s /\ t[j] = s[j] /\ t[k] = m
      BY <1>1, <1>2, <2>1
    <3>2. QED
      BY <3>1 DEF Below, Range
  <2>2. CASE k # Len(s) + 1
    <3>1. j \in DOMAIN s /\ t[j] = s[j] /\ k \in DOMAIN s /\ t[k] = s[k]
      BY <1>1, <1>2, <2>2
    <3>2. QED
      BY <1>2, <3>1 DEF Rising
  <2>3. QED
    BY <2>1, <2>2
<1>3. QED
  BY <1>2 DEF Rising, t

(* The next packet of a burst and those behind it. *)
LEMMA PendingFacts ==
  ASSUME WorkerTypeOK, NEW w \in Workers
  PROVE  /\ Pending(w) \in Seq(Mbufs)
         /\ pc[w] # "packets" => Pending(w) = <<>>
         /\ pc[w] = "packets" => Len(Pending(w)) = Len(buf[w]) + 1 - i[w]
<1>1. CASE pc[w] = "packets"
  <2>1. buf[w] \in Seq(Mbufs) /\ i[w] \in Nat /\ i[w] >= 1 /\ i[w] <= Len(buf[w]) + 1
    BY DEF WorkerTypeOK
  <2>2. i[w] - 1 \in 0..Len(buf[w]) /\ (i[w] - 1) + 1 = i[w]
    BY <2>1
  <2>3. /\ SubSeq(buf[w], i[w], Len(buf[w])) \in Seq(Mbufs)
        /\ Len(SubSeq(buf[w], i[w], Len(buf[w]))) = Len(buf[w]) - (i[w] - 1)
    <3> DEFINE n == i[w] - 1
    <3>1. /\ SubSeq(buf[w], n + 1, Len(buf[w])) \in Seq(Mbufs)
          /\ Len(SubSeq(buf[w], n + 1, Len(buf[w]))) = Len(buf[w]) - n
      BY <2>1, <2>2, SplitSeq
    <3>2. QED
      BY <2>2, <3>1
  <2>4. QED
    BY <1>1, <2>1, <2>3 DEF Pending
<1>2. CASE pc[w] # "packets"
  BY <1>2 DEF Pending
<1>3. QED
  BY <1>1, <1>2

(* The packet at hand and the rest of the burst. *)
LEMMA PendingTail ==
  ASSUME WorkerTypeOK, NEW w \in Workers, pc[w] = "packets", i[w] <= Len(buf[w])
  PROVE  LET m == buf[w][i[w]]
             rest == SubSeq(buf[w], i[w] + 1, Len(buf[w]))
         IN  /\ m \in Mbufs
             /\ rest \in Seq(Mbufs)
             /\ Range(Pending(w)) = {m} \cup Range(rest)
             /\ Rising(pkt, Pending(w)) => Rising(pkt, rest) /\ Below(pkt, {m}, Range(rest))
<1> DEFINE b == buf[w]
           n == i[w]
           m == b[n]
           p == Pending(w)
           l == Len(b) - n
           rest == SubSeq(b, n + 1, Len(b))
<1>1. b \in Seq(Mbufs) /\ n \in Nat /\ n >= 1 /\ n <= Len(b) /\ Len(b) \in Nat
  BY DEF WorkerTypeOK
<1>2. m \in Mbufs
  BY <1>1
<1>3. /\ rest \in Seq(Mbufs) /\ Len(rest) = l /\ \A j \in 1..l : rest[j] = b[n + j]
  <2>1. n \in 0..Len(b)
    BY <1>1
  <2> HIDE DEF b, n
  <2>2. QED
    BY <1>1, <2>1, SplitSeq
<1>4. /\ p \in Seq(Mbufs) /\ Len(p) = l + 1 /\ \A j \in 1..(l + 1) : p[j] = b[n - 1 + j]
  <2> DEFINE k == n - 1
  <2>1. k \in 0..Len(b) /\ k + 1 = n /\ Len(b) - k = l + 1
    BY <1>1
  <2>2. p = SubSeq(b, k + 1, Len(b))
    BY <2>1 DEF Pending
  <2> HIDE DEF b, n, p, k, l
  <2>3. p \in Seq(Mbufs) /\ Len(p) = Len(b) - k /\ \A j \in 1..(Len(b) - k) : p[j] = b[k + j]
    BY <1>1, <2>1, <2>2, SplitSeq
  <2>4. QED
    BY <2>1, <2>3 DEF k
<1> HIDE DEF p, rest
<1>5. l \in Nat /\ DOMAIN p = 1..(l + 1) /\ DOMAIN rest = 1..l
  BY <1>1, <1>3, <1>4
<1>6. p[1] = m /\ 1 \in DOMAIN p
  <2>1. n - 1 + 1 = n
    BY <1>1
  <2>2. QED
    BY <1>4, <1>5, <2>1
<1>7. ASSUME NEW j \in DOMAIN rest PROVE rest[j] = p[j + 1] /\ j + 1 \in DOMAIN p
  <2> HIDE DEF n, l
  <2>1. n - 1 + (j + 1) = n + j /\ j + 1 \in 1..(l + 1)
    BY <1>1, <1>5
  <2>2. QED
    BY <1>3, <1>4, <1>5, <2>1
<1>8. ASSUME NEW j \in DOMAIN p, j # 1 PROVE p[j] = rest[j - 1] /\ j - 1 \in DOMAIN rest
  <2>1. j - 1 \in DOMAIN rest /\ (j - 1) + 1 = j
    BY <1>5, <1>8
  <2>2. QED
    BY <1>7, <2>1
<1> HIDE DEF m, l
<1>9. Range(p) = {m} \cup Range(rest)
  BY <1>6, <1>7, <1>8 DEF Range
<1>10. ASSUME Rising(pkt, p) PROVE Rising(pkt, rest) /\ Below(pkt, {m}, Range(rest))
  <2>1. ASSUME NEW j \in DOMAIN rest, NEW k \in DOMAIN rest, j < k
        PROVE  pkt[rest[j]].id < pkt[rest[k]].id
    <3>1. j + 1 < k + 1
      BY <1>5, <2>1
    <3>2. QED
      BY <1>7, <1>10, <3>1 DEF Rising
  <2>2. ASSUME NEW k \in DOMAIN rest PROVE pkt[m].id < pkt[rest[k]].id
    <3>1. 1 < k + 1
      BY <1>5
    <3>2. QED
      BY <1>6, <1>7, <1>10, <3>1 DEF Rising
  <2>3. QED
    BY <2>1, <2>2 DEF Rising, Below, Range
<1>11. QED
  BY <1>2, <1>3, <1>9, <1>10 DEF m, p, rest, b, n

(* Numbers put behind smaller ones. *)
LEMMA ConcatRising ==
  ASSUME NEW a \in Seq(Nat), NEW b \in Seq(Nat),
         \A j, k \in DOMAIN a : j < k => a[j] < a[k],
         \A j, k \in DOMAIN b : j < k => b[j] < b[k],
         \A x \in Range(a), y \in Range(b) : x < y
  PROVE  /\ a \o b \in Seq(Nat)
         /\ Range(a \o b) = Range(a) \cup Range(b)
         /\ \A j, k \in DOMAIN (a \o b) : j < k => (a \o b)[j] < (a \o b)[k]
<1> DEFINE c == a \o b
<1>1. /\ c \in Seq(Nat) /\ Len(c) = Len(a) + Len(b) /\ Len(a) \in Nat /\ Len(b) \in Nat
      /\ DOMAIN c = 1..(Len(a) + Len(b)) /\ DOMAIN a = 1..Len(a) /\ DOMAIN b = 1..Len(b)
      /\ \A j \in 1..Len(a) : c[j] = a[j]
      /\ \A j \in 1..Len(b) : c[Len(a) + j] = b[j]
  OBVIOUS
<1> HIDE DEF c
<1>2. ASSUME NEW j \in DOMAIN c, j > Len(a)
      PROVE  j - Len(a) \in DOMAIN b /\ c[j] = b[j - Len(a)]
  <2>1. j - Len(a) \in DOMAIN b /\ Len(a) + (j - Len(a)) = j
    BY <1>1, <1>2
  <2>2. QED
    BY <1>1, <2>1
<1>3. ASSUME NEW j \in DOMAIN c, ~(j > Len(a))
      PROVE  j \in DOMAIN a /\ c[j] = a[j]
  BY <1>1, <1>3
<1>4. Range(c) = Range(a) \cup Range(b)
  <2>1. \A j \in DOMAIN c : c[j] \in Range(a) \cup Range(b)
    BY <1>2, <1>3 DEF Range
  <2>2. \A j \in DOMAIN a : a[j] \in Range(c)
    BY <1>1 DEF Range
  <2>3. \A j \in DOMAIN b : b[j] \in Range(c)
    <3>1. ASSUME NEW j \in DOMAIN b PROVE Len(a) + j \in DOMAIN c /\ b[j] = c[Len(a) + j]
      BY <1>1
    <3>2. QED
      BY <3>1 DEF Range
  <2>4. QED
    BY <2>1, <2>2, <2>3 DEF Range
<1>5. ASSUME NEW j \in DOMAIN c, NEW k \in DOMAIN c, j < k PROVE c[j] < c[k]
  <2>1. CASE j > Len(a)
    <3>1. k > Len(a) /\ j - Len(a) < k - Len(a)
      BY <1>1, <1>5, <2>1
    <3>2. QED
      BY <1>2, <2>1, <3>1
  <2>2. CASE ~(j > Len(a)) /\ k > Len(a)
    BY <1>2, <1>3, <2>2 DEF Range
  <2>3. CASE ~(j > Len(a)) /\ ~(k > Len(a))
    BY <1>3, <1>5, <2>3
  <2>4. QED
    BY <2>1, <2>2, <2>3
<1>6. QED
  BY <1>1, <1>4, <1>5 DEF c

-----------------------------------------------------------------------------
(* Steps. *)

(* At first every mbuf is in the pool. *)
LEMMA InitInv == Init => WorkerInv
<1> SUFFICES ASSUME Init PROVE WorkerInv
  OBVIOUS
<1> USE DEF Init
<1>1. <<>> \in Seq(Mbufs) /\ <<>> \in Seq(Nat) /\ Range(<<>>) = {} /\ DOMAIN <<>> = {}
  BY DEF Range
<1>2. WorkerTypeOK
  BY <1>1 DEF WorkerTypeOK
<1>3. \A w \in Workers : Pending(w) = <<>> /\ Waiting(w) = {}
  BY <1>1 DEF Pending, Waiting
<1>4. OwnInv
  BY <1>3 DEF OwnInv
<1>5. \A w \in Workers : LineInv(w)
  BY <1>1, <1>3 DEF LineInv, Rising, Below
<1>6. QED
  BY <1>2, <1>4, <1>5 DEF WorkerInv

(* Of the mbufs of w, A go to the pool and B to the transmit ring. *)
LEMMA OwnMove ==
  ASSUME OwnInv, NEW w \in Workers, NEW A, NEW B,
         A \cup B \subseteq Waiting(w), A \cap B = {},
         pool' = pool \cup A,
         nic'[w] = nic[w] \cup B, \A v \in Workers \ {w} : nic'[v] = nic[v],
         Waiting(w)' = Waiting(w) \ (A \cup B),
         \A v \in Workers \ {w} : Waiting(v)' = Waiting(v)
  PROVE  OwnInv'
<1> HIDE DEF Waiting
<1>1. ASSUME NEW m \in Mbufs
      PROVE  m \in pool' \/ \E v \in Workers : m \in nic'[v] \/ m \in Waiting(v)'
  <2>1. CASE m \in Waiting(w)
    BY <2>1
  <2>2. CASE m \notin Waiting(w)
    BY <2>2 DEF OwnInv
  <2>3. QED
    BY <2>1, <2>2
<1>2. ASSUME NEW v \in Workers PROVE pool' \cap nic'[v] = {} /\ pool' \cap Waiting(v)' = {}
  BY DEF OwnInv
<1>3. ASSUME NEW u \in Workers, NEW v \in Workers
      PROVE  /\ nic'[u] \cap Waiting(v)' = {}
             /\ u # v => nic'[u] \cap nic'[v] = {} /\ Waiting(u)' \cap Waiting(v)' = {}
  BY DEF OwnInv
<1>4. QED
  BY <1>1, <1>2, <1>3 DEF OwnInv

(* A worker whose own line is not touched. *)
LEMMA LineFrame ==
  ASSUME WorkerTypeOK, NEW v \in Workers, LineInv(v),
         txBuf'[v] = txBuf[v], Pending(v)' = Pending(v), rxRing'[v] = rxRing[v],
         sent'[v] = sent[v], arrived' \in Nat, arrived <= arrived',
         \A m \in Waiting(v) : pkt'[m].id = pkt[m].id
  PROVE  LineInv(v)' /\ Waiting(v)' = Waiting(v)
<1>1. Waiting(v)' = Waiting(v)
  BY DEF Waiting
<1>2. /\ Range(txBuf[v]) \subseteq Waiting(v) /\ Range(Pending(v)) \subseteq Waiting(v)
      /\ Range(rxRing[v]) \subseteq Waiting(v)
  BY DEF Waiting
<1>3. /\ \A j \in DOMAIN txBuf[v] : txBuf[v][j] \in Waiting(v)
      /\ \A j \in DOMAIN Pending(v) : Pending(v)[j] \in Waiting(v)
      /\ \A j \in DOMAIN rxRing[v] : rxRing[v][j] \in Waiting(v)
  BY <1>2 DEF Range
<1>4. Rising(pkt', txBuf[v]) /\ Rising(pkt', Pending(v)) /\ Rising(pkt', rxRing[v])
  BY <1>3 DEF LineInv, Rising
<1>5. /\ Below(pkt', Range(txBuf[v]), Range(Pending(v)) \cup Range(rxRing[v]))
      /\ Below(pkt', Range(Pending(v)), Range(rxRing[v]))
  BY <1>2 DEF LineInv, Below
<1>6. Waiting(v) \subseteq Mbufs /\ Range(sent[v]) \subseteq Nat /\ arrived \in Nat
  BY PendingFacts DEF WorkerTypeOK, Waiting, Range
<1>7. \A m \in Waiting(v) : pkt'[m].id <= arrived'
  <2>1. \A m \in Waiting(v) : pkt[m].id <= arrived /\ pkt[m].id \in Nat
    BY <1>6 DEF LineInv, WorkerTypeOK
  <2>2. QED
    BY <1>6, <2>1
<1>8. \A x \in Range(sent[v]) : x <= arrived' /\ \A m \in Waiting(v) : x < pkt'[m].id
  BY <1>6 DEF LineInv
<1>9. QED
  BY <1>1, <1>4, <1>5, <1>7, <1>8 DEF LineInv

(* The mbufs of the line of a worker. *)
LEMMA WaitingFacts ==
  ASSUME WorkerTypeOK, NEW w \in Workers
  PROVE  /\ Waiting(w) \subseteq Mbufs
         /\ \A m \in Waiting(w) : pkt[m].id \in Nat
         /\ Range(sent[w]) \subseteq Nat
BY PendingFacts DEF WorkerTypeOK, Waiting, Range

(* A packet that arrives takes an mbuf from the pool. *)
LEMMA ArriveInv ==
  ASSUME WorkerInv, NEW w \in Workers, NEW k \in Kinds, Arrive(w, k)
  PROVE  WorkerInv'
<1> USE DEF WorkerInv
<1>1. PICK m \in pool :
        /\ pool' = pool \ {m}
        /\ pkt' = [pkt EXCEPT ![m] = [id |-> arrived', kind |-> k]]
        /\ rxRing' = [rxRing EXCEPT ![w] = Append(@, m)]
  BY DEF Arrive
<1>2. /\ arrived' = arrived + 1 /\ arrived \in Nat /\ arrived' \in Nat
      /\ UNCHANGED <<nic, sent, pc, buf, i, txBuf>>
  BY DEF Arrive, workVars, WorkerTypeOK
<1>3. m \in Mbufs /\ DOMAIN pkt = Mbufs
  BY DEF WorkerTypeOK
<1>4. /\ pkt'[m] = [id |-> arrived', kind |-> k] /\ DOMAIN pkt' = Mbufs
      /\ \A x \in Mbufs \ {m} : pkt'[x] = pkt[x]
  BY <1>1, <1>3
<1>5. /\ rxRing'[w] = Append(rxRing[w], m) /\ rxRing[w] \in Seq(Mbufs)
      /\ \A v \in Workers \ {w} : rxRing'[v] = rxRing[v]
  BY <1>1 DEF WorkerTypeOK
<1>6. \A v \in Workers : Pending(v)' = Pending(v)
  BY <1>2 DEF Pending
<1>7. Range(rxRing'[w]) = Range(rxRing[w]) \cup {m} /\ rxRing'[w] \in Seq(Mbufs)
  BY <1>3, <1>5, AppendFacts
<1>8. Waiting(w)' = Waiting(w) \cup {m} /\ \A v \in Workers \ {w} : Waiting(v)' = Waiting(v)
  BY <1>2, <1>5, <1>6, <1>7 DEF Waiting
<1>9. \A v \in Workers : m \notin Waiting(v) /\ m \notin nic[v]
  BY <1>1 DEF OwnInv
<1>10. \A v \in Workers : \A x \in Waiting(v) : pkt'[x] = pkt[x]
  BY <1>4, <1>9, WaitingFacts
<1>11. WorkerTypeOK'
  <2>1. \A x \in Mbufs : /\ pkt'[x] = [id |-> pkt'[x].id, kind |-> pkt'[x].kind]
                         /\ pkt'[x].id \in Nat
    <3>1. pkt'[m].id = arrived' /\ pkt'[m].kind = k
      BY <1>4
    <3>2. pkt'[m] = [id |-> pkt'[m].id, kind |-> pkt'[m].kind] /\ pkt'[m].id \in Nat
      BY <1>2, <1>4, <3>1
    <3>3. QED
      BY <1>4, <3>2 DEF WorkerTypeOK
  <2>2. rxRing' \in [Workers -> Seq(Mbufs)]
    BY <1>1, <1>5, <1>7 DEF WorkerTypeOK
  <2>3. QED
    BY <1>1, <1>2, <1>4, <2>1, <2>2 DEF WorkerTypeOK
<1>12. OwnInv'
  <2>1. ASSUME NEW x \in Mbufs
        PROVE  x \in pool' \/ \E v \in Workers : x \in nic'[v] \/ x \in Waiting(v)'
    BY <1>1, <1>2, <1>8 DEF OwnInv
  <2>2. ASSUME NEW v \in Workers PROVE pool' \cap nic'[v] = {} /\ pool' \cap Waiting(v)' = {}
    BY <1>1, <1>2, <1>8 DEF OwnInv
  <2>3. ASSUME NEW u \in Workers, NEW v \in Workers
        PROVE  /\ nic'[u] \cap Waiting(v)' = {}
               /\ u # v => nic'[u] \cap nic'[v] = {} /\ Waiting(u)' \cap Waiting(v)' = {}
    BY <1>2, <1>8, <1>9 DEF OwnInv
  <2>4. QED
    BY <2>1, <2>2, <2>3 DEF OwnInv
<1>13. ASSUME NEW v \in Workers, v # w PROVE LineInv(v)'
  BY <1>2, <1>5, <1>6, <1>10, <1>13, LineFrame
<1>14. LineInv(w)'
  <2>1. /\ Range(txBuf[w]) \subseteq Waiting(w) /\ Range(Pending(w)) \subseteq Waiting(w)
        /\ Range(rxRing[w]) \subseteq Waiting(w)
    BY DEF Waiting
  <2>2. /\ \A j \in DOMAIN txBuf[w] : txBuf[w][j] \in Waiting(w)
        /\ \A j \in DOMAIN Pending(w) : Pending(w)[j] \in Waiting(w)
        /\ \A j \in DOMAIN rxRing[w] : rxRing[w][j] \in Waiting(w)
    BY <2>1 DEF Range
  <2>3. Rising(pkt', txBuf[w]) /\ Rising(pkt', Pending(w)) /\ Rising(pkt', rxRing[w])
    BY <1>10, <2>2 DEF LineInv, Rising
  <2>4. \A x \in Waiting(w) : pkt'[x].id < pkt'[m].id
    <3>1. \A x \in Waiting(w) : pkt[x].id <= arrived /\ pkt[x].id \in Nat
      BY WaitingFacts DEF LineInv
    <3>2. pkt'[m].id = arrived + 1
      BY <1>2, <1>4
    <3>3. QED
      BY <1>2, <1>10, <3>1, <3>2
  <2>5. Rising(pkt', rxRing'[w])
    <3>1. Below(pkt', Range(rxRing[w]), {m})
      BY <2>1, <2>4 DEF Below
    <3>2. QED
      BY <1>3, <1>5, <2>3, <3>1, AppendRising
  <2>6. /\ Below(pkt', Range(txBuf[w]), Range(Pending(w)) \cup Range(rxRing'[w]))
        /\ Below(pkt', Range(Pending(w)), Range(rxRing'[w]))
    BY <1>7, <1>10, <2>1, <2>4 DEF LineInv, Below
  <2>7. \A x \in Waiting(w)' : pkt'[x].id <= arrived'
    <3>1. \A x \in Waiting(w) : pkt'[x].id <= arrived /\ pkt'[x].id \in Nat
      BY <1>10, WaitingFacts DEF LineInv
    <3>2. pkt'[m].id = arrived'
      BY <1>4
    <3>3. QED
      BY <1>2, <1>8, <3>1, <3>2
  <2>8. \A x \in Range(sent[w]) : x <= arrived' /\ \A y \in Waiting(w)' : x < pkt'[y].id
    <3>1. \A x \in Range(sent[w]) : x \in Nat /\ x <= arrived
      BY WaitingFacts DEF LineInv
    <3>2. pkt'[m].id = arrived + 1
      BY <1>2, <1>4
    <3>3. \A x \in Range(sent[w]) : \A y \in Waiting(w) : x < pkt'[y].id
      BY <1>10 DEF LineInv
    <3>4. QED
      BY <1>2, <1>8, <3>1, <3>2, <3>3
  <2>9. QED
    BY <1>2, <1>6, <2>3, <2>5, <2>6, <2>7, <2>8 DEF LineInv
<1>15. QED
  BY <1>11, <1>12, <1>13, <1>14

(* A transmitted packet gives its mbuf back. *)
LEMMA TxDoneInv ==
  ASSUME WorkerInv, NEW w \in Workers, TxDone(w)
  PROVE  WorkerInv'
<1> USE DEF WorkerInv
<1>1. PICK m \in nic[w] : nic' = [nic EXCEPT ![w] = @ \ {m}] /\ pool' = pool \cup {m}
  BY DEF TxDone
<1>2. UNCHANGED <<rxRing, pkt, arrived, sent, pc, buf, i, txBuf>>
  BY DEF TxDone, workVars
<1>3. nic'[w] = nic[w] \ {m} /\ (\A v \in Workers \ {w} : nic'[v] = nic[v]) /\ m \in Mbufs
  BY <1>1 DEF WorkerTypeOK
<1>4. \A v \in Workers : Pending(v)' = Pending(v) /\ Waiting(v)' = Waiting(v)
  BY <1>2 DEF Pending, Waiting
<1>5. \A v \in Workers : m \notin Waiting(v) /\ (v # w => m \notin nic[v])
  BY <1>1 DEF OwnInv
<1>6. WorkerTypeOK'
  BY <1>1, <1>2, <1>3 DEF WorkerTypeOK
<1>7. OwnInv'
  <2>1. ASSUME NEW x \in Mbufs
        PROVE  x \in pool' \/ \E v \in Workers : x \in nic'[v] \/ x \in Waiting(v)'
    BY <1>1, <1>3, <1>4 DEF OwnInv
  <2>2. ASSUME NEW v \in Workers PROVE pool' \cap nic'[v] = {} /\ pool' \cap Waiting(v)' = {}
    BY <1>1, <1>3, <1>4, <1>5 DEF OwnInv
  <2>3. ASSUME NEW u \in Workers, NEW v \in Workers
        PROVE  /\ nic'[u] \cap Waiting(v)' = {}
               /\ u # v => nic'[u] \cap nic'[v] = {} /\ Waiting(u)' \cap Waiting(v)' = {}
    BY <1>3, <1>4 DEF OwnInv
  <2>4. QED
    BY <2>1, <2>2, <2>3 DEF OwnInv
<1>8. ASSUME NEW v \in Workers PROVE LineInv(v)'
  <2>1. arrived' \in Nat /\ arrived <= arrived'
    BY <1>2 DEF WorkerTypeOK
  <2>2. QED
    BY <1>2, <1>4, <2>1, LineFrame
<1>9. QED
  BY <1>6, <1>7, <1>8

(* Along a sequence that rises no mbuf comes twice. *)
LEMMA BelowDisjoint ==
  ASSUME WorkerTypeOK, NEW A \in SUBSET Mbufs, NEW B, Below(pkt, A, B)
  PROVE  A \cap B = {}
<1>1. SUFFICES ASSUME NEW x \in A, x \in B PROVE FALSE
  OBVIOUS
<1>2. pkt[x].id < pkt[x].id /\ pkt[x].id \in Nat
  BY <1>1 DEF Below, WorkerTypeOK
<1>3. QED
  BY <1>2

(* A burst out of s, the head of the line: its first n go to the transmit  *)
(* ring, the rest of it to the pool.                                       *)
LEMMA BurstInv ==
  ASSUME WorkerInv, NEW w \in Workers, NEW s \in Seq(Mbufs), NEW n \in 0..Len(s),
         TxBurst(w, s, n),
         Waiting(w) = Range(s) \cup Range(Pending(w)') \cup Range(rxRing[w]),
         Rising(pkt, s), Below(pkt, Range(s), Range(Pending(w)') \cup Range(rxRing[w])),
         Rising(pkt, Pending(w)'), Below(pkt, Range(Pending(w)'), Range(rxRing[w])),
         txBuf'[w] = <<>>, UNCHANGED <<rxRing, arrived>>,
         \A m \in Mbufs : pkt'[m].id = pkt[m].id,
         \A v \in Workers \ {w} : txBuf'[v] = txBuf[v] /\ Pending(v)' = Pending(v)
  PROVE  /\ OwnInv' /\ \A v \in Workers : LineInv(v)'
         /\ pool' \subseteq Mbufs /\ nic' \in [Workers -> SUBSET Mbufs]
         /\ sent' \in [Workers -> Seq(Nat)]
<1> USE DEF WorkerInv
<1> DEFINE a == SubSeq(s, 1, n)
           b == SubSeq(s, n + 1, Len(s))
           q == [j \in 1..n |-> pkt[s[j]].id]
           rest == Range(Pending(w)') \cup Range(rxRing[w])
<1>1. /\ nic' = [nic EXCEPT ![w] = @ \cup Range(a)]
      /\ sent' = [sent EXCEPT ![w] = @ \o q]
      /\ pool' = pool \cup Range(b)
  BY DEF TxBurst
<1>2. Range(s) = Range(a) \cup Range(b) /\ Below(pkt, Range(a), Range(b))
  BY SplitSeq, SplitRising
<1>3. /\ Range(s) \subseteq Mbufs /\ rest \subseteq Mbufs /\ Range(s) \subseteq Waiting(w)
      /\ Waiting(w) = Range(s) \cup rest /\ rest \subseteq Waiting(w)
  <2>1. Waiting(w) = Range(s) \cup rest
    OBVIOUS
  <2>2. QED
    BY <2>1, WaitingFacts
<1>4. Range(a) \cap Range(b) = {} /\ Range(s) \cap rest = {}
  <2>1. Range(a) \subseteq Mbufs
    BY <1>2, <1>3
  <2>2. Below(pkt, Range(s), rest)
    OBVIOUS
  <2> HIDE DEF a, b, rest
  <2>3. Range(a) \cap Range(b) = {}
    BY <1>2, <2>1, BelowDisjoint
  <2>4. Range(s) \cap rest = {}
    BY <1>3, <2>2, BelowDisjoint
  <2>5. QED
    BY <2>3, <2>4
<1>5. Waiting(w)' = rest
  <2>1. Range(<<>>) = {}
    BY DEF Range
  <2>2. QED
    BY <2>1 DEF Waiting
<1>6. \A v \in Workers \ {w} : Waiting(v)' = Waiting(v)
  BY DEF Waiting
<1>7. nic'[w] = nic[w] \cup Range(a) /\ \A v \in Workers \ {w} : nic'[v] = nic[v]
  BY <1>1 DEF WorkerTypeOK
<1>8. OwnInv'
  <2>1. Waiting(w)' = Waiting(w) \ (Range(b) \cup Range(a))
    BY <1>2, <1>3, <1>4, <1>5
  <2>2. Range(b) \cup Range(a) \subseteq Waiting(w) /\ Range(b) \cap Range(a) = {}
    BY <1>2, <1>3, <1>4
  <2> HIDE DEF a, b
  <2>3. QED
    BY <1>1, <1>6, <1>7, <2>1, <2>2, OwnMove
<1>9. pool' \subseteq Mbufs /\ nic' \in [Workers -> SUBSET Mbufs]
  <2> HIDE DEF a, b
  <2>1. QED
    BY <1>1, <1>2, <1>3, <1>7 DEF WorkerTypeOK
<1>10. /\ q \in Seq(Nat) /\ DOMAIN q = 1..n /\ \A j \in 1..n : q[j] = pkt[s[j]].id
       /\ \A j \in 1..n : j \in DOMAIN s /\ s[j] \in Range(s) /\ s[j] \in Mbufs
  <2>1. \A j \in 1..n : j \in DOMAIN s /\ s[j] \in Range(s) /\ s[j] \in Mbufs
    BY DEF Range
  <2>2. \A j \in 1..n : pkt[s[j]].id \in Nat
    BY <2>1 DEF WorkerTypeOK
  <2>3. QED
    BY <2>1, <2>2
<1>11. /\ sent[w] \in Seq(Nat) /\ sent'[w] = sent[w] \o q
       /\ \A v \in Workers \ {w} : sent'[v] = sent[v]
  BY <1>1 DEF WorkerTypeOK
<1> HIDE DEF q, rest
<1>12. \A j, k \in DOMAIN q : j < k => q[j] < q[k]
  BY <1>10 DEF Rising
<1>13. \A y \in Range(q) : \E x \in Range(s) : y = pkt[x].id
  BY <1>10 DEF Range
<1>14. \A x \in Range(sent[w]), y \in Range(q) : x < y
  BY <1>3, <1>13 DEF LineInv
<1>15. /\ sent'[w] \in Seq(Nat) /\ Range(sent'[w]) = Range(sent[w]) \cup Range(q)
       /\ \A j, k \in DOMAIN sent'[w] : j < k => sent'[w][j] < sent'[w][k]
  BY <1>10, <1>11, <1>12, <1>14, ConcatRising DEF LineInv
<1>16. sent' \in [Workers -> Seq(Nat)]
  BY <1>1, <1>11, <1>15 DEF WorkerTypeOK
<1>17. ASSUME NEW v \in Workers, v # w PROVE LineInv(v)'
  <2>1. arrived' \in Nat /\ arrived <= arrived'
    BY DEF WorkerTypeOK
  <2>2. \A m \in Waiting(v) : pkt'[m].id = pkt[m].id
    BY WaitingFacts
  <2>3. QED
    BY <1>11, <1>17, <2>1, <2>2, LineFrame
<1>18. LineInv(w)'
  <2>1. /\ Range(Pending(w)') \subseteq rest /\ Range(rxRing[w]) \subseteq rest
        /\ \A j \in DOMAIN Pending(w)' : Pending(w)'[j] \in rest
        /\ \A j \in DOMAIN rxRing[w] : rxRing[w][j] \in rest
    BY DEF rest, Range
  <2>2. Rising(pkt', txBuf'[w])
    BY DEF Rising
  <2>3. Rising(pkt', Pending(w)') /\ Rising(pkt', rxRing[w])
    BY <1>3, <2>1 DEF LineInv, Rising
  <2>4. Below(pkt', Range(txBuf'[w]), Range(Pending(w)') \cup Range(rxRing[w]))
    BY DEF Below, Range
  <2>5. Below(pkt', Range(Pending(w)'), Range(rxRing[w]))
    BY <1>3, <2>1 DEF Below
  <2>6. \A m \in rest : pkt'[m].id <= arrived
    BY <1>3 DEF LineInv
  <2>7. ASSUME NEW x \in Range(sent'[w])
        PROVE  x <= arrived /\ \A m \in rest : x < pkt'[m].id
    <3>1. CASE x \in Range(sent[w])
      BY <1>3, <3>1 DEF LineInv
    <3>2. CASE x \in Range(q)
      <4>1. PICK y \in Range(s) : x = pkt[y].id
        BY <1>13, <3>2
      <4>2. x <= arrived
        BY <1>3, <4>1 DEF LineInv
      <4>3. \A m \in rest : pkt[y].id < pkt[m].id
        BY <4>1 DEF Below, rest
      <4>4. QED
        BY <1>3, <4>1, <4>2, <4>3
    <3>3. QED
      BY <1>15, <3>1, <3>2
  <2>8. QED
    BY <1>5, <1>15, <2>2, <2>3, <2>4, <2>5, <2>6, <2>7 DEF LineInv
<1>19. QED
  BY <1>8, <1>9, <1>16, <1>17, <1>18

(* TxBufferFlush hands over the buffer or drops what the device refused. *)
LEMMA FlushInv ==
  ASSUME WorkerInv, NEW w \in Workers, TxBufferFlush(w)
  PROVE  WorkerInv'
<1> USE DEF WorkerInv
<1>1. PICK n \in 0..Len(txBuf[w]) : TxBurst(w, txBuf[w], n)
  BY DEF TxBufferFlush
<1>2. /\ pc[w] = "flush" /\ txBuf' = [txBuf EXCEPT ![w] = <<>>] /\ pc' = [pc EXCEPT ![w] = "rx"]
      /\ UNCHANGED <<rxRing, pkt, arrived, buf, i>>
  BY DEF TxBufferFlush
<1>3. /\ txBuf'[w] = <<>> /\ \A v \in Workers \ {w} : txBuf'[v] = txBuf[v] /\ pc'[v] = pc[v]
      /\ pc'[w] = "rx" /\ txBuf[w] \in Seq(Mbufs)
  BY <1>2 DEF WorkerTypeOK
<1>4. Pending(w)' = <<>> /\ Pending(w) = <<>> /\ \A v \in Workers \ {w} : Pending(v)' = Pending(v)
  BY <1>2, <1>3 DEF Pending
<1>5. /\ OwnInv' /\ \A v \in Workers : LineInv(v)'
      /\ pool' \subseteq Mbufs /\ nic' \in [Workers -> SUBSET Mbufs]
      /\ sent' \in [Workers -> Seq(Nat)]
  <2>1. Waiting(w) = Range(txBuf[w]) \cup Range(Pending(w)') \cup Range(rxRing[w])
    BY <1>4 DEF Waiting
  <2>2. /\ Rising(pkt, txBuf[w]) /\ Rising(pkt, Pending(w)')
        /\ Below(pkt, Range(txBuf[w]), Range(Pending(w)') \cup Range(rxRing[w]))
        /\ Below(pkt, Range(Pending(w)'), Range(rxRing[w]))
    BY <1>4 DEF LineInv
  <2>3. QED
    BY <1>1, <1>2, <1>3, <1>4, <2>1, <2>2, BurstInv
<1>6. WorkerTypeOK'
  <2>1. txBuf' \in [Workers -> Seq(Mbufs)] /\ pc' \in [Workers -> {"flush", "rx", "packets"}]
    BY <1>2 DEF WorkerTypeOK
  <2>2. QED
    BY <1>2, <1>5, <2>1 DEF WorkerTypeOK
<1>7. QED
  BY <1>5, <1>6

(* A burst is cut off the receive ring. *)
LEMMA RxInv ==
  ASSUME WorkerInv, NEW w \in Workers, RxBurst(w)
  PROVE  WorkerInv'
<1> USE DEF WorkerInv
<1>1. PICK n \in 0..Len(rxRing[w]) :
        /\ buf' = [buf EXCEPT ![w] = SubSeq(rxRing[w], 1, n)]
        /\ rxRing' = [rxRing EXCEPT ![w] = SubSeq(@, n + 1, Len(@))]
  BY DEF RxBurst
<1> DEFINE r == rxRing[w]
           a == SubSeq(r, 1, n)
           b == SubSeq(r, n + 1, Len(r))
<1>2. /\ pc[w] = "rx" /\ i' = [i EXCEPT ![w] = 1] /\ pc' = [pc EXCEPT ![w] = "packets"]
      /\ UNCHANGED <<pool, nic, pkt, arrived, txBuf, sent>>
  BY DEF RxBurst
<1>3. /\ r \in Seq(Mbufs) /\ buf'[w] = a /\ rxRing'[w] = b /\ i'[w] = 1 /\ pc'[w] = "packets"
      /\ \A v \in Workers \ {w} : /\ buf'[v] = buf[v] /\ rxRing'[v] = rxRing[v]
                                  /\ i'[v] = i[v] /\ pc'[v] = pc[v]
  BY <1>1, <1>2 DEF WorkerTypeOK
<1>4. a \in Seq(Mbufs) /\ b \in Seq(Mbufs) /\ Range(r) = Range(a) \cup Range(b)
  BY <1>3, SplitSeq
<1>5. Rising(pkt, a) /\ Rising(pkt, b) /\ Below(pkt, Range(a), Range(b))
  BY <1>3, SplitRising DEF LineInv
<1> HIDE DEF a, b
<1>6. Pending(w) = <<>> /\ Pending(w)' = a /\ \A v \in Workers \ {w} : Pending(v)' = Pending(v)
  <2>1. SubSeq(a, 1, Len(a)) = a
    BY <1>4, SubSeqFull
  <2>2. QED
    BY <1>2, <1>3, <2>1 DEF Pending
<1>7. Range(<<>>) = {}
  BY DEF Range
<1>8. \A v \in Workers : Waiting(v)' = Waiting(v)
  BY <1>2, <1>3, <1>4, <1>6, <1>7 DEF Waiting
<1>9. OwnInv'
  BY <1>2, <1>8 DEF OwnInv
<1>10. WorkerTypeOK'
  <2>1. /\ buf' \in [Workers -> Seq(Mbufs)] /\ rxRing' \in [Workers -> Seq(Mbufs)]
        /\ pc' \in [Workers -> {"flush", "rx", "packets"}] /\ i' \in [Workers -> Nat \ {0}]
    BY <1>1, <1>2, <1>4 DEF WorkerTypeOK, a, b
  <2>2. \A v \in Workers : i'[v] <= Len(buf'[v]) + 1
    <3>1. Len(a) \in Nat
      BY <1>4
    <3>2. i'[w] <= Len(buf'[w]) + 1
      BY <1>3, <3>1
    <3>3. \A v \in Workers \ {w} : i'[v] <= Len(buf'[v]) + 1
      BY <1>3 DEF WorkerTypeOK
    <3>4. QED
      BY <3>2, <3>3
  <2>3. QED
    BY <1>2, <2>1, <2>2 DEF WorkerTypeOK
<1>11. ASSUME NEW v \in Workers, v # w PROVE LineInv(v)'
  <2>1. arrived' \in Nat /\ arrived <= arrived'
    BY <1>2 DEF WorkerTypeOK
  <2>2. QED
    BY <1>2, <1>3, <1>6, <1>11, <2>1, LineFrame
<1>12. LineInv(w)'
  <2>1. /\ Below(pkt, Range(txBuf[w]), Range(a) \cup Range(b))
    BY <1>4 DEF LineInv, Below
  <2>2. QED
    BY <1>2, <1>3, <1>5, <1>6, <1>8, <2>1 DEF LineInv
<1>13. QED
  BY <1>9, <1>10, <1>11, <1>12

(* Every path of LcoreFunc frees, sends or buffers the packet at hand. *)
LEMMA PacketInv ==
  ASSUME WorkerInv, NEW w \in Workers, Packet(w)
  PROVE  WorkerInv'
<1> USE DEF WorkerInv
<1> DEFINE m == buf[w][i[w]]
           rest == SubSeq(buf[w], i[w] + 1, Len(buf[w]))
           s == Append(txBuf[w], m)
<1>1. /\ pc[w] = "packets" /\ i[w] <= Len(buf[w]) /\ i' = [i EXCEPT ![w] = @ + 1]
      /\ UNCHANGED <<rxRing, arrived, pc, buf>>
  BY DEF Packet
<1>2. /\ m \in Mbufs /\ rest \in Seq(Mbufs) /\ Range(Pending(w)) = {m} \cup Range(rest)
      /\ Rising(pkt, rest) /\ Below(pkt, {m}, Range(rest))
  BY <1>1, PendingTail DEF LineInv
<1>3. \/ pool' = pool \cup {m} /\ UNCHANGED <<pkt, txBuf, nic, sent>>
      \/ pkt' = [pkt EXCEPT ![m].kind = Answer(@)] /\ TxBuffer(w, m)
  BY DEF Packet
<1>4. /\ Pending(w)' = rest /\ \A v \in Workers \ {w} : Pending(v)' = Pending(v)
  <2>1. i'[w] = i[w] + 1 /\ \A v \in Workers \ {w} : i'[v] = i[v]
    BY <1>1 DEF WorkerTypeOK
  <2>2. Pending(w)' = rest
    <3>1. pc'[w] = "packets" /\ buf'[w] = buf[w]
      BY <1>1
    <3>2. QED
      BY <2>1, <3>1 DEF Pending
  <2>3. \A v \in Workers \ {w} : Pending(v)' = Pending(v)
    BY <1>1, <2>1 DEF Pending
  <2>4. QED
    BY <2>2, <2>3
<1> HIDE DEF m, rest
<1>5. /\ i' \in [Workers -> Nat \ {0}] /\ \A v \in Workers : i'[v] <= Len(buf[v]) + 1
  <2>1. i[w] \in Nat \ {0} /\ i[w] + 1 \in Nat \ {0} /\ Len(buf[w]) \in Nat
    BY DEF WorkerTypeOK
  <2>2. i'[w] = i[w] + 1 /\ (\A v \in Workers \ {w} : i'[v] = i[v]) /\ DOMAIN i' = Workers
    BY <1>1 DEF WorkerTypeOK
  <2>3. i' \in [Workers -> Nat \ {0}]
    BY <1>1, <2>1 DEF WorkerTypeOK
  <2>4. i[w] + 1 <= Len(buf[w]) + 1
    BY <1>1, <2>1
  <2>5. QED
    BY <2>2, <2>3, <2>4 DEF WorkerTypeOK
<1>6. Below(pkt, {m}, Range(rest) \cup Range(rxRing[w]))
  BY <1>2 DEF LineInv, Below
<1>7. Below(pkt, Range(rest), Range(rxRing[w]))
  BY <1>2 DEF LineInv, Below
<1>8. txBuf[w] \in Seq(Mbufs) /\ Rising(pkt, txBuf[w]) /\ Below(pkt, Range(txBuf[w]), {m})
  BY <1>2 DEF LineInv, Below, WorkerTypeOK
<1>9. Below(pkt, Range(txBuf[w]), Range(rest) \cup Range(rxRing[w]))
  BY <1>2 DEF LineInv, Below
<1>10. s \in Seq(Mbufs) /\ Range(s) = Range(txBuf[w]) \cup {m} /\ Rising(pkt, s)
  BY <1>2, <1>8, AppendFacts, AppendRising
<1> HIDE DEF s
<1>11. Waiting(w) = Range(s) \cup Range(rest) \cup Range(rxRing[w])
  BY <1>2, <1>10 DEF Waiting
<1>12. Below(pkt, Range(s), Range(rest) \cup Range(rxRing[w]))
  BY <1>6, <1>9, <1>10 DEF Below
<1>13. arrived' \in Nat /\ arrived <= arrived'
  BY <1>1 DEF WorkerTypeOK
(* The packet is dropped. *)
<1>14. CASE pool' = pool \cup {m} /\ UNCHANGED <<pkt, txBuf, nic, sent>>
  <2>1. WorkerTypeOK'
    BY <1>1, <1>2, <1>5, <1>14 DEF WorkerTypeOK
  <2>2. /\ Waiting(w)' = Range(txBuf[w]) \cup Range(rest) \cup Range(rxRing[w])
        /\ \A v \in Workers \ {w} : Waiting(v)' = Waiting(v)
    BY <1>1, <1>4, <1>14 DEF Waiting
  <2>3. m \notin Waiting(w)'
    <3>1. m \notin Range(txBuf[w])
      <4>1. Range(txBuf[w]) \subseteq Mbufs
        BY <1>8 DEF Range
      <4>2. QED
        BY <1>8, <4>1, BelowDisjoint
    <3>2. m \notin Range(rest) \cup Range(rxRing[w])
      <4>1. {m} \in SUBSET Mbufs
        BY <1>2
      <4>2. QED
        BY <1>6, <4>1, BelowDisjoint
    <3>3. QED
      BY <2>2, <3>1, <3>2
  <2>4. Waiting(w)' = Waiting(w) \ {m} /\ m \in Waiting(w)
    BY <1>10, <1>11, <2>2, <2>3
  <2>5. OwnInv'
    <3> DEFINE A == {m}
               B == {}
    <3>1. /\ A \cup B \subseteq Waiting(w) /\ A \cap B = {} /\ nic'[w] = nic[w] \cup B
          /\ pool' = pool \cup A /\ Waiting(w)' = Waiting(w) \ (A \cup B)
      BY <1>14, <2>4
    <3> HIDE DEF A, B
    <3>2. QED
      BY <1>14, <2>2, <3>1, OwnMove
  <2>6. ASSUME NEW v \in Workers, v # w PROVE LineInv(v)'
    BY <1>1, <1>4, <1>13, <1>14, <2>6, LineFrame
  <2>7. LineInv(w)'
    <3>1. Waiting(w)' \subseteq Waiting(w)
      BY <2>4
    <3>2. QED
      BY <1>1, <1>2, <1>4, <1>7, <1>9, <1>14, <3>1 DEF LineInv
  <2>8. QED
    BY <2>1, <2>5, <2>6, <2>7
<1>15. ASSUME pkt' = [pkt EXCEPT ![m].kind = Answer(@)]
       PROVE  /\ DOMAIN pkt' = Mbufs /\ \A x \in Mbufs : pkt'[x].id = pkt[x].id
              /\ \A x \in Mbufs : pkt'[x] = [id |-> pkt'[x].id, kind |-> pkt'[x].kind]
  <2>1. DOMAIN pkt = Mbufs /\ pkt[m] = [id |-> pkt[m].id, kind |-> pkt[m].kind]
    BY <1>2 DEF WorkerTypeOK
  <2>2. DOMAIN pkt' = Mbufs /\ \A x \in Mbufs \ {m} : pkt'[x] = pkt[x]
    BY <1>2, <1>15, <2>1
  <2>3. pkt'[m] = [pkt[m] EXCEPT !.kind = Answer(@)]
    BY <1>2, <1>15, <2>1
  <2>4. pkt'[m] = [id |-> pkt[m].id, kind |-> Answer(pkt[m].kind)]
    BY <2>1, <2>3
  <2>5. pkt'[m].id = pkt[m].id /\ pkt'[m] = [id |-> pkt'[m].id, kind |-> pkt'[m].kind]
    BY <2>4
  <2>6. QED
    BY <2>2, <2>5 DEF WorkerTypeOK
(* It is put into the transmit buffer. *)
<1>16. CASE /\ pkt' = [pkt EXCEPT ![m].kind = Answer(@)]
            /\ txBuf' = [txBuf EXCEPT ![w] = s]
            /\ UNCHANGED <<pool, nic, sent>>
  <2>1. txBuf'[w] = s /\ \A v \in Workers \ {w} : txBuf'[v] = txBuf[v]
    BY <1>16 DEF WorkerTypeOK
  <2>2. WorkerTypeOK'
    <3>1. txBuf' \in [Workers -> Seq(Mbufs)]
      BY <1>10, <1>16 DEF WorkerTypeOK
    <3>2. QED
      BY <1>1, <1>5, <1>15, <1>16, <3>1 DEF WorkerTypeOK
  <2>3. \A v \in Workers : Waiting(v)' = Waiting(v)
    BY <1>1, <1>4, <1>11, <2>1 DEF Waiting
  <2>4. OwnInv'
    BY <1>16, <2>3 DEF OwnInv
  <2>5. \A v \in Workers : \A x \in Waiting(v) : pkt'[x].id = pkt[x].id
    BY <1>15, <1>16, WaitingFacts
  <2>6. ASSUME NEW v \in Workers, v # w PROVE LineInv(v)'
    BY <1>1, <1>4, <1>13, <1>16, <2>1, <2>5, <2>6, LineFrame
  <2>7. LineInv(w)'
    <3>1. /\ Range(s) \subseteq Waiting(w) /\ Range(rest) \subseteq Waiting(w)
          /\ Range(rxRing[w]) \subseteq Waiting(w)
      BY <1>11
    <3>2. /\ \A j \in DOMAIN s : s[j] \in Waiting(w)
          /\ \A j \in DOMAIN rest : rest[j] \in Waiting(w)
          /\ \A j \in DOMAIN rxRing[w] : rxRing[w][j] \in Waiting(w)
      BY <3>1 DEF Range
    <3>3. Rising(pkt', s) /\ Rising(pkt', rest) /\ Rising(pkt', rxRing[w])
      BY <1>2, <1>10, <2>5, <3>2 DEF LineInv, Rising
    <3>4. /\ Below(pkt', Range(s), Range(rest) \cup Range(rxRing[w]))
          /\ Below(pkt', Range(rest), Range(rxRing[w]))
      BY <1>7, <1>12, <2>5, <3>1 DEF Below
    <3>5. /\ \A x \in Waiting(w) : pkt'[x].id <= arrived
          /\ \A x \in Range(sent[w]) : x <= arrived /\ \A y \in Waiting(w) : x < pkt'[y].id
      BY <2>5 DEF LineInv
    <3>6. QED
      BY <1>1, <1>4, <1>16, <2>1, <2>3, <3>3, <3>4, <3>5 DEF LineInv
  <2>8. QED
    BY <2>2, <2>4, <2>6, <2>7
(* It fills the transmit buffer, which is flushed. *)
<1>17. ASSUME pkt' = [pkt EXCEPT ![m].kind = Answer(@)], NEW n \in 0..Len(s),
              TxBurst(w, s, n), txBuf' = [txBuf EXCEPT ![w] = <<>>]
       PROVE  WorkerInv'
  <2>1. txBuf'[w] = <<>> /\ \A v \in Workers \ {w} : txBuf'[v] = txBuf[v]
    BY <1>17 DEF WorkerTypeOK
  <2>2. \A x \in Mbufs : pkt'[x].id = pkt[x].id
    BY <1>15, <1>17
  <2>3. /\ OwnInv' /\ \A v \in Workers : LineInv(v)'
        /\ pool' \subseteq Mbufs /\ nic' \in [Workers -> SUBSET Mbufs]
        /\ sent' \in [Workers -> Seq(Nat)]
    BY <1>1, <1>2, <1>4, <1>7, <1>10, <1>11, <1>12, <1>17, <2>1, <2>2, BurstInv
  <2>4. WorkerTypeOK'
    <3>1. txBuf' \in [Workers -> Seq(Mbufs)]
      BY <1>17 DEF WorkerTypeOK
    <3>2. QED
      BY <1>1, <1>5, <1>15, <1>17, <2>3, <3>1 DEF WorkerTypeOK
  <2>5. QED
    BY <2>3, <2>4
<1>18. QED
  BY <1>3, <1>14, <1>16, <1>17 DEF TxBuffer, s

(* Incr moves no packet. *)
LEMMA IncrInv ==
  ASSUME WorkerInv, NEW w \in Workers, Incr(w)
  PROVE  WorkerInv'
<1> USE DEF WorkerInv
<1>1. /\ pc[w] = "packets" /\ i[w] > Len(buf[w]) /\ pc' = [pc EXCEPT ![w] = "flush"]
      /\ UNCHANGED <<pool, rxRing, nic, pkt, arrived, sent, buf, i, txBuf>>
  BY DEF Incr, nicVars
<1>2. pc'[w] = "flush" /\ \A v \in Workers \ {w} : pc'[v] = pc[v]
  BY <1>1 DEF WorkerTypeOK
<1>3. Pending(w) = <<>>
  <2>1. Pending(w) \in Seq(Mbufs) /\ Len(Pending(w)) = Len(buf[w]) + 1 - i[w]
    BY <1>1, PendingFacts
  <2>2. Len(Pending(w)) = 0
    <3>1. i[w] \in Nat /\ i[w] <= Len(buf[w]) + 1 /\ Len(buf[w]) \in Nat
      BY DEF WorkerTypeOK
    <3>2. QED
      BY <1>1, <2>1, <3>1
  <2>3. QED
    BY <2>1, <2>2
<1>4. \A v \in Workers : Pending(v)' = Pending(v)
  BY <1>1, <1>2, <1>3 DEF Pending
<1>5. \A v \in Workers : Waiting(v)' = Waiting(v)
  BY <1>1, <1>4 DEF Waiting
<1>6. WorkerTypeOK' /\ OwnInv'
  <2>1. pc' \in [Workers -> {"flush", "rx", "packets"}]
    BY <1>1 DEF WorkerTypeOK
  <2>2. WorkerTypeOK'
    BY <1>1, <2>1 DEF WorkerTypeOK
  <2>3. OwnInv'
    BY <1>1, <1>5 DEF OwnInv
  <2>4. QED
    BY <2>2, <2>3
<1>7. ASSUME NEW v \in Workers PROVE LineInv(v)'
  <2>1. arrived' \in Nat /\ arrived <= arrived'
    BY <1>1 DEF WorkerTypeOK
  <2>2. QED
    BY <1>1, <1>4, <2>1, LineFrame
<1>8. QED
  BY <1>6, <1>7

(* Every step keeps the invariant. *)
LEMMA NextInv == WorkerInv /\ [Next]_vars => WorkerInv'
<1> SUFFICES ASSUME WorkerInv, [Next]_vars PROVE WorkerInv'
  OBVIOUS
<1>1. ASSUME NEW w \in Workers,
             WorkerStep(w) \/ TxDone(w) \/ \E k \in Kinds : Arrive(w, k), ~PacketPanic(w)
      PROVE  WorkerInv'
  BY <1>1, FlushInv, RxInv, PacketInv, IncrInv, TxDoneInv, ArriveInv DEF WorkerStep
<1>2. CASE UNCHANGED <<pool, nicVars, workVars>>
  <2>1. UNCHANGED <<pool, rxRing, nic, pkt, arrived, sent, pc, buf, i, txBuf>>
    BY <1>2 DEF nicVars, workVars
  <2>2. \A v \in Workers : Pending(v)' = Pending(v) /\ Waiting(v)' = Waiting(v)
    BY <2>1 DEF Pending, Waiting
  <2>3. WorkerTypeOK' /\ OwnInv'
    BY <2>1, <2>2 DEF WorkerInv, WorkerTypeOK, OwnInv
  <2>4. \A v \in Workers : LineInv(v)'
    BY <2>1, <2>2 DEF WorkerInv, LineInv
  <2>5. QED
    BY <2>3, <2>4 DEF WorkerInv
<1>3. (\E w \in Workers : PacketPanic(w)) \/ Ended \/ UNCHANGED vars
        => UNCHANGED <<pool, nicVars, workVars>>
  BY DEF PacketPanic, Ended, vars
<1>4. QED
  BY <1>1, <1>2, <1>3 DEF Next

-----------------------------------------------------------------------------
(* From the line and the sets to the places of an mbuf. *)

(* An mbuf that a sequence holds once is at one place of it. *)
LEMMA AtMember ==
  ASSUME NEW stage, NEW w, NEW s, NEW m, NEW j \in DOMAIN s, s[j] = m,
         \A k \in DOMAIN s : s[k] = m => k = j
  PROVE  At(stage, w, s, m) = {<<stage, w, j>>}
<1>1. {k \in DOMAIN s : s[k] = m} = {j}
  OBVIOUS
<1>2. QED
  BY <1>1 DEF At

(* An mbuf a sequence does not hold is nowhere in it. *)
LEMMA AtEmpty ==
  ASSUME NEW stage, NEW w, NEW s, NEW m, m \notin Range(s)
  PROVE  At(stage, w, s, m) = {}
BY DEF At, Range

(* A sequence in order holds every mbuf once. *)
LEMMA RisingInjective ==
  ASSUME WorkerTypeOK, NEW s \in Seq(Mbufs), Rising(pkt, s)
  PROVE  \A j, k \in DOMAIN s : s[j] = s[k] => j = k
<1>1. SUFFICES ASSUME NEW j \in DOMAIN s, NEW k \in DOMAIN s, s[j] = s[k], j # k PROVE FALSE
  OBVIOUS
<1>2. DOMAIN s = 1..Len(s) /\ pkt[s[j]].id \in Nat
  BY DEF WorkerTypeOK
<1>3. j < k \/ k < j
  BY <1>1, <1>2
<1>4. QED
  BY <1>1, <1>2, <1>3 DEF Rising

(* The places of m among the sequences s[w] of the workers: there is one,  *)
(* in the sequence of w, or none.                                          *)
LEMMA StagePlaces ==
  ASSUME WorkerTypeOK, NEW stage, NEW q, NEW m, NEW w \in Workers,
         q[w] \in Seq(Mbufs), Rising(pkt, q[w]), m \in Range(q[w]),
         \A v \in Workers \ {w} : m \notin Range(q[v])
  PROVE  \E p : InQueues(stage, q, m) = {p}
<1>1. PICK j \in DOMAIN q[w] : q[w][j] = m
  BY DEF Range
<1>2. \A k \in DOMAIN q[w] : q[w][k] = m => k = j
  BY <1>1, RisingInjective
<1>3. At(stage, w, q[w], m) = {<<stage, w, j>>}
  BY <1>1, <1>2, AtMember
<1>4. \A v \in Workers \ {w} : At(stage, v, q[v], m) = {}
  BY AtEmpty
<1>5. UNION {At(stage, v, q[v], m) : v \in Workers} = {<<stage, w, j>>}
  <2> DEFINE A(v) == At(stage, v, q[v], m)
             one == <<stage, w, j>>
  <2>1. A(w) = {one} /\ \A v \in Workers \ {w} : A(v) = {}
    BY <1>3, <1>4
  <2> HIDE DEF A, one
  <2>2. UNION {A(v) : v \in Workers} = {one}
    BY <2>1
  <2>3. QED
    BY <2>2 DEF A, one
<1>6. QED
  BY <1>5 DEF InQueues

(* An mbuf in no queue of a stage has no place there. *)
LEMMA NoStagePlaces ==
  ASSUME NEW stage, NEW q, NEW m, \A v \in Workers : m \notin Range(q[v])
  PROVE  InQueues(stage, q, m) = {}
<1>1. \A v \in Workers : At(stage, v, q[v], m) = {}
  BY AtEmpty
<1>2. QED
  BY <1>1 DEF InQueues

(* The invariant implies that every mbuf is in one place. *)
LEMMA InvOneOwner == WorkerInv => OneOwner
<1> SUFFICES ASSUME WorkerInv, NEW m \in Mbufs
             PROVE  \E p \in Places(m) : Places(m) = {p}
  BY DEF OneOwner
<1> USE DEF WorkerInv
<1> DEFINE pend == [w \in Workers |-> Pending(w)]
           P1 == InPool(m)
           P2 == InNic(m)
           P3 == InQueues("rx", rxRing, m)
           P4 == InQueues("burst", pend, m)
           P5 == InQueues("tx", txBuf, m)
<1>1. Places(m) = P1 \cup P2 \cup P3 \cup P4 \cup P5
  BY DEF Places
<1>2. \A w \in Workers : m \notin Waiting(w) =>
        m \notin Range(rxRing[w]) /\ m \notin Range(pend[w]) /\ m \notin Range(txBuf[w])
  BY DEF Waiting
<1>3. (\A w \in Workers : m \notin Range(rxRing[w])) => P3 = {}
  BY NoStagePlaces
<1>4. (\A w \in Workers : m \notin Range(pend[w])) => P4 = {}
  <2> HIDE DEF pend
  <2>1. QED
    BY NoStagePlaces
<1>5. (\A w \in Workers : m \notin Range(txBuf[w])) => P5 = {}
  BY NoStagePlaces
<1>6. m \notin pool => P1 = {}
  BY DEF InPool
<1>7. (\A w \in Workers : m \notin nic[w]) => P2 = {}
  BY DEF InNic
<1>8. \E p : Places(m) = {p}
  <2>1. CASE m \in pool
    <3>1. P1 = {<<"pool", 0, 0>>}
      BY <2>1 DEF InPool
    <3>2. \A w \in Workers : m \notin nic[w] /\ m \notin Waiting(w)
      BY <2>1 DEF OwnInv
    <3>3. P2 = {} /\ P3 = {} /\ P4 = {} /\ P5 = {}
      BY <1>2, <1>3, <1>4, <1>5, <1>7, <3>2
    <3> HIDE DEF P1, P2, P3, P4, P5
    <3>4. QED
      BY <1>1, <3>1, <3>3
  <2>2. ASSUME NEW w \in Workers, m \in nic[w] PROVE \E p : Places(m) = {p}
    <3>1. m \notin pool /\ \A v \in Workers : m \notin Waiting(v) /\ (v # w => m \notin nic[v])
      BY <2>2 DEF OwnInv
    <3>2. P2 = {<<"nic", w, 0>>}
      <4>1. {v \in Workers : m \in nic[v]} = {w}
        BY <2>2, <3>1
      <4>2. QED
        BY <4>1 DEF InNic
    <3>3. P1 = {} /\ P3 = {} /\ P4 = {} /\ P5 = {}
      BY <1>2, <1>3, <1>4, <1>5, <1>6, <3>1
    <3> HIDE DEF P1, P2, P3, P4, P5
    <3>4. QED
      BY <1>1, <3>2, <3>3
  <2>3. ASSUME NEW w \in Workers, m \in Waiting(w) PROVE \E p : Places(m) = {p}
    <3>1. m \notin pool /\ \A v \in Workers : m \notin nic[v] /\ (v # w => m \notin Waiting(v))
      BY <2>3 DEF OwnInv
    <3>2. P1 = {} /\ P2 = {}
      BY <1>6, <1>7, <3>1
    <3>3. /\ rxRing[w] \in Seq(Mbufs) /\ Rising(pkt, rxRing[w])
          /\ pend[w] \in Seq(Mbufs) /\ Rising(pkt, pend[w])
          /\ txBuf[w] \in Seq(Mbufs) /\ Rising(pkt, txBuf[w])
      BY PendingFacts DEF WorkerTypeOK, LineInv
    <3>4. /\ Range(txBuf[w]) \cap (Range(pend[w]) \cup Range(rxRing[w])) = {}
          /\ Range(pend[w]) \cap Range(rxRing[w]) = {}
      <4>1. Range(txBuf[w]) \subseteq Mbufs /\ Range(pend[w]) \subseteq Mbufs
        BY <3>3 DEF Range
      <4>2. /\ Below(pkt, Range(txBuf[w]), Range(pend[w]) \cup Range(rxRing[w]))
            /\ Below(pkt, Range(pend[w]), Range(rxRing[w]))
        BY DEF LineInv
      <4> HIDE DEF pend
      <4>3. QED
        BY <4>1, <4>2, BelowDisjoint
    <3>5. \A v \in Workers \ {w} :
            m \notin Range(rxRing[v]) /\ m \notin Range(pend[v]) /\ m \notin Range(txBuf[v])
      BY <1>2, <3>1
    <3>6. m \in Range(rxRing[w]) \/ m \in Range(pend[w]) \/ m \in Range(txBuf[w])
      BY <2>3 DEF Waiting
    <3> HIDE DEF pend
    <3>7. CASE m \in Range(rxRing[w])
      <4>1. \E p : P3 = {p}
        BY <3>3, <3>5, <3>7, StagePlaces
      <4>2. P4 = {} /\ P5 = {}
        BY <1>4, <1>5, <3>4, <3>5, <3>7
      <4> HIDE DEF P1, P2, P3, P4, P5
      <4>3. QED
        BY <1>1, <3>2, <4>1, <4>2
    <3>8. CASE m \in Range(pend[w])
      <4>1. \E p : P4 = {p}
        BY <3>3, <3>5, <3>8, StagePlaces
      <4>2. P3 = {} /\ P5 = {}
        BY <1>3, <1>5, <3>4, <3>5, <3>8
      <4> HIDE DEF P1, P2, P3, P4, P5
      <4>3. QED
        BY <1>1, <3>2, <4>1, <4>2
    <3>9. CASE m \in Range(txBuf[w])
      <4>1. \E p : P5 = {p}
        BY <3>3, <3>5, <3>9, StagePlaces
      <4>2. P3 = {} /\ P4 = {}
        BY <1>3, <1>4, <3>4, <3>5, <3>9
      <4> HIDE DEF P1, P2, P3, P4, P5
      <4>3. QED
        BY <1>1, <3>2, <4>1, <4>2
    <3>10. QED
      BY <3>6, <3>7, <3>8, <3>9
  <2>4. QED
    BY <2>1, <2>2, <2>3 DEF OwnInv
<1>9. QED
  BY <1>8

-----------------------------------------------------------------------------
(* The invariant of the workers holds whatever arrives and whenever the    *)
(* device takes packets.                                                   *)
THEOREM WorkerInvariant == Spec => []WorkerInv
BY InitInv, NextInv, PTL DEF Spec

(* Every path of LcoreFunc frees a packet or sends it, once: each mbuf of  *)
(* the pool is in exactly one place at any time.                           *)
THEOREM EveryMbufOnce == Spec => []OneOwner
BY WorkerInvariant, InvOneOwner, PTL

(* Through TxBuffer and TxBufferFlush, the packets of a queue leave in the *)
(* order in which they were received.                                      *)
THEOREM SentInOrder == Spec => []OrderKept
<1>1. WorkerInv => OrderKept
  <2>1. ASSUME WorkerInv, NEW w \in Workers
        PROVE  \A j, k \in 1..Len(sent[w]) : j < k => sent[w][j] < sent[w][k]
    <3>1. DOMAIN sent[w] = 1..Len(sent[w])
      BY <2>1 DEF WorkerInv, WorkerTypeOK
    <3>2. QED
      BY <2>1, <3>1 DEF WorkerInv, LineInv
  <2>2. QED
    BY <2>1 DEF OrderKept
<1>2. QED
  BY <1>1, WorkerInvariant, PTL
=============================================================================
