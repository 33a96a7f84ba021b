---------------------------- MODULE SnifferWorker ----------------------------
(***************************************************************************)
(* The workers of app/test-sniffer: the loop of LcoreFunc (lcores.go) with *)
(* RxBurst, TxBuffer and TxBufferFlush (ethdev/rxtx.go), PktMbufFree       *)
(* (mbuf/mbuf.go) and QueueCounter.Incr (queue_count.go).                  *)
(*                                                                         *)
(* Every worker serves one queue of a port; the queues of a port share one *)
(* mempool.  An mbuf travels from the pool into a receive ring, from there *)
(* to the worker, and back to the pool: directly when the worker drops the *)
(* packet, or through the transmit buffer and the transmit ring.  The ring *)
(* operations and the buffer are DPDK's, modelled as the code uses them.   *)
(***************************************************************************)
EXTENDS Naturals, Sequences, FiniteSets, SequencesExt

CONSTANTS
  Workers,    (* workers, with one queue each *)
  Mbufs,      (* the mbufs of the pool *)
  burstSize,  (* RX burst size, 256 by default *)
  TxSize,     (* size of the transmit buffer, 128 in the code *)
  Kinds,      (* kinds of packets that arrive *)
  MaxPackets  (* bound: packets that arrive *)

ASSUME SnifferWorkerAssumption ==
  /\ IsFiniteSet(Mbufs) /\ burstSize \in Nat \ {0} /\ TxSize \in Nat \ {0}
  /\ MaxPackets \in Nat

VARIABLES
  alive,    (* the process runs *)
  pool,     (* mbufs in the mempool *)
  rxRing,   (* packets a queue has received *)
  nic,      (* mbufs in the transmit ring of a queue *)
  pkt,      (* the packet an mbuf holds: its number and its kind *)
  arrived,  (* number of packets that have arrived *)
  pc,       (* where a worker is in its loop *)
  buf,      (* buf[:n] of its last RxBurst *)
  i,        (* index of the packet it is at, from 1 *)
  txBuf,    (* its transmit buffer *)
  rx,       (* its QueueCounter: packets and bytes *)
  got,      (* history: the packets RxBurst delivered into buf *)
  sent      (* history: packets a queue has transmitted, in order *)

nicVars  == <<rxRing, nic, pkt, arrived, sent>>
workVars == <<pc, buf, i, txBuf, rx, got>>
vars == <<alive, pool, nicVars, workVars>>

Init ==
  /\ alive = TRUE
  /\ pool = Mbufs
  /\ rxRing = [w \in Workers |-> <<>>]
  /\ nic = [w \in Workers |-> {}]
  /\ pkt = [m \in Mbufs |-> [id |-> 0, kind |-> "none"]]
  /\ arrived = 0
  /\ pc = [w \in Workers |-> "flush"]
  /\ buf = [w \in Workers |-> <<>>]
  /\ i = [w \in Workers |-> 1]
  /\ txBuf = [w \in Workers |-> <<>>]
  /\ rx = [w \in Workers |-> [Packets |-> 0, Bytes |-> 0]]
  /\ got = [w \in Workers |-> <<>>]
  /\ sent = [w \in Workers |-> <<>>]

-----------------------------------------------------------------------------
(* The device *)

(* A packet arrives on the queue of w, into an mbuf of the pool. *)
Arrive(w, k) ==
  /\ alive /\ arrived < MaxPackets
  /\ arrived' = arrived + 1
  /\ \E m \in pool :
       /\ pool' = pool \ {m}
       /\ pkt' = [pkt EXCEPT ![m] = [id |-> arrived', kind |-> k]]
       /\ rxRing' = [rxRing EXCEPT ![w] = Append(@, m)]
  /\ UNCHANGED <<alive, nic, sent, workVars>>

(* A packet is on the wire: the driver gives its mbuf back. *)
TxDone(w) ==
  /\ alive
  /\ \E m \in nic[w] :
       /\ nic' = [nic EXCEPT ![w] = @ \ {m}]
       /\ pool' = pool \cup {m}
  /\ UNCHANGED <<alive, rxRing, pkt, arrived, sent, workVars>>

-----------------------------------------------------------------------------
(* ethdev *)

(* rte_eth_tx_burst takes the first n of the packets s, and the default    *)
(* callback of the transmit buffer frees the others.                       *)
TxBurst(w, s, n) ==
  /\ nic' = [nic EXCEPT ![w] = @ \cup Range(SubSeq(s, 1, n))]
  /\ sent' = [sent EXCEPT ![w] = @ \o [j \in 1..n |-> pkt[s[j]].id]]
  /\ pool' = pool \cup Range(SubSeq(s, n + 1, Len(s)))

(* Mutant: the flush at the head of the loop is missing. *)
TxBufferFlushMissing(w) ==
  /\ alive /\ pc[w] = "flush"
  /\ pc' = [pc EXCEPT ![w] = "rx"]
  /\ UNCHANGED <<alive, pool, nicVars, buf, i, txBuf, rx, got>>

(* TxBufferFlush at the head of the loop. *)
TxBufferFlush(w) ==
  /\ alive /\ pc[w] = "flush"
  /\ \E n \in 0..Len(txBuf[w]) : TxBurst(w, txBuf[w], n)
  /\ txBuf' = [txBuf EXCEPT ![w] = <<>>]
  /\ pc' = [pc EXCEPT ![w] = "rx"]
  /\ UNCHANGED <<alive, rxRing, pkt, arrived, buf, i, rx, got>>

(* Mutant: the packet that fills the buffer overtakes the others. *)
TxBufferOvertake(w, m) ==
  LET s == Append(txBuf[w], m)
  IN \/ /\ Len(s) < TxSize
        /\ txBuf' = [txBuf EXCEPT ![w] = s]
        /\ UNCHANGED <<pool, nic, sent>>
     \/ /\ Len(s) = TxSize
        /\ TxBurst(w, <<m>>, 1)
        /\ UNCHANGED txBuf

(* TxBuffer: the buffer is flushed when it becomes full. *)
TxBuffer(w, m) ==
  LET s == Append(txBuf[w], m)
  IN \/ /\ Len(s) < TxSize
        /\ txBuf' = [txBuf EXCEPT ![w] = s]
        /\ UNCHANGED <<pool, nic, sent>>
     \/ /\ Len(s) = TxSize
        /\ \E n \in 0..Len(s) : TxBurst(w, s, n)
        /\ txBuf' = [txBuf EXCEPT ![w] = <<>>]

(* RxBurst: up to burstSize packets, at least one if there is one. *)
RxBurst(w) ==
  /\ alive /\ pc[w] = "rx"
  /\ \E n \in 0..Len(rxRing[w]) :
       /\ n <= burstSize
       /\ n = 0 <=> rxRing[w] = <<>>
       /\ buf' = [buf EXCEPT ![w] = SubSeq(rxRing[w], 1, n)]
       /\ rxRing' = [rxRing EXCEPT ![w] = SubSeq(@, n + 1, Len(@))]
  /\ got' = [got EXCEPT ![w] = [j \in DOMAIN buf'[w] |-> pkt[buf'[w][j]].id]]
  /\ i' = [i EXCEPT ![w] = 1]
  /\ pc' = [pc EXCEPT ![w] = "packets"]
  /\ UNCHANGED <<alive, pool, nic, pkt, arrived, txBuf, rx, sent>>

-----------------------------------------------------------------------------
(* LcoreFunc *)

(* The kinds the loop frees; all others are turned around and sent.  An    *)
(* ARP reply, an ICMP message that is no echo request, an IPv4 or IPv6     *)
(* packet of another protocol and a router solicitation go nowhere.        *)
Dropped == {"arp reply", "icmp other", "ipv4 other", "router solicitation", "ipv6 other"}

(* What becomes of a packet that is sent back. *)
Answer(k) ==
  CASE k = "arp request"           -> "arp reply"
    [] k = "echo request"          -> "echo reply"
    [] k = "echo6 request"         -> "echo6 reply"
    [] k = "neighbor solicitation" -> "neighbor advertisement"
    [] OTHER                       -> k

(* A solicitation with no room behind it for the option of the answer:     *)
(* GetICMPv6NDTargetLinkLayerAddressOption returns nil for it.             *)
NoOption == "short solicitation"

(* Mutant: the continue behind PktMbufFree is missing. *)
PacketNoContinue(w) ==
  /\ alive /\ pc[w] = "packets"
  /\ i[w] <= Len(buf[w])
  /\ LET m == buf[w][i[w]]
     IN IF pkt[m].kind \in Dropped
        THEN /\ pool' = pool \cup {m}
             /\ txBuf' = [txBuf EXCEPT ![w] = Append(@, m)]
             /\ UNCHANGED <<pkt, nic, sent>>
        ELSE /\ pkt' = [pkt EXCEPT ![m].kind = Answer(@)]
             /\ TxBuffer(w, m)
  /\ i' = [i EXCEPT ![w] = @ + 1]
  /\ UNCHANGED <<alive, rxRing, arrived, pc, buf, rx, got>>

(* One round of the loop over buf[:n]. *)
Packet(w) ==
  /\ alive /\ pc[w] = "packets"
  /\ i[w] <= Len(buf[w])
  /\ LET m == buf[w][i[w]]
     IN \/ /\ pkt[m].kind \in Dropped
           /\ pool' = pool \cup {m}
           /\ UNCHANGED <<pkt, txBuf, nic, sent>>
        \/ /\ pkt[m].kind \notin Dropped \cup {NoOption}
           /\ pkt' = [pkt EXCEPT ![m].kind = Answer(@)]
           /\ TxBuffer(w, m)
  /\ i' = [i EXCEPT ![w] = @ + 1]
  /\ UNCHANGED <<alive, rxRing, arrived, pc, buf, rx, got>>

(* The loop dereferences the nil option.  PanicAsErr is FALSE in this      *)
(* program: nothing recovers from the panic, and the process ends.         *)
PacketPanic(w) ==
  /\ alive /\ pc[w] = "packets"
  /\ i[w] <= Len(buf[w])
  /\ pkt[buf[w][i[w]]].kind = NoOption
  /\ alive' = FALSE
  /\ UNCHANGED <<pool, nicVars, workVars>>

(* The process has ended, and the lcores with it. *)
Ended == ~alive /\ UNCHANGED vars

(* len(m.Data()) of the packets in s.  Packet n is n bytes long, so that   *)
(* lengths tell packets apart.                                             *)
DataLen(s) == FoldLeft(LAMBDA sum, m : sum + pkt[m].id, 0, s)

(* qc.Incr(buf[:n]) *)
Incr(w) ==
  /\ alive /\ pc[w] = "packets"
  /\ i[w] > Len(buf[w])
  /\ rx' = [rx EXCEPT ![w].Packets = @ + Len(buf[w]), ![w].Bytes = @ + DataLen(buf[w])]
  /\ pc' = [pc EXCEPT ![w] = "flush"]
  /\ UNCHANGED <<alive, pool, nicVars, buf, i, txBuf, got>>

-----------------------------------------------------------------------------

WorkerStep(w) ==
  TxBufferFlush(w) \/ RxBurst(w) \/ Packet(w) \/ PacketPanic(w) \/ Incr(w)

Next ==
  \/ \E w \in Workers :
       WorkerStep(w) \/ TxDone(w) \/ \E k \in Kinds : Arrive(w, k)
  \/ Ended

Spec == Init /\ [][Next]_vars

(* Lcores keep polling and the wire takes what the transmit ring holds. *)
FairSpec ==
  /\ Spec
  /\ \A w \in Workers : WF_vars(WorkerStep(w)) /\ WF_vars(TxDone(w))

-----------------------------------------------------------------------------
(* Properties *)

(* The packets of the burst that a worker has not dealt with yet. *)
Pending(w) == IF pc[w] = "packets" THEN SubSeq(buf[w], i[w], Len(buf[w])) ELSE <<>>

(* The places where an mbuf is: the pool, transmit rings, and positions in *)
(* receive rings, in bursts and in transmit buffers.                       *)
InPool(m) == {<<"pool", 0, 0>> : x \in pool \cap {m}}
InNic(m) == {<<"nic", w, 0>> : w \in {w \in Workers : m \in nic[w]}}
At(stage, w, s, m) == {<<stage, w, j>> : j \in {j \in DOMAIN s : s[j] = m}}
InQueues(stage, q, m) == UNION {At(stage, w, q[w], m) : w \in Workers}
Places(m) ==
  InPool(m) \cup InNic(m) \cup InQueues("rx", rxRing, m)
  \cup InQueues("burst", [w \in Workers |-> Pending(w)], m) \cup InQueues("tx", txBuf, m)

(* Every mbuf is in exactly one place: the loop frees or sends every       *)
(* packet, never both, and never loses one, on any of its paths.           *)
OneOwner == \A m \in Mbufs : \E p \in Places(m) : Places(m) = {p}

(* The packets of a queue leave in the order in which they came, through   *)
(* whichever of the two flushes.                                           *)
OrderKept ==
  \A w \in Workers : \A j, k \in 1..Len(sent[w]) : j < k => sent[w][j] < sent[w][k]

(* No mbuf is stuck: what has been received goes back to the pool, also    *)
(* when the transmit buffer never fills up, unless a packet makes a worker *)
(* panic.                                                                  *)
ReturnsToPool == \A m \in Mbufs : m \notin pool ~> m \in pool \/ ~alive

(* "PktMbufFree returns this mbuf into its originating mempool": the       *)
(* worker does not look at the packets of a burst once it has given them   *)
(* back, and Incr counts the bytes of the packets that were received.      *)
CountsReceived ==
  \A w \in Workers : pc[w] = "packets" /\ i[w] > Len(buf[w]) =>
    \A j \in 1..Len(buf[w]) : buf[w][j] \notin pool /\ pkt[buf[w][j]].id = got[w][j]
=============================================================================
