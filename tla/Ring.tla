-------------------------------- MODULE Ring --------------------------------
(***************************************************************************)
(* Package ring (ring/ring.go, enqueue.go, dequeue.go, common.go): rings   *)
(* in a memzone (Create), in Go memory (New) or in EAL memory (NewEAL),    *)
(* and the bulk and burst operations of producers and consumers.           *)
(*                                                                         *)
(* The library's rte_ring is modelled as far as the wrappers rely on it:   *)
(* a call first moves the head to reserve slots, copies, and then moves    *)
(* the tail when all earlier reservations have moved it; the cursors are   *)
(* unsigned words that wrap around.                                        *)
(***************************************************************************)
EXTENDS Integers, Sequences

CONSTANTS
  Producers, Consumers,
  Mbufs,       (* the objects whose addresses are put into rings *)
  Counts,      (* values of count that Create, New and NewEAL are given *)
  Word,        (* size of the word of cursors and counts, 2^32 in the code *)
  Line,        (* pointers in a cache line, 8 in the code *)
  MaxBatch,    (* bound: objects passed to one call *)
  NoMbuf

Threads == Producers \cup Consumers

(* Create, Init and GetMemSize pass count on as C.uint(count). *)
cuint(n) == n % Word

(* POWEROF2 and rte_align32pow2 of the library, for words of 31 bits. *)
Pow2s == {2^k : k \in 0..30}
POWEROF2(n) == n = 0 \/ n \in Pow2s
AlignPow2(n) == CHOOSE s \in Pow2s : n <= s /\ s < 2 * n

(* The cursors' word is a multiple of the size of every table. *)
ASSUME RingAssumption ==
  /\ Producers \cap Consumers = {}
  /\ NoMbuf \notin Mbufs
  /\ Word \in Nat \ {0}
  /\ Line \in Nat \ {0}
  /\ \A n \in Counts : /\ n \in Nat /\ cuint(n) < 2^30
                       /\ Word % AlignPow2(cuint(n) + 1) = 0
                       /\ cuint(n) \in Pow2s => Word % cuint(n) = 0
  /\ MaxBatch \in Nat

VARIABLES
  ring,        (* the ring: its size, capacity and slots in memory *)
  slots,       (* the object table *)
  prod, cons,  (* head and tail cursors *)
  op,          (* op[t]: the reservation of a call in progress *)
  hold         (* hold[t]: the objects thread t has in its hands, in order *)

ringVars == <<ring, slots, prod, cons, op, hold>>

NoRing == [size |-> 1, cap |-> 0, mem |-> 0]
NoOp == [at |-> 0, n |-> 0]
Empty(size) == [i \in 0..(size - 1) |-> NoMbuf]

RingInit ==
  /\ ring = NoRing
  /\ slots = Empty(ring.size)
  /\ prod = [head |-> 0, tail |-> 0]
  /\ cons = [head |-> 0, tail |-> 0]
  /\ op = [t \in Threads |-> NoOp]
  /\ hold = [t \in Threads |-> << >>]

-----------------------------------------------------------------------------
(* Making and freeing rings. *)

(* rte_ring_init: without OptES count must be a power of two and one slot   *)
(* stays unused, with OptES the table is rounded up so that count fit.  Zero *)
(* passes POWEROF2; the mask of such a ring, count - 1, has all bits set.    *)
RteRingInit(count, exact) ==
  IF exact THEN [size |-> AlignPow2(count + 1), cap |-> count]
  ELSE IF count = 0 THEN [size |-> Word, cap |-> Word - 1]
  ELSE IF POWEROF2(count) THEN [size |-> count, cap |-> count - 1]
  ELSE [size |-> 0, cap |-> 0]

(* rte_ring_get_memsize: what n slots take up, in whole cache lines. *)
Aligned(n) == Line * ((n + Line - 1) \div Line)

(* GetMemSize: slots that fit into the memory it asks for. *)
EINVAL == -1
GetMemSize(count) == IF POWEROF2(cuint(count)) THEN Aligned(cuint(count)) ELSE EINVAL

(* Init on memory for mem slots; an error leaves the caller with no ring. *)
RingInitIn(mem, count, exact) ==
  LET made == RteRingInit(cuint(count), exact)
  IN  /\ ring' = IF made.size = 0 THEN NoRing
                 ELSE [size |-> made.size, cap |-> made.cap, mem |-> mem]
      /\ slots' = Empty(ring'.size)
      /\ prod' = [head |-> 0, tail |-> 0]
      /\ cons' = [head |-> 0, tail |-> 0]
      /\ UNCHANGED <<op, hold>>

(* Create: rte_ring_create rounds count up before it reserves the memzone.  *)
Create(count, exact) ==
  /\ ring = NoRing
  /\ LET n == IF exact THEN AlignPow2(cuint(count) + 1) ELSE cuint(count)
     IN  RingInitIn(Aligned(n), count, exact)

(* New and NewEAL ask GetMemSize first and return its error; NewEAL frees   *)
(* the memory again when Init fails.                                        *)
New(count, exact) ==
  /\ ring = NoRing
  /\ IF GetMemSize(count) = EINVAL THEN UNCHANGED ringVars
     ELSE RingInitIn(GetMemSize(count), count, exact)

(* There is no memory, or no room in the library's list of rings. *)
NoMemory == ring = NoRing /\ UNCHANGED ringVars

(* Free, and for a ring of New the garbage collector. *)
Free ==
  /\ ring # NoRing
  /\ ring' = NoRing
  /\ slots' = Empty(ring'.size)
  /\ prod' = [head |-> 0, tail |-> 0]
  /\ cons' = [head |-> 0, tail |-> 0]
  /\ UNCHANGED <<op, hold>>

-----------------------------------------------------------------------------
(* Enqueue and dequeue. *)

FreeCount == (ring.cap + cons.tail - prod.head) % Word
Available == (prod.tail - cons.head) % Word

(* A bulk operation moves all of its n objects or none, a burst as many as  *)
(* there is room for.                                                       *)
Granted(n, room, bulk) ==
  IF n <= room THEN n ELSE IF bulk THEN 0 ELSE room

Reserve(t, at, n) == op' = [op EXCEPT ![t] = [at |-> at, n |-> n]]

(* EnqueueBulk and EnqueueBurst up to the reservation; Enqueue is a bulk of *)
(* one.  The Sp forms and OptSP differ in that the last step does not wait  *)
(* for other producers, of which their callers promise there are none.      *)
Enqueue(p, n, bulk) ==
  /\ ring # NoRing /\ op[p] = NoOp
  /\ n <= Len(hold[p])
  /\ LET g == Granted(n, FreeCount, bulk)
     IN  /\ g > 0
         /\ Reserve(p, prod.head, g)
         /\ prod' = [prod EXCEPT !.head = (@ + g) % Word]
  /\ UNCHANGED <<ring, slots, cons, hold>>

(* ... the copy into the slots and the move of the tail, with which the    *)
(* call returns: the granted objects have left the caller's slice.         *)
Publish(p) ==
  LET slot(j) == (op[p].at + j - 1) % ring.size
      n == op[p].n
  IN  /\ slots' = [i \in DOMAIN slots |->
           IF \E j \in 1..n : i = slot(j)
           THEN hold[p][CHOOSE j \in 1..n : i = slot(j)] ELSE slots[i]]
      /\ prod' = [prod EXCEPT !.tail = (op[p].at + n) % Word]
      /\ hold' = [hold EXCEPT ![p] = SubSeq(@, n + 1, Len(@))]
      /\ op' = [op EXCEPT ![p] = NoOp]
      /\ UNCHANGED <<ring, cons>>

(* Mutant: MpEnqueueBulk calls the function for a single producer, which   *)
(* does not wait for the reservations before its own.                      *)
EnqueueDoneAnyOrder(p) == op[p].n > 0 /\ Publish(p)

EnqueueDone(p) ==
  /\ op[p].n > 0
  /\ prod.tail = op[p].at
  /\ Publish(p)

(* DequeueBulk, DequeueBurst and their Sc and Mc forms. *)
Dequeue(c, n, bulk) ==
  /\ ring # NoRing /\ op[c] = NoOp
  /\ LET g == Granted(n, Available, bulk)
     IN  /\ g > 0
         /\ Reserve(c, cons.head, g)
         /\ cons' = [cons EXCEPT !.head = (@ + g) % Word]
  /\ UNCHANGED <<ring, slots, prod, hold>>

(* The pointers that stay behind in the slots are forgotten: nothing may    *)
(* read them again.                                                         *)
DequeueDone(c) ==
  /\ op[c].n > 0
  /\ cons.tail = op[c].at
  /\ hold' = [hold EXCEPT ![c] = @ \o
       [j \in 1..op[c].n |-> slots[(op[c].at + j - 1) % ring.size]]]
  /\ slots' = [i \in DOMAIN slots |->
       IF \E j \in 1..op[c].n : i = (op[c].at + j - 1) % ring.size THEN NoMbuf ELSE slots[i]]
  /\ cons' = [cons EXCEPT !.tail = (op[c].at + op[c].n) % Word]
  /\ op' = [op EXCEPT ![c] = NoOp]
  /\ UNCHANGED <<ring, prod>>

-----------------------------------------------------------------------------
(* Create reserves, and New and NewEAL allocate, memory "with enough length *)
(* to hold a Ring with requested parameters": the slots that an enqueue in  *)
(* progress writes are in that memory.                                      *)
SlotsInMemory ==
  \A p \in Producers : \A j \in 1..op[p].n : (op[p].at + j - 1) % ring.size < ring.mem

(* Count: what a reader of the ring sees, oldest first. *)
Contents ==
  [i \in 1..((prod.tail - cons.tail) % Word) |-> slots[(cons.tail + i - 1) % ring.size]]

Fifo == INSTANCE BoundedFifo WITH
  Items <- Mbufs, queue <- Contents, capacity <- ring.cap

(* Ring "FIFO (First In First Out)", "Maximum size is fixed": with several  *)
(* producers and cursors that wrap around, the ring is a bounded queue, and *)
(* every dequeue delivers exactly the oldest objects.                       *)
IsFifo == Fifo!Spec
=============================================================================
