------------------------------ MODULE RingApp ------------------------------
(***************************************************************************)
(* A program in the manner of app/ring/main.go that passes mbufs through a *)
(* ring: producers allocate from a mempool (mbuf/mbuf.go, mempool/mbuf.go) *)
(* and enqueue, consumers dequeue and free, the main goroutine waits for   *)
(* all of them and then frees ring and pool.  Other goroutines iterate     *)
(* over the mempools meanwhile (mempool.Walk, Mempool.ObjIter), through    *)
(* the registry of ObjArray.                                               *)
(*                                                                         *)
(* The library runs the callbacks of Walk with the list of mempools locked *)
(* for reading, and creates and frees mempools with it locked for writing. *)
(***************************************************************************)
EXTENDS Ring, ObjArray

VARIABLES
  main,     (* what the main goroutine is doing *)
  pool,     (* the mbufs in the mempool *)
  lost,     (* mbufs that nobody has an address of any more *)
  working,  (* threads whose function has not returned *)
  readers   (* iterations of Walk that hold the list of mempools locked *)

appVars == <<main, pool, lost, working, readers>>
vars == <<ringVars, arrVars, appVars>>

Init ==
  /\ RingInit /\ ArrInit
  /\ main = "start"
  /\ pool = {}
  /\ lost = {}
  /\ working = {}
  /\ readers = {}

-----------------------------------------------------------------------------
(* The main goroutine. *)

(* CreateMbufPool: all mbufs are in the pool when it returns; with an error *)
(* the program ends.                                                        *)
CreateMbufPool ==
  /\ main = "start" /\ readers = {}
  /\ \/ main' = "pool" /\ pool' = Mbufs \ lost
     \/ main' = "done" /\ UNCHANGED pool
  /\ UNCHANGED <<ringVars, arrVars, lost, working, readers>>

CreateRing ==
  /\ main = "pool"
  /\ \/ NoMemory
     \/ \E count \in Counts, exact \in BOOLEAN : Create(count, exact) \/ New(count, exact)
  /\ main' = IF ring' = NoRing THEN "failed" ELSE "run"
  /\ working' = IF ring' = NoRing THEN {} ELSE Threads
  /\ UNCHANGED <<arrVars, pool, lost, readers>>

(* wg.Wait, then the deferred Free of the ring. *)
FreeRing ==
  /\ main = "run" /\ working = {}
  /\ Free
  /\ main' = "freeing"
  /\ UNCHANGED <<arrVars, pool, lost, working, readers>>

(* Mempool.Free; ObjIter takes no lock, main waits for it as for others. *)
PoolFree ==
  /\ main \in {"freeing", "failed"}
  /\ readers = {} /\ \A c \in Deferred : ~Walking(c)
  /\ main' = "done"
  /\ pool' = {}
  /\ UNCHANGED <<ringVars, arrVars, lost, working, readers>>

-----------------------------------------------------------------------------
(* Producers and consumers. *)

Busy(t) == t \in working /\ op[t] = NoOp

(* Mutant: the mbuf that the data did not fit into is returned twice. *)
AllocResetAndAppendShared(p, fits) ==
  /\ Busy(p) /\ Len(hold[p]) < MaxBatch
  /\ \E m \in pool :
       /\ pool' = IF fits THEN pool \ {m} ELSE pool
       /\ hold' = [hold EXCEPT ![p] = Append(@, m)]
       /\ UNCHANGED lost
  /\ UNCHANGED <<ring, slots, prod, cons, op, arrVars, main, working, readers>>

(* AllocResetAndAppend: an mbuf that the data does not fit into is neither  *)
(* returned to the caller nor to the pool.  With an empty pool the caller   *)
(* gets nil and tries again.                                                *)
AllocResetAndAppend(p, fits) ==
  /\ Busy(p) /\ Len(hold[p]) < MaxBatch
  /\ \E m \in pool :
       /\ pool' = pool \ {m}
       /\ IF fits THEN hold' = [hold EXCEPT ![p] = Append(@, m)] /\ UNCHANGED lost
                  ELSE lost' = lost \cup {m} /\ UNCHANGED hold
  /\ UNCHANGED <<ring, slots, prod, cons, op, arrVars, main, working, readers>>

(* PktMbufFreeBulk: what was dequeued, or what the ring had no room for. *)
PktMbufFreeBulk(t) ==
  /\ Busy(t) /\ hold[t] # << >>
  /\ pool' = pool \cup {hold[t][i] : i \in DOMAIN hold[t]}
  /\ hold' = [hold EXCEPT ![t] = << >>]
  /\ UNCHANGED <<ring, slots, prod, cons, op, arrVars, main, lost, working, readers>>

Send(p) ==
  /\ p \in working
  /\ \/ \E n \in 1..MaxBatch, bulk \in BOOLEAN : Enqueue(p, n, bulk)
     \/ EnqueueDone(p)
  /\ UNCHANGED <<arrVars, appVars>>

Receive(c) ==
  /\ c \in working
  /\ \/ hold[c] = << >> /\ \E n \in 1..MaxBatch, bulk \in BOOLEAN : Dequeue(c, n, bulk)
     \/ DequeueDone(c)
  /\ UNCHANGED <<arrVars, appVars>>

(* A producer has sent its messages. *)
ProducerReturns(p) ==
  /\ Busy(p) /\ hold[p] = << >>
  /\ working' = working \ {p}
  /\ UNCHANGED <<ringVars, arrVars, main, pool, lost, readers>>

(* Mutant: a consumer leaves when the ring is empty for the moment. *)
ConsumerReturnsEarly(c) ==
  /\ Busy(c) /\ hold[c] = << >>
  /\ Available = 0
  /\ working' = working \ {c}
  /\ UNCHANGED <<ringVars, arrVars, main, pool, lost, readers>>

(* A consumer counts the messages and returns with the last one. *)
ConsumerReturns(c) ==
  /\ Busy(c) /\ hold[c] = << >>
  /\ working \cap Producers = {} /\ Available = 0
  /\ working' = working \ {c}
  /\ UNCHANGED <<ringVars, arrVars, main, pool, lost, readers>>

-----------------------------------------------------------------------------
(* Iterations over the mempools. *)

(* Walk and ObjIter register their function and call C. *)
WalkStart(c) ==
  /\ ObjCreate(c)
  /\ c \in Deferred => main \in {"pool", "run"}
  /\ readers' = IF c \in Deferred THEN readers ELSE readers \cup {c}
  /\ UNCHANGED <<ringVars, main, pool, lost, working>>

Callback(c) ==
  /\ ObjRead(c)
  /\ UNCHANGED <<ringVars, appVars>>

WalkReturn(c) ==
  /\ WalkEnd(c)
  /\ readers' = readers \ {c}
  /\ UNCHANGED <<ringVars, main, pool, lost, working>>

(* A panic of the callback leaves the C function without unlocking, and     *)
(* nobody will ever give back that reader's share of the lock.              *)
WalkPanics(c) ==
  /\ WalkPanic(c)
  /\ readers' = IF c \in Deferred THEN readers ELSE (readers \ {c}) \cup {"nobody"}
  /\ UNCHANGED <<ringVars, main, pool, lost, working>>

Next ==
  \/ CreateMbufPool \/ CreateRing \/ FreeRing \/ PoolFree
  \/ \E p \in Producers :
       \/ Send(p) \/ ProducerReturns(p)
       \/ \E fits \in BOOLEAN : AllocResetAndAppend(p, fits)
  \/ \E c \in Consumers : Receive(c) \/ ConsumerReturns(c)
  \/ \E t \in Threads : PktMbufFreeBulk(t)
  \/ \E c \in Clients :
       WalkStart(c) \/ Callback(c) \/ WalkReturn(c) \/ WalkPanics(c)

(* Every thread runs on an lcore of its own and loops until it has sent or *)
(* received its messages, and iterations over a list end.                  *)
Fairness ==
  /\ \A p \in Producers : WF_vars(Send(p))
  /\ \A c \in Consumers : WF_vars(Receive(c)) /\ WF_vars(PktMbufFreeBulk(c))
  /\ \A c \in Clients : WF_vars(WalkReturn(c))

Spec == Init /\ [][Next]_vars /\ Fairness

-----------------------------------------------------------------------------
InRing(m) == \E i \in DOMAIN Contents : Contents[i] = m

(* Where an mbuf can be. *)
Places(m) ==
  { x \in {"pool", "lost", "ring"} \cup Threads :
      \/ x = "pool" /\ m \in pool
      \/ x = "lost" /\ m \in lost
      \/ x = "ring" /\ InRing(m)
      \/ x \in Threads /\ \E i \in DOMAIN hold[x] : hold[x][i] = m }

(* While the program runs every mbuf has exactly one owner, and when the   *)
(* ring is freed all mbufs are back in the pool, except those that         *)
(* AllocResetAndAppend dropped.                                            *)
MbufsAccounted ==
  /\ main = "run" => \A m \in Mbufs : \E x \in Places(m) : Places(m) = {x}
  /\ main = "freeing" => pool = Mbufs \ lost

(* Every message put into the ring comes out of it. *)
Delivered == \A m \in Mbufs : InRing(m) ~> ~InRing(m)
=============================================================================
