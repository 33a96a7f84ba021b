---------------------------- MODULE BoundedFifo ----------------------------
(* What package ring promises: a queue of bounded capacity that many        *)
(* threads fill and empty.  One call moves a prefix of what its thread      *)
(* holds into the queue, or a prefix of the queue into what it holds.       *)
EXTENDS Naturals, Sequences

CONSTANTS Threads, Items

VARIABLES
  queue,     (* the objects in the ring, oldest first *)
  capacity,  (* Ring.Cap *)
  hold       (* hold[t]: the objects thread t has in its hands, in order *)

Init ==
  /\ queue = << >>
  /\ capacity = 0
  /\ hold = [t \in Threads |-> << >>]

(* A ring is made, or freed with everything in it. *)
Resize ==
  /\ queue' = << >>
  /\ capacity' \in Nat
  /\ UNCHANGED hold

Put(t, n) ==
  /\ Len(queue) + n <= capacity
  /\ queue' = queue \o SubSeq(hold[t], 1, n)
  /\ hold' = [hold EXCEPT ![t] = SubSeq(@, n + 1, Len(@))]
  /\ UNCHANGED capacity

Take(t, n) ==
  /\ hold' = [hold EXCEPT ![t] = @ \o SubSeq(queue, 1, n)]
  /\ queue' = SubSeq(queue, n + 1, Len(queue))
  /\ UNCHANGED capacity

(* A thread gets objects elsewhere, or disposes of them. *)
Elsewhere(t) ==
  /\ hold' \in [Threads -> Seq(Items)]
  /\ \A u \in Threads \ {t} : hold'[u] = hold[u]
  /\ UNCHANGED <<queue, capacity>>

Next ==
  \/ Resize
  \/ \E t \in Threads :
       \/ Elsewhere(t)
       \/ \E n \in 1..Len(hold[t]) : Put(t, n)
       \/ \E n \in 1..Len(queue) : Take(t, n)

Spec == Init /\ [][Next]_<<queue, capacity, hold>>
=============================================================================
