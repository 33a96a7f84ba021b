---------------------------- MODULE RingAppProofs ----------------------------
(***************************************************************************)
(* Proofs about RingApp and its components, for any number of producers,   *)
(* consumers, iterating goroutines and mbufs.                              *)
(***************************************************************************)
EXTENDS RingApp, FiniteSetTheorems, SequenceTheorems, TLAPS

-----------------------------------------------------------------------------
(* The registry. *)

(* The entries of the array that hold a function. *)
Registered == {i \in 1..Len(array) : array[i] # NoObject}

(* The identifier of a call in progress leads to the function of that call, *)
(* and cnt counts the entries in use.  That is what makes it safe to forget *)
(* the array with the last registration: no other call has one.             *)
ArrInv ==
  /\ array \in Seq(Clients \cup {NoObject})
  /\ cnt \in Nat
  /\ walk \in [Clients -> [id : Nat, fn : Clients \cup {NoObject}]]
  /\ seen \in [Clients -> Clients \cup {NoObject}]
  /\ \A c \in Clients : Walking(c) =>
       walk[c].fn = c /\ walk[c].id < Len(array) /\ array[walk[c].id + 1] = c
  /\ cnt = Cardinality(Registered)

(* The entries in use are finitely many. *)
LEMMA RegisteredFinite ==
  ASSUME array \in Seq(Clients \cup {NoObject})
  PROVE  IsFiniteSet(Registered) /\ Cardinality(Registered) \in Nat
<1>1. IsFiniteSet(1..Len(array))
  BY FS_Interval
<1>2. IsFiniteSet(Registered)
  BY <1>1, FS_Subset DEF Registered
<1>3. QED
  BY <1>2, FS_CardinalityType

(* The registry starts empty. *)
LEMMA ArrInitInv == ArrInit => ArrInv
<1> SUFFICES ASSUME ArrInit PROVE ArrInv
  OBVIOUS
<1>1. Registered = {}
  BY DEF ArrInit, Registered
<1>2. Cardinality(Registered) = 0
  BY <1>1, FS_EmptySet
<1>3. QED
  BY <1>2 DEF ArrInit, ArrInv, Walking, Idle

(* Create: the new entry is behind all others. *)
LEMMA ObjCreateInv ==
  ASSUME ArrInv, NEW c \in Clients, ObjCreate(c)
  PROVE  ArrInv'
<1> USE ObjArrayAssumption
<1>1. /\ array' \in Seq(Clients \cup {NoObject})
      /\ Len(array') = Len(array) + 1
      /\ \A i \in 1..Len(array) : array'[i] = array[i]
      /\ array'[Len(array) + 1] = c
  BY DEF ArrInv, ObjCreate
<1>2. Registered' = Registered \cup {Len(array) + 1} /\ Len(array) + 1 \notin Registered
  BY <1>1 DEF Registered, ArrInv
<1>3. Cardinality(Registered') = Cardinality(Registered) + 1
  BY <1>2, RegisteredFinite, FS_AddElement DEF ArrInv
<1>4. \A d \in Clients : Walking(d)' =>
        walk'[d].fn = d /\ walk'[d].id < Len(array') /\ array'[walk'[d].id + 1] = d
  BY <1>1 DEF ArrInv, ObjCreate, Walking
<1>5. QED
  BY <1>1, <1>3, <1>4 DEF ArrInv, ObjCreate

(* Delete by a client whose entry is its own: the array goes only when no   *)
(* other client has an entry.                                               *)
LEMMA ObjDeleteInv ==
  ASSUME ArrInv, NEW c \in Clients, Walking(c), ObjDelete(c),
         walk' = [walk EXCEPT ![c] = Idle], seen' = [seen EXCEPT ![c] = NoObject]
  PROVE  ArrInv'
<1> USE ObjArrayAssumption
<1> DEFINE own == walk[c].id + 1
<1>1. own \in Registered /\ own \in 1..Len(array)
  BY DEF ArrInv, Registered
<1>2. IsFiniteSet(Registered)
  BY RegisteredFinite DEF ArrInv
<1>3. Cardinality(Registered \ {own}) = Cardinality(Registered) - 1
  <2> HIDE DEF own
  <2>1. Cardinality(Registered \ {own}) =
          IF own \in Registered THEN Cardinality(Registered) - 1 ELSE Cardinality(Registered)
    BY <1>2, FS_RemoveElement
  <2>2. QED
    BY <1>1, <2>1
<1>4. IsFiniteSet(Registered \ {own})
  BY <1>2, FS_Subset
<1>5. \A d \in Clients \ {c} : Walking(d) =>
        walk[d].id + 1 \in Registered \ {own}
  BY DEF ArrInv, Registered
<1>6. /\ walk' \in [Clients -> [id : Nat, fn : Clients \cup {NoObject}]]
      /\ seen' \in [Clients -> Clients \cup {NoObject}]
      /\ ~Walking(c)'
      /\ \A d \in Clients \ {c} : walk'[d] = walk[d]
  BY DEF ArrInv, Walking, Idle
<1>7. CASE cnt = 1
  <2>0. Cardinality(Registered \ {own}) = 0
    BY <1>3, <1>7 DEF ArrInv
  <2>1. Registered \ {own} = {}
    BY <1>4, <2>0, FS_EmptySet
  <2>2. \A d \in Clients : ~Walking(d)'
    BY <1>5, <1>6, <2>1 DEF Walking
  <2>3. array' = << >> /\ cnt' = 0
    BY <1>7 DEF ObjDelete
  <2>4. Registered' = {}
    BY <2>3 DEF Registered
  <2>5. Cardinality(Registered') = 0
    BY <2>4, FS_EmptySet
  <2>6. QED
    BY <1>6, <2>2, <2>3, <2>5 DEF ArrInv
<1>8. CASE cnt # 1
  <2>1. /\ array' = [array EXCEPT ![own] = NoObject]
        /\ cnt' = cnt - 1
    BY <1>8 DEF ObjDelete
  <2>2. /\ array' \in Seq(Clients \cup {NoObject})
        /\ Len(array') = Len(array)
        /\ array'[own] = NoObject
        /\ \A i \in 1..Len(array) : i # own => array'[i] = array[i]
    BY <1>1, <2>1 DEF ArrInv
  <2>3. Registered' = Registered \ {own}
    BY <2>2 DEF Registered
  <2>4. cnt' = Cardinality(Registered') /\ cnt' \in Nat
    BY <1>3, <1>4, <2>1, <2>3, FS_CardinalityType DEF ArrInv
  <2>5. ASSUME NEW d \in Clients, Walking(d)'
        PROVE  walk'[d].fn = d /\ walk'[d].id < Len(array') /\ array'[walk'[d].id + 1] = d
    BY <1>5, <1>6, <2>2, <2>5 DEF ArrInv, Walking, Registered
  <2>6. QED
    BY <1>6, <2>2, <2>4, <2>5 DEF ArrInv
<1>9. QED
  BY <1>7, <1>8

(* What C reads with the identifier of a call is the function of that call. *)
LEMMA ObjReadOwn ==
  ASSUME ArrInv, NEW c \in Clients, ObjRead(c)
  PROVE  seen' = [seen EXCEPT ![c] = c] /\ walk[c].fn = c
BY DEF ArrInv, ObjRead

(* Every step on the array keeps the invariant and is a step of the         *)
(* registry.                                                                *)
LEMMA ArrStep ==
  ASSUME ArrInv, [ArrNext]_arrVars
  PROVE  ArrInv' /\ [Reg!Next]_<<[c \in Clients |-> walk[c].fn], seen>>
<1> DEFINE held == [c \in Clients |-> walk[c].fn]
<1> USE ObjArrayAssumption
<1>1. \A c \in Clients : Walking(c) => held[c] = c /\ held[c] # NoObject
  BY DEF ArrInv
<1>2. \A c \in Clients : ~Walking(c) => held[c] = NoObject
  BY DEF Walking, Idle
<1>3. ASSUME NEW c \in Clients, ObjCreate(c)
      PROVE  ArrInv' /\ Reg!Create(c, c)
  <2>1. held' = [held EXCEPT ![c] = c]
    BY <1>3 DEF ObjCreate, ArrInv
  <2>2. QED
    BY <1>2, <1>3, <2>1, ObjCreateInv DEF ObjCreate, Reg!Create
<1>4. ASSUME NEW c \in Clients, ObjRead(c)
      PROVE  ArrInv' /\ Reg!Read(c)
  <2>1. ArrInv'
    BY <1>4, ObjReadOwn DEF ArrInv, ObjRead, Registered, Walking
  <2>2. held[c] = c /\ held[c] # NoObject /\ UNCHANGED held
    BY <1>1, <1>4 DEF ObjRead
  <2>3. QED
    BY <1>4, <2>1, <2>2, ObjReadOwn DEF Reg!Read
<1>5. ASSUME NEW c \in Clients, Walking(c),
             walk' = [walk EXCEPT ![c] = Idle], seen' = [seen EXCEPT ![c] = NoObject]
      PROVE  Reg!Delete(c)
  <2>1. held' = [held EXCEPT ![c] = NoObject]
    BY <1>5 DEF ArrInv, Idle
  <2>2. QED
    BY <1>1, <1>5, <2>1 DEF Reg!Delete
<1>6. ASSUME NEW c \in Clients, WalkEnd(c)
      PROVE  ArrInv' /\ Reg!Delete(c)
  BY <1>5, <1>6, ObjDeleteInv DEF WalkEnd
<1>7. ASSUME NEW c \in Clients, WalkPanic(c)
      PROVE  ArrInv' /\ Reg!Delete(c)
  <2>1. CASE c \in Deferred
    BY <1>5, <1>7, <2>1, ObjDeleteInv DEF WalkPanic
  <2>2. CASE c \notin Deferred
    <3>1. UNCHANGED <<array, cnt>> /\ Reg!Delete(c)
      BY <1>5, <1>7, <2>2 DEF WalkPanic
    <3>2. ArrInv'
      BY <1>7, <2>2 DEF WalkPanic, ArrInv, Registered, Walking, Idle
    <3>3. QED
      BY <3>1, <3>2
  <2>3. QED
    BY <2>1, <2>2
<1>8. CASE UNCHANGED arrVars
  BY <1>8 DEF arrVars, ArrInv, Registered, Walking
<1>9. CASE ArrNext
  BY <1>3, <1>4, <1>6, <1>7, <1>9 DEF ArrNext, Reg!Next
<1>10. QED
  BY <1>8, <1>9

(* The array of common/objects.go by itself implements the registry. *)
THEOREM ObjArrayImplementsRegistry == ArrSpec => ReadsOwn
<1>1. ArrInit => Reg!Init
  BY DEF ArrInit, Reg!Init, Idle
<1>2. ArrInit => ArrInv
  BY ArrInitInv
<1>3. ArrInv /\ [ArrNext]_arrVars =>
        ArrInv' /\ [Reg!Next]_<<[c \in Clients |-> walk[c].fn], seen>>
  BY ArrStep
<1>4. QED
  BY <1>1, <1>2, <1>3, PTL DEF ArrSpec, ReadsOwn, Reg!Spec

(* Every step of the program is a step on the array or leaves it alone. *)
LEMMA NextIsArrStep == [Next]_vars => [ArrNext]_arrVars
BY DEF Next, vars, arrVars, appVars, ArrNext, CreateMbufPool, CreateRing, FreeRing, PoolFree,
       Send, Receive, ProducerReturns, ConsumerReturns, AllocResetAndAppend, PktMbufFreeBulk,
       WalkStart, Callback, WalkReturn, WalkPanics

(* In the program every callback of Walk and ObjIter reads the function of  *)
(* its own call, whatever producers, consumers and other iterations do.     *)
THEOREM CallbacksReadOwn == Spec => ReadsOwn
<1>1. Init => Reg!Init /\ ArrInv
  BY ArrInitInv DEF Init, ArrInit, Reg!Init, Idle
<1>2. ArrInv /\ [Next]_vars =>
        ArrInv' /\ [Reg!Next]_<<[c \in Clients |-> walk[c].fn], seen>>
  BY NextIsArrStep, ArrStep
<1>3. QED
  BY <1>1, <1>2, PTL DEF Spec, ReadsOwn, Reg!Spec

-----------------------------------------------------------------------------
(* Cursors that wrap around. *)

(* Remainders of numbers next to the divisor, by cases. *)
LEMMA Mod ==
  ASSUME NEW w \in Nat \ {0}, NEW x \in Int, -w <= x, x < 2 * w
  PROVE  x % w = IF x < 0 THEN x + w ELSE IF x < w THEN x ELSE x - w
OBVIOUS

(* A multiple of the divisor does not change the remainder. *)
LEMMA AddMultiple ==
  ASSUME NEW s \in Nat \ {0}, NEW k \in Nat, NEW x \in Nat
  PROVE  (s * k + x) % s = x % s
<1> DEFINE r == x % s
           q == x \div s
<1>1. q \in Nat /\ r \in 0..(s - 1) /\ x = s * q + r
  OBVIOUS
<1> HIDE DEF q, r
<1>2. s * k + (s * q + r) = s * (k + q) + r /\ k + q \in Nat
  BY <1>1
<1>3. (s * (k + q) + r) % s = r
  BY <1>1, <1>2
<1>4. QED
  BY <1>1, <1>2, <1>3 DEF r

(* Less than s steps apart, two positions have different slots. *)
LEMMA SlotsApart ==
  ASSUME NEW s \in Nat \ {0}, NEW a \in Nat, NEW x \in Nat, NEW y \in Nat, x < y, y - x < s
  PROVE  (a + x) % s # (a + y) % s
<1>1. SUFFICES ASSUME (a + x) % s = (a + y) % s PROVE FALSE
  OBVIOUS
<1> DEFINE r == (a + x) % s
           q1 == (a + x) \div s
           q2 == (a + y) \div s
<1>2. a + x = s * q1 + r /\ a + y = s * q2 + r /\ q1 \in Nat /\ q2 \in Nat /\ r \in Nat
  BY <1>1
<1> HIDE DEF q1, q2, r
<1>3. s * q2 - s * q1 > 0 /\ s * q2 - s * q1 < s /\ s * q2 \in Nat /\ s * q1 \in Nat
  BY <1>2
<1>4. CASE q2 <= q1
  <2>1. PICK d \in Nat : q1 = q2 + d
    BY <1>2, <1>4
  <2>2. s * q1 = s * q2 + s * d /\ s * d \in Nat
    BY <1>2, <2>1
  <2>3. QED
    BY <1>3, <2>2
<1>5. CASE q2 > q1
  <2>1. PICK d \in Nat : q2 = q1 + 1 + d
    <3>1. q2 - q1 - 1 \in Nat /\ q2 = q1 + 1 + (q2 - q1 - 1)
      BY <1>2, <1>5
    <3>2. QED
      BY <3>1
  <2>2. s * q2 = s * q1 + s + s * d /\ s * d \in Nat
    BY <1>2, <2>1
  <2>3. QED
    BY <1>3, <2>2
<1>6. QED
  BY <1>2, <1>4, <1>5

Cursor == 0..(Word - 1)

(* How far cursor c is ahead of cursor a. *)
Dist(a, c) == (c - a) % Word

(* The distance between two cursors, by cases. *)
LEMMA DistCase ==
  ASSUME NEW a \in Cursor, NEW c \in Cursor
  PROVE  Dist(a, c) = (IF a <= c THEN c - a ELSE c - a + Word) /\ Dist(a, c) \in Cursor
<1> DEFINE x == c - a
<1>1. /\ Word \in Nat \ {0} /\ a \in 0..(Word - 1) /\ c \in 0..(Word - 1)
  BY RingAssumption DEF Cursor
<1>2. x \in Int /\ -Word <= x /\ x < Word /\ x < 2 * Word /\ (x < 0 <=> ~(a <= c))
  BY <1>1
<1> HIDE DEF x
<1>3. x % Word = IF x < 0 THEN x + Word ELSE IF x < Word THEN x ELSE x - Word
  BY <1>1, <1>2, Mod
<1>4. x % Word = (IF a <= c THEN x ELSE x + Word) /\ x % Word \in 0..(Word - 1)
  BY <1>1, <1>2, <1>3
<1>5. QED
  BY <1>4 DEF Dist, x, Cursor

(* A cursor that moves, by cases. *)
LEMMA WrapCase ==
  ASSUME NEW a \in Cursor, NEW n \in Nat, n < Word
  PROVE  /\ (a + n) % Word = IF a + n < Word THEN a + n ELSE (a + n) - Word
         /\ (a + n) % Word \in Cursor
<1> DEFINE x == a + n
<1>1. Word \in Nat \ {0} /\ a \in 0..(Word - 1)
  BY RingAssumption DEF Cursor
<1>2. x \in Int /\ -Word <= x /\ x < 2 * Word /\ ~(x < 0)
  BY <1>1
<1> HIDE DEF x
<1>3. x % Word = IF x < 0 THEN x + Word ELSE IF x < Word THEN x ELSE x - Word
  BY <1>1, <1>2, Mod
<1>4. x % Word = (IF x < Word THEN x ELSE x - Word) /\ x % Word \in Cursor
  BY <1>1, <1>2, <1>3 DEF Cursor
<1>5. QED
  BY <1>4 DEF x

(* A cursor is at distance zero from itself. *)
LEMMA DistSelf ==
  ASSUME NEW a \in Cursor
  PROVE  Dist(a, a) = 0
<1>1. a \in Int /\ a <= a
  BY RingAssumption DEF Cursor
<1>2. QED
  BY <1>1, DistCase

(* A cursor moves ahead. *)
LEMMA DistAdvance ==
  ASSUME NEW a \in Cursor, NEW c \in Cursor, NEW g \in Nat, Dist(a, c) + g < Word
  PROVE  (c + g) % Word \in Cursor /\ Dist(a, (c + g) % Word) = Dist(a, c) + g
<1> DEFINE d == (c + g) % Word
<1>1. Word \in Nat \ {0} /\ a \in 0..(Word - 1) /\ c \in 0..(Word - 1)
  BY RingAssumption DEF Cursor
<1>2. Dist(a, c) = (IF a <= c THEN c - a ELSE c - a + Word) /\ Dist(a, c) \in 0..(Word - 1)
  BY DistCase DEF Cursor
<1>3. g < Word
  BY <1>1, <1>2
<1>4. d = (IF c + g < Word THEN c + g ELSE (c + g) - Word) /\ d \in Cursor
  BY <1>3, WrapCase
<1> HIDE DEF d
<1>5. Dist(a, d) = IF a <= d THEN d - a ELSE d - a + Word
  BY <1>4, DistCase
<1>6. Dist(a, d) = Dist(a, c) + g
  BY <1>1, <1>2, <1>4, <1>5
<1>7. QED
  BY <1>4, <1>6 DEF d

(* The cursor that is measured from moves ahead. *)
LEMMA DistShift ==
  ASSUME NEW a \in Cursor, NEW c \in Cursor, NEW g \in Nat, g <= Dist(a, c)
  PROVE  (a + g) % Word \in Cursor /\ Dist((a + g) % Word, c) = Dist(a, c) - g
<1> DEFINE d == (a + g) % Word
<1>1. Word \in Nat \ {0} /\ a \in 0..(Word - 1) /\ c \in 0..(Word - 1)
  BY RingAssumption DEF Cursor
<1>2. Dist(a, c) = (IF a <= c THEN c - a ELSE c - a + Word) /\ Dist(a, c) \in 0..(Word - 1)
  BY DistCase DEF Cursor
<1>3. g < Word
  BY <1>1, <1>2
<1>4. d = (IF a + g < Word THEN a + g ELSE (a + g) - Word) /\ d \in Cursor
  BY <1>3, WrapCase
<1> HIDE DEF d
<1>5. Dist(d, c) = IF d <= c THEN c - d ELSE c - d + Word
  BY <1>4, DistCase
<1>6. Dist(d, c) = Dist(a, c) - g
  BY <1>1, <1>2, <1>4, <1>5
<1>7. QED
  BY <1>4, <1>6 DEF d

(* The distance of two cursors ahead of a, and of what is left of n. *)
LEMMA DistDiff ==
  ASSUME NEW a \in Cursor, NEW c \in Cursor, NEW d \in Cursor, Dist(a, c) <= Dist(a, d)
  PROVE  Dist(c, d) = Dist(a, d) - Dist(a, c)
<1>1. Word \in Nat \ {0} /\ a \in 0..(Word - 1) /\ c \in 0..(Word - 1) /\ d \in 0..(Word - 1)
  BY RingAssumption DEF Cursor
<1>2. /\ Dist(a, c) = IF a <= c THEN c - a ELSE c - a + Word
      /\ Dist(a, d) = IF a <= d THEN d - a ELSE d - a + Word
      /\ Dist(c, d) = IF c <= d THEN d - c ELSE d - c + Word
  BY DistCase
<1>3. QED
  BY <1>1, <1>2

(* The free slots as rte_ring computes them, on words that wrap. *)
LEMMA DistRoom ==
  ASSUME NEW a \in Cursor, NEW c \in Cursor, NEW n \in Nat, n < Word, Dist(a, c) <= n
  PROVE  (n + a - c) % Word = n - Dist(a, c)
<1> DEFINE x == n + a - c
<1>1. Word \in Nat \ {0} /\ a \in 0..(Word - 1) /\ c \in 0..(Word - 1)
  BY RingAssumption DEF Cursor
<1>2. Dist(a, c) = IF a <= c THEN c - a ELSE c - a + Word
  BY DistCase
<1>3. x \in Int /\ -Word <= x /\ x < 2 * Word
  BY <1>1
<1>4. n - Dist(a, c) = IF x < 0 THEN x + Word ELSE IF x < Word THEN x ELSE x - Word
  BY <1>1, <1>2
<1> HIDE DEF x
<1>5. x % Word = IF x < 0 THEN x + Word ELSE IF x < Word THEN x ELSE x - Word
  BY <1>1, <1>3, Mod
<1>6. QED
  BY <1>4, <1>5 DEF x

(* The slot at a cursor is the one at its distance from another cursor, as *)
(* the size of the table divides the size of the word.                     *)
LEMMA SlotAt ==
  ASSUME NEW s \in Nat \ {0}, Word % s = 0, NEW a \in Cursor, NEW c \in Cursor, NEW j \in Nat
  PROVE  (c + j) % s = (a + Dist(a, c) + j) % s
<1>1. Word \in Nat \ {0} /\ a \in 0..(Word - 1) /\ c \in 0..(Word - 1)
  BY RingAssumption DEF Cursor
<1>2. Dist(a, c) = (IF a <= c THEN c - a ELSE c - a + Word) /\ Dist(a, c) \in 0..(Word - 1)
  BY DistCase DEF Cursor
<1>3. PICK k \in Nat : Word = s * k
  <2>1. Word \div s \in Nat /\ Word = s * (Word \div s) + (Word % s)
    BY <1>1
  <2> DEFINE q == Word \div s
  <2> HIDE DEF q
  <2>2. q \in Nat /\ Word = s * q + 0 /\ s * q \in Nat
    BY <2>1 DEF q
  <2>3. QED
    BY <2>2
<1>4. CASE a <= c
  <2>1. a + Dist(a, c) + j = c + j
    BY <1>1, <1>2, <1>4
  <2>2. QED
    BY <2>1
<1>5. CASE ~(a <= c)
  <2>1. a + Dist(a, c) + j = Word + (c + j) /\ c + j \in Nat
    BY <1>1, <1>2, <1>5
  <2> DEFINE x == c + j
  <2> HIDE DEF x
  <2>2. (s * k + x) % s = x % s
    BY <2>1, AddMultiple DEF x
  <2>3. QED
    BY <1>3, <2>1, <2>2 DEF x
<1>6. QED
  BY <1>4, <1>5

-----------------------------------------------------------------------------
(* The invariant of the ring.  All cursors are measured from the tail of   *)
(* the consumers: from there the reservations of consumers, the objects    *)
(* ready to be reserved and the reservations of producers follow each      *)
(* other, no further than the capacity, which is below the table's size.   *)

Off(x) == Dist(cons.tail, x)
From(t) == Off(op[t].at)
Upto(t) == Off(op[t].at) + op[t].n

RingTypeOK ==
  /\ ring \in [size : Nat \ {0}, cap : Nat, mem : Nat]
  /\ ring.cap < ring.size /\ Word % ring.size = 0
  /\ prod \in [head : Cursor, tail : Cursor]
  /\ cons \in [head : Cursor, tail : Cursor]
  /\ op \in [Threads -> [at : Cursor, n : Nat]]
  /\ \A t \in Threads : op[t].n = 0 => op[t] = NoOp
  /\ hold \in [Threads -> Seq(Mbufs)]
  /\ DOMAIN slots = 0..(ring.size - 1)

CursorInv ==
  /\ Off(cons.head) <= Off(prod.tail)
  /\ Off(prod.tail) <= Off(prod.head)
  /\ Off(prod.head) <= ring.cap

(* Reservations of threads of the same kind do not overlap. *)
Apart(T) ==
  \A t, u \in T : t # u /\ op[t].n > 0 /\ op[u].n > 0 => Upto(t) <= From(u) \/ Upto(u) <= From(t)

OpInv ==
  /\ \A p \in Producers : op[p].n > 0 =>
       Off(prod.tail) <= From(p) /\ Upto(p) <= Off(prod.head) /\ op[p].n <= Len(hold[p])
  /\ \A c \in Consumers : op[c].n > 0 => Upto(c) <= Off(cons.head)
  /\ Apart(Producers) /\ Apart(Consumers)

(* Nothing between a head and its tail belongs to no call in progress. *)
CoverInv ==
  /\ \A x \in Nat : x < Off(cons.head) =>
       \E c \in Consumers : op[c].n > 0 /\ From(c) <= x /\ x < Upto(c)
  /\ \A x \in Nat : Off(prod.tail) <= x /\ x < Off(prod.head) =>
       \E p \in Producers : op[p].n > 0 /\ From(p) <= x /\ x < Upto(p)

FullInv == \A x \in Nat : x < Off(prod.tail) => slots[(cons.tail + x) % ring.size] \in Mbufs

RingInv == RingTypeOK /\ CursorInv /\ OpInv /\ CoverInv /\ FullInv

(* Offsets and lengths are natural numbers. *)
LEMMA OffTypes ==
  ASSUME RingTypeOK
  PROVE  /\ \A x \in Cursor : Off(x) \in Nat
         /\ Off(cons.head) \in Nat /\ Off(prod.tail) \in Nat /\ Off(prod.head) \in Nat
         /\ \A t \in Threads : op[t].n \in Nat /\ From(t) \in Nat /\ Upto(t) \in Nat
         /\ ring.size <= Word /\ ring.cap < Word /\ ring.cap \in Nat /\ ring.size \in Nat \ {0}
<1>1. \A x \in Cursor : Off(x) \in Nat
  BY DistCase DEF RingTypeOK, Off, Cursor
<1>2. Off(cons.head) \in Nat /\ Off(prod.tail) \in Nat /\ Off(prod.head) \in Nat
  BY <1>1 DEF RingTypeOK
<1>3. \A t \in Threads : op[t].n \in Nat /\ From(t) \in Nat
  BY <1>1 DEF RingTypeOK, From
<1>4. \A t \in Threads : Upto(t) \in Nat
  BY <1>3 DEF From, Upto
<1>5. /\ Word \in Nat \ {0} /\ ring.size \in Nat \ {0} /\ Word % ring.size = 0 /\ ring.cap \in Nat
      /\ ring.cap < ring.size
  BY RingAssumption DEF RingTypeOK
<1>6. ring.size <= Word
  <2> DEFINE z == ring.size
  <2> HIDE DEF z
  <2>1. Word \in Nat \ {0} /\ z \in Nat \ {0} /\ Word % z = 0
    BY <1>5 DEF z
  <2>2. SUFFICES ASSUME Word < z PROVE FALSE
    BY <2>1 DEF z
  <2>3. Word % z = Word
    BY <2>1, <2>2
  <2>4. QED
    BY <2>1, <2>3
<1>7. QED
  BY <1>1, <1>2, <1>3, <1>4, <1>5, <1>6

-----------------------------------------------------------------------------
(* Steps of the ring. *)

(* The sizes of tables. *)
LEMMA Pow2sSet ==
  Pow2s = {1, 2, 4, 8, 16, 32, 64, 128, 256, 512, 1024, 2048, 4096, 8192, 16384, 32768, 65536,
           131072, 262144, 524288, 1048576, 2097152, 4194304, 8388608, 16777216, 33554432,
           67108864, 134217728, 268435456, 536870912, 1073741824}
BY SMT DEF Pow2s

(* Table sizes: a power of two that divides the number of cursors and *)
(* exceeds the count asked for.                                       *)
LEMMA AlignFacts ==
  ASSUME NEW n \in Counts
  PROVE  /\ cuint(n) \in Nat
         /\ AlignPow2(cuint(n) + 1) \in Nat \ {0} /\ cuint(n) < AlignPow2(cuint(n) + 1)
         /\ Word % AlignPow2(cuint(n) + 1) = 0
         /\ cuint(n) \in Pow2s => Word % cuint(n) = 0
<1> DEFINE c == cuint(n)
           k == c + 1
<1>1. c < 2^30 /\ Word % AlignPow2(k) = 0 /\ (c \in Pow2s => Word % c = 0)
  BY RingAssumption
<1>2. c \in Nat
  BY RingAssumption DEF cuint
<1> HIDE DEF c
<1>3. k \in 1..(2^30)
  BY <1>1, <1>2, SMT
<1>4. c < k /\ k \in Nat
  BY <1>2, SMT
<1> HIDE DEF k
<1>5. PICK j \in 0..30 : k <= 2^j /\ 2^j < 2 * k
  BY <1>3, SMT
<1>6. \E z \in Pow2s : k <= z /\ z < 2 * k
  BY <1>5 DEF Pow2s
<1>7. AlignPow2(k) \in Pow2s /\ k <= AlignPow2(k)
  BY <1>6 DEF AlignPow2
<1>8. Pow2s \subseteq Nat \ {0}
  BY Pow2sSet, SMT
<1> DEFINE a == AlignPow2(k)
<1>9. a \in Nat \ {0} /\ k <= a
  BY <1>7, <1>8
<1> HIDE DEF a
<1>10. c < a
  BY <1>2, <1>4, <1>9
<1>11. QED
  BY <1>1, <1>2, <1>9, <1>10 DEF a, k, c

(* The tables that Init makes. *)
LEMMA InitFacts ==
  ASSUME NEW n \in Counts, NEW exact \in BOOLEAN, RteRingInit(cuint(n), exact).size # 0
  PROVE  /\ RteRingInit(cuint(n), exact).size \in Nat \ {0}
         /\ RteRingInit(cuint(n), exact).cap \in Nat
         /\ RteRingInit(cuint(n), exact).cap < RteRingInit(cuint(n), exact).size
         /\ Word % RteRingInit(cuint(n), exact).size = 0
<1> DEFINE c == cuint(n)
           a == AlignPow2(c + 1)
<1>1. c \in Nat /\ a \in Nat \ {0} /\ c < a /\ Word % a = 0 /\ (c \in Pow2s => Word % c = 0)
  BY AlignFacts
<1> HIDE DEF c
<1>2. CASE exact
  <2>1. RteRingInit(c, exact) = [size |-> a, cap |-> c]
    BY <1>2 DEF RteRingInit
  <2> HIDE DEF a
  <2>2. RteRingInit(c, exact).size = a /\ RteRingInit(c, exact).cap = c
    BY <2>1
  <2>3. QED
    BY <1>1, <2>2 DEF c
<1>3. CASE ~exact /\ c = 0
  <2>1. RteRingInit(c, exact) = [size |-> Word, cap |-> Word - 1]
    BY <1>3 DEF RteRingInit
  <2>2. Word \in Nat \ {0} /\ Word - 1 \in Nat /\ Word - 1 < Word /\ Word % Word = 0
    BY RingAssumption
  <2>3. QED
    BY <2>1, <2>2 DEF c
<1>4. CASE ~exact /\ c # 0
  <2>1. c \in Pow2s /\ RteRingInit(c, exact) = [size |-> c, cap |-> c - 1]
    BY <1>4 DEF RteRingInit, POWEROF2, c
  <2>2. c \in Nat \ {0} /\ c - 1 \in Nat /\ c - 1 < c
    BY <1>1, <1>4
  <2>3. QED
    BY <1>1, <2>1, <2>2 DEF c
<1>5. QED
  BY <1>2, <1>3, <1>4

(* A ring without reservations whose cursors are at zero. *)
Fresh ==
  /\ ring \in [size : Nat \ {0}, cap : Nat, mem : Nat]
  /\ ring.cap < ring.size /\ Word % ring.size = 0
  /\ prod = [head |-> 0, tail |-> 0] /\ cons = [head |-> 0, tail |-> 0]
  /\ op = [t \in Threads |-> NoOp] /\ hold \in [Threads -> Seq(Mbufs)]
  /\ slots = Empty(ring.size)

(* A ring that was just made satisfies the invariant. *)
LEMMA FreshInv == Fresh => RingInv
<1> SUFFICES ASSUME Fresh PROVE RingInv
  OBVIOUS
<1>1. 0 \in Cursor
  BY RingAssumption DEF Cursor
<1>2. RingTypeOK
  BY <1>1 DEF Fresh, RingTypeOK, NoOp, Empty
<1>3. Dist(0, 0) = 0
  BY <1>1, DistSelf
<1>4. Off(cons.head) = 0 /\ Off(prod.tail) = 0 /\ Off(prod.head) = 0
  BY <1>3 DEF Fresh, Off
<1>5. CursorInv /\ CoverInv /\ FullInv
  BY <1>4 DEF Fresh, CursorInv, CoverInv, FullInv
<1>6. \A t \in Threads : op[t].n = 0
  BY DEF Fresh, NoOp
<1>7. OpInv
  BY <1>6 DEF OpInv, Apart, Threads
<1>8. QED
  BY <1>2, <1>5, <1>7 DEF RingInv

(* What a call is granted is no more than it asks for, and than the room. *)
LEMMA GrantedFacts ==
  ASSUME NEW n \in Nat, NEW room \in Nat, NEW bulk \in BOOLEAN
  PROVE  Granted(n, room, bulk) \in Nat /\ Granted(n, room, bulk) <= n
         /\ Granted(n, room, bulk) <= room
BY DEF Granted

(* The reservation of an enqueue starts at the head and ends within the    *)
(* capacity.                                                               *)
LEMMA EnqueueFacts ==
  ASSUME RingInv, NEW p \in Producers, NEW n \in Nat, NEW bulk \in BOOLEAN, Enqueue(p, n, bulk)
  PROVE  \E g \in Nat \ {0} :
           /\ g <= Len(hold[p])
           /\ op' = [op EXCEPT ![p] = [at |-> prod.head, n |-> g]]
           /\ prod' = [prod EXCEPT !.head = (prod.head + g) % Word]
           /\ (prod.head + g) % Word \in Cursor
           /\ Off(prod.head) + g <= ring.cap
           /\ Dist(cons.tail, (prod.head + g) % Word) = Off(prod.head) + g
           /\ UNCHANGED <<ring, slots, cons, hold>>
<1> DEFINE g == Granted(n, FreeCount, bulk)
<1>1. /\ cons.tail \in Cursor /\ prod.head \in Cursor /\ ring.cap \in Nat /\ ring.cap < Word
      /\ Off(prod.head) \in Nat /\ Off(prod.head) <= ring.cap /\ Len(hold[p]) \in Nat
  BY OffTypes DEF RingInv, RingTypeOK, CursorInv, Threads
<1>2. FreeCount = ring.cap - Off(prod.head)
  BY <1>1, DistRoom DEF FreeCount, Off
<1>3. FreeCount \in Nat
  BY <1>1, <1>2
<1>4. g \in Nat /\ g <= n /\ g <= FreeCount
  BY <1>3, GrantedFacts
<1>5. /\ g > 0 /\ n <= Len(hold[p])
      /\ op' = [op EXCEPT ![p] = [at |-> prod.head, n |-> g]]
      /\ prod' = [prod EXCEPT !.head = (prod.head + g) % Word]
      /\ UNCHANGED <<ring, slots, cons, hold>>
  BY <1>1 DEF Enqueue, Reserve, RingInv, RingTypeOK
<1> HIDE DEF g
<1>6. g \in Nat \ {0} /\ g <= Len(hold[p]) /\ Off(prod.head) + g <= ring.cap
  BY <1>1, <1>2, <1>4, <1>5
<1>7. Dist(cons.tail, prod.head) + g < Word
  BY <1>1, <1>6, RingAssumption DEF Off
<1>8. /\ (prod.head + g) % Word \in Cursor
      /\ Dist(cons.tail, (prod.head + g) % Word) = Off(prod.head) + g
  BY <1>1, <1>6, <1>7, DistAdvance DEF Off
<1>9. QED
  BY <1>5, <1>6, <1>8

(* Reserving slots for an enqueue keeps the invariant of the ring. *)
LEMMA EnqueueInv ==
  ASSUME RingInv, NEW p \in Producers, NEW n \in Nat, NEW bulk \in BOOLEAN, Enqueue(p, n, bulk)
  PROVE  RingInv'
<1>1. PICK g \in Nat \ {0} :
           /\ g <= Len(hold[p])
           /\ op' = [op EXCEPT ![p] = [at |-> prod.head, n |-> g]]
           /\ prod' = [prod EXCEPT !.head = (prod.head + g) % Word]
           /\ (prod.head + g) % Word \in Cursor
           /\ Off(prod.head) + g <= ring.cap
           /\ Dist(cons.tail, (prod.head + g) % Word) = Off(prod.head) + g
           /\ UNCHANGED <<ring, slots, cons, hold>>
  BY EnqueueFacts
<1>2. p \in Threads /\ p \notin Consumers /\ RingTypeOK
  BY RingAssumption DEF Threads, RingInv
<1>3. /\ prod'.tail = prod.tail /\ prod'.head = (prod.head + g) % Word
      /\ prod' \in [head : Cursor, tail : Cursor]
  BY <1>1, <1>2 DEF RingTypeOK
<1>4. RingTypeOK'
  BY <1>1, <1>2, <1>3 DEF RingTypeOK
<1>5. /\ Off(cons.head)' = Off(cons.head) /\ Off(prod.tail)' = Off(prod.tail)
      /\ Off(prod.head)' = Off(prod.head) + g
  BY <1>1, <1>3 DEF Off
<1>6. op'[p].n = g /\ From(p)' = Off(prod.head) /\ Upto(p)' = Off(prod.head) + g
  BY <1>1, <1>2 DEF From, Upto, Off, RingTypeOK
<1>7. \A t \in Threads \ {p} : op'[t] = op[t] /\ From(t)' = From(t) /\ Upto(t)' = Upto(t)
  BY <1>1, <1>2 DEF From, Upto, Off, RingTypeOK
<1>8. /\ Off(cons.head) \in Nat /\ Off(prod.tail) \in Nat /\ Off(prod.head) \in Nat
      /\ \A t \in Threads : op[t].n \in Nat /\ From(t) \in Nat /\ Upto(t) \in Nat
      /\ ring.cap \in Nat
  BY <1>2, OffTypes
<1>9. CursorInv'
  BY <1>1, <1>5, <1>8 DEF RingInv, CursorInv
<1>10. OpInv'
  <2>1. \A q \in Producers \ {p} : op'[q].n > 0 =>
          /\ (Off(prod.tail) <= From(q))' /\ (Upto(q) <= Off(prod.head))'
          /\ op'[q].n <= Len(hold'[q]) /\ Upto(q)' <= From(p)'
    BY <1>1, <1>5, <1>6, <1>7, <1>8 DEF RingInv, OpInv, Threads
  <2>2. (Off(prod.tail) <= From(p))' /\ (Upto(p) <= Off(prod.head))' /\ op'[p].n <= Len(hold'[p])
    BY <1>1, <1>5, <1>6, <1>8 DEF RingInv, CursorInv
  <2>3. \A c \in Consumers : op'[c].n > 0 => (Upto(c) <= Off(cons.head))'
    BY <1>2, <1>5, <1>7 DEF RingInv, OpInv, Threads
  <2>4. Apart(Producers)'
    BY <1>7, <2>1 DEF RingInv, OpInv, Apart, Threads
  <2>5. Apart(Consumers)'
    BY <1>2, <1>7 DEF RingInv, OpInv, Apart, Threads
  <2>6. QED
    BY <2>1, <2>2, <2>3, <2>4, <2>5 DEF OpInv
<1>11. CoverInv'
  <2>1. ASSUME NEW x \in Nat, x < Off(cons.head)'
        PROVE  \E c \in Consumers : (op[c].n > 0)' /\ From(c)' <= x /\ x < Upto(c)'
    <3>1. PICK c \in Consumers : op[c].n > 0 /\ From(c) <= x /\ x < Upto(c)
      BY <1>5, <2>1 DEF RingInv, CoverInv
    <3>2. c \in Threads \ {p}
      BY <1>2 DEF Threads
    <3>3. QED
      BY <1>7, <3>1, <3>2
  <2>2. ASSUME NEW x \in Nat, Off(prod.tail)' <= x, x < Off(prod.head)'
        PROVE  \E q \in Producers : (op[q].n > 0)' /\ From(q)' <= x /\ x < Upto(q)'
    <3>1. CASE Off(prod.head) <= x
      BY <1>5, <1>6, <1>8, <2>2, <3>1
    <3>2. CASE ~(Off(prod.head) <= x)
      <4>1. PICK q \in Producers : op[q].n > 0 /\ From(q) <= x /\ x < Upto(q)
        BY <1>5, <1>8, <2>2, <3>2 DEF RingInv, CoverInv
      <4>2. q \in Threads \ {p}
        <5>1. op[p] = NoOp
          BY DEF Enqueue
        <5>2. QED
          BY <4>1, <5>1 DEF Threads, NoOp
      <4>3. QED
        BY <1>7, <4>1, <4>2
    <3>3. QED
      BY <3>1, <3>2
  <2>3. QED
    BY <2>1, <2>2 DEF CoverInv
<1>12. FullInv'
  BY <1>1, <1>5 DEF RingInv, FullInv
<1>13. QED
  BY <1>4, <1>9, <1>10, <1>11, <1>12 DEF RingInv

(* The reservation of a dequeue starts at the head and ends before the     *)
(* tail of the producers.                                                  *)
LEMMA DequeueFacts ==
  ASSUME RingInv, NEW c \in Consumers, NEW n \in Nat, NEW bulk \in BOOLEAN, Dequeue(c, n, bulk)
  PROVE  \E g \in Nat \ {0} :
           /\ op' = [op EXCEPT ![c] = [at |-> cons.head, n |-> g]]
           /\ cons' = [cons EXCEPT !.head = (cons.head + g) % Word]
           /\ (cons.head + g) % Word \in Cursor
           /\ Off(cons.head) + g <= Off(prod.tail)
           /\ Dist(cons.tail, (cons.head + g) % Word) = Off(cons.head) + g
           /\ UNCHANGED <<ring, slots, prod, hold>>
<1> DEFINE g == Granted(n, Available, bulk)
<1>1. /\ cons.tail \in Cursor /\ cons.head \in Cursor /\ prod.tail \in Cursor
      /\ Off(cons.head) \in Nat /\ Off(prod.tail) \in Nat /\ Off(prod.head) \in Nat
      /\ ring.cap \in Nat /\ ring.cap < Word
      /\ Off(cons.head) <= Off(prod.tail) /\ Off(prod.tail) <= ring.cap
  BY OffTypes DEF RingInv, RingTypeOK, CursorInv
<1>2. Available = Off(prod.tail) - Off(cons.head)
  BY <1>1, DistDiff DEF Available, Off, Dist
<1>3. Available \in Nat
  BY <1>1, <1>2
<1>4. g \in Nat /\ g <= Available
  BY <1>3, GrantedFacts
<1>5. /\ g > 0
      /\ op' = [op EXCEPT ![c] = [at |-> cons.head, n |-> g]]
      /\ cons' = [cons EXCEPT !.head = (cons.head + g) % Word]
      /\ UNCHANGED <<ring, slots, prod, hold>>
  BY <1>1 DEF Dequeue, Reserve, RingInv, RingTypeOK
<1> HIDE DEF g
<1>6. g \in Nat \ {0} /\ Off(cons.head) + g <= Off(prod.tail)
  BY <1>1, <1>2, <1>4, <1>5
<1>7. Dist(cons.tail, cons.head) + g < Word
  BY <1>1, <1>6, RingAssumption DEF Off
<1>8. /\ (cons.head + g) % Word \in Cursor
      /\ Dist(cons.tail, (cons.head + g) % Word) = Off(cons.head) + g
  BY <1>1, <1>6, <1>7, DistAdvance DEF Off
<1>9. QED
  BY <1>5, <1>6, <1>8

(* Reserving slots for a dequeue keeps the invariant of the ring. *)
LEMMA DequeueInv ==
  ASSUME RingInv, NEW c \in Consumers, NEW n \in Nat, NEW bulk \in BOOLEAN, Dequeue(c, n, bulk)
  PROVE  RingInv'
<1>1. PICK g \in Nat \ {0} :
           /\ op' = [op EXCEPT ![c] = [at |-> cons.head, n |-> g]]
           /\ cons' = [cons EXCEPT !.head = (cons.head + g) % Word]
           /\ (cons.head + g) % Word \in Cursor
           /\ Off(cons.head) + g <= Off(prod.tail)
           /\ Dist(cons.tail, (cons.head + g) % Word) = Off(cons.head) + g
           /\ UNCHANGED <<ring, slots, prod, hold>>
  BY DequeueFacts
<1>2. c \in Threads /\ c \notin Producers /\ RingTypeOK
  BY RingAssumption DEF Threads, RingInv
<1>3. /\ cons'.tail = cons.tail /\ cons'.head = (cons.head + g) % Word
      /\ cons' \in [head : Cursor, tail : Cursor]
  BY <1>1, <1>2 DEF RingTypeOK
<1>4. RingTypeOK'
  BY <1>1, <1>2, <1>3 DEF RingTypeOK
<1>5. /\ Off(cons.head)' = Off(cons.head) + g /\ Off(prod.tail)' = Off(prod.tail)
      /\ Off(prod.head)' = Off(prod.head)
  BY <1>1, <1>3 DEF Off
<1>6. op'[c].n = g /\ From(c)' = Off(cons.head) /\ Upto(c)' = Off(cons.head) + g
  BY <1>1, <1>2, <1>3 DEF From, Upto, Off, RingTypeOK
<1>7. \A t \in Threads \ {c} : op'[t] = op[t] /\ From(t)' = From(t) /\ Upto(t)' = Upto(t)
  BY <1>1, <1>2, <1>3 DEF From, Upto, Off, RingTypeOK
<1>8. /\ Off(cons.head) \in Nat /\ Off(prod.tail) \in Nat /\ Off(prod.head) \in Nat
      /\ \A t \in Threads : op[t].n \in Nat /\ From(t) \in Nat /\ Upto(t) \in Nat
      /\ ring.cap \in Nat
  BY <1>2, OffTypes
<1>9. CursorInv'
  BY <1>1, <1>5, <1>8 DEF RingInv, CursorInv
<1>10. OpInv'
  <2>1. \A d \in Consumers \ {c} : op'[d].n > 0 =>
          (Upto(d) <= Off(cons.head))' /\ Upto(d)' <= From(c)'
    BY <1>5, <1>6, <1>7, <1>8 DEF RingInv, OpInv, Threads
  <2>2. (Upto(c) <= Off(cons.head))'
    BY <1>5, <1>6, <1>8
  <2>3. \A p \in Producers : op'[p].n > 0 =>
          (Off(prod.tail) <= From(p))' /\ (Upto(p) <= Off(prod.head))' /\ op'[p].n <= Len(hold'[p])
    BY <1>1, <1>2, <1>5, <1>7 DEF RingInv, OpInv, Threads
  <2>4. Apart(Consumers)'
    BY <1>7, <2>1 DEF RingInv, OpInv, Apart, Threads
  <2>5. Apart(Producers)'
    BY <1>2, <1>7 DEF RingInv, OpInv, Apart, Threads
  <2>6. QED
    BY <2>1, <2>2, <2>3, <2>4, <2>5 DEF OpInv
<1>11. CoverInv'
  <2>1. ASSUME NEW x \in Nat, Off(prod.tail)' <= x, x < Off(prod.head)'
        PROVE  \E q \in Producers : (op[q].n > 0)' /\ From(q)' <= x /\ x < Upto(q)'
    <3>1. PICK q \in Producers : op[q].n > 0 /\ From(q) <= x /\ x < Upto(q)
      BY <1>5, <2>1 DEF RingInv, CoverInv
    <3>2. q \in Threads \ {c}
      BY <1>2 DEF Threads
    <3>3. QED
      BY <1>7, <3>1, <3>2
  <2>2. ASSUME NEW x \in Nat, x < Off(cons.head)'
        PROVE  \E d \in Consumers : (op[d].n > 0)' /\ From(d)' <= x /\ x < Upto(d)'
    <3>1. CASE Off(cons.head) <= x
      BY <1>5, <1>6, <1>8, <2>2, <3>1
    <3>2. CASE ~(Off(cons.head) <= x)
      <4>1. PICK d \in Consumers : op[d].n > 0 /\ From(d) <= x /\ x < Upto(d)
        BY <1>5, <1>8, <2>2, <3>2 DEF RingInv, CoverInv
      <4>2. d \in Threads \ {c}
        <5>1. op[c] = NoOp
          BY DEF Dequeue
        <5>2. QED
          BY <4>1, <5>1 DEF Threads, NoOp
      <4>3. QED
        BY <1>7, <4>1, <4>2
    <3>3. QED
      BY <3>1, <3>2
  <2>3. QED
    BY <2>1, <2>2 DEF CoverInv
<1>12. FullInv'
  BY <1>1, <1>3, <1>5 DEF RingInv, FullInv
<1>13. QED
  BY <1>4, <1>9, <1>10, <1>11, <1>12 DEF RingInv

(* The slot at offset x from the tail of the consumers. *)
Slot(x) == (cons.tail + x) % ring.size

(* Offsets below the size of the table have slots of their own. *)
LEMMA SlotFacts ==
  ASSUME RingTypeOK
  PROVE  /\ \A x \in Nat : Slot(x) \in DOMAIN slots
         /\ \A x, y \in Nat : x < ring.size /\ y < ring.size /\ Slot(x) = Slot(y) => x = y
         /\ \A t \in Threads, j \in Nat \ {0} :
              (op[t].at + j - 1) % ring.size = Slot(From(t) + (j - 1))
<1> DEFINE z == ring.size
           a == cons.tail
<1>1. /\ z \in Nat \ {0} /\ a \in Nat /\ a \in Cursor /\ Word % z = 0 /\ DOMAIN slots = 0..(z - 1)
      /\ \A t \in Threads : op[t].at \in Cursor /\ From(t) \in Nat
  <2>1. /\ z \in Nat \ {0} /\ a \in Cursor /\ Word % z = 0 /\ DOMAIN slots = 0..(z - 1)
        /\ \A t \in Threads : op[t].at \in Cursor
    BY DEF RingTypeOK
  <2>2. Cursor \subseteq Nat
    BY RingAssumption DEF Cursor
  <2>3. QED
    BY <2>1, <2>2, OffTypes
<1>2. \A x \in Nat : Slot(x) = (a + x) % z
  BY DEF Slot
<1>3. \A t \in Threads : From(t) = Dist(a, op[t].at)
  BY DEF From, Off
<1> HIDE DEF z, a
<1>4. ASSUME NEW x \in Nat PROVE (a + x) % z \in 0..(z - 1)
  <2> DEFINE y == a + x
  <2>1. y \in Nat
    BY <1>1
  <2> HIDE DEF y
  <2>2. y % z \in 0..(z - 1)
    BY <1>1, <2>1
  <2>3. QED
    BY <2>2 DEF y
<1>5. ASSUME NEW x \in Nat, NEW y \in Nat, x < z, y < z, x # y PROVE (a + x) % z # (a + y) % z
  <2>1. CASE x < y
    <3>1. y - x < z
      BY <1>1, <1>5
    <3>2. QED
      BY <1>1, <2>1, <3>1, SlotsApart
  <2>2. CASE y < x
    <3>1. x - y < z
      BY <1>1, <1>5
    <3>2. QED
      BY <1>1, <2>2, <3>1, SlotsApart
  <2>3. QED
    BY <1>5, <2>1, <2>2
<1>6. ASSUME NEW t \in Threads, NEW j \in Nat \ {0}
      PROVE  (op[t].at + j - 1) % z = (a + (From(t) + (j - 1))) % z
  <2> DEFINE i == j - 1
             b == op[t].at
             f == From(t)
  <2>1. i \in Nat /\ f = Dist(a, b) /\ f \in Nat /\ b \in Cursor
    BY <1>1, <1>3, <1>6
  <2>2. op[t].at + j - 1 = b + i
    OBVIOUS
  <2> HIDE DEF i, b, f
  <2>3. (b + i) % z = (a + Dist(a, b) + i) % z
    BY <1>1, <2>1, SlotAt
  <2>4. a + Dist(a, b) + i = a + (f + i)
    BY <1>1, <2>1
  <2>5. (b + i) % z = (a + (f + i)) % z
    BY <2>3, <2>4
  <2>6. QED
    BY <2>2, <2>5 DEF i, f
<1>7. \A x \in Nat : Slot(x) \in DOMAIN slots
  BY <1>1, <1>2, <1>4
<1>8. \A x, y \in Nat : x < z /\ y < z /\ Slot(x) = Slot(y) => x = y
  BY <1>2, <1>5
<1>9. \A t \in Threads, j \in Nat \ {0} :
              (op[t].at + j - 1) % z = Slot(From(t) + (j - 1))
  <2>1. \A t \in Threads, j \in Nat \ {0} : From(t) + (j - 1) \in Nat
    BY <1>1
  <2>2. QED
    BY <1>2, <1>6, <2>1
<1>10. QED
  BY <1>7, <1>8, <1>9 DEF z

(* The last step of an enqueue: its reservation is the first one, its end  *)
(* is the new tail, its objects are in the slots in their order, and no    *)
(* slot of an object already in the ring is overwritten.                   *)
LEMMA EnqueueDoneFacts ==
  ASSUME RingInv, NEW p \in Producers, EnqueueDone(p)
  PROVE  /\ op[p].n \in Nat \ {0} /\ op[p].n <= Len(hold[p])
         /\ From(p) = Off(prod.tail) /\ Upto(p) = From(p) + op[p].n
         /\ Upto(p) <= Off(prod.head)
         /\ (op[p].at + op[p].n) % Word \in Cursor
         /\ Dist(cons.tail, (op[p].at + op[p].n) % Word) = Upto(p)
         /\ \A x \in Nat : x < From(p) => slots'[Slot(x)] = slots[Slot(x)]
         /\ \A j \in 1..op[p].n : slots'[Slot(From(p) + (j - 1))] = hold[p][j]
         /\ DOMAIN slots' = DOMAIN slots
<1> DEFINE n == op[p].n
<1>1. p \in Threads /\ RingTypeOK
  BY DEF Threads, RingInv
<1>2. /\ n \in Nat \ {0} /\ From(p) \in Nat /\ Upto(p) \in Nat /\ ring.cap \in Nat
      /\ ring.cap < Word /\ ring.size \in Nat \ {0} /\ ring.cap < ring.size /\ Off(prod.head) \in Nat
      /\ cons.tail \in Cursor /\ op[p].at \in Cursor
  BY <1>1, OffTypes DEF RingTypeOK, EnqueueDone
<1>3. /\ n <= Len(hold[p]) /\ From(p) = Off(prod.tail) /\ Upto(p) = From(p) + n
      /\ Upto(p) <= Off(prod.head) /\ Off(prod.head) <= ring.cap
  BY <1>2 DEF RingInv, OpInv, CursorInv, EnqueueDone, From, Upto
<1>4. /\ (op[p].at + n) % Word \in Cursor
      /\ Dist(cons.tail, (op[p].at + n) % Word) = Upto(p)
  <2>1. Dist(cons.tail, op[p].at) + n < Word
    BY <1>2, <1>3, RingAssumption DEF From, Off
  <2>2. QED
    BY <1>2, <1>3, <2>1, DistAdvance DEF From, Off
<1>5. \A i \in 1..n : (op[p].at + i - 1) % ring.size = Slot(From(p) + (i - 1))
  BY <1>1, <1>2, SlotFacts
<1>6. slots' = [i \in DOMAIN slots |->
           IF \E j \in 1..n : i = Slot(From(p) + (j - 1))
           THEN hold[p][CHOOSE j \in 1..n : i = Slot(From(p) + (j - 1))] ELSE slots[i]]
  <2>1. slots' = [i \in DOMAIN slots |->
           IF \E j \in 1..n : i = (op[p].at + j - 1) % ring.size
           THEN hold[p][CHOOSE j \in 1..n : i = (op[p].at + j - 1) % ring.size] ELSE slots[i]]
    BY DEF EnqueueDone, Publish
  <2>2. ASSUME NEW i
        PROVE  (\E j \in 1..n : i = (op[p].at + j - 1) % ring.size)
                 <=> \E j \in 1..n : i = Slot(From(p) + (j - 1))
    BY <1>5
  <2>3. ASSUME NEW i
        PROVE  (CHOOSE j \in 1..n : i = (op[p].at + j - 1) % ring.size)
                 = CHOOSE j \in 1..n : i = Slot(From(p) + (j - 1))
    BY <1>5
  <2>4. QED
    BY <2>1, <2>2, <2>3
<1>7. ASSUME NEW x \in Nat, x < From(p)
      PROVE  slots'[Slot(x)] = slots[Slot(x)]
  <2>1. \A j \in 1..n : From(p) + (j - 1) \in Nat /\ From(p) + (j - 1) < ring.size
                        /\ From(p) + (j - 1) # x /\ x < ring.size
    BY <1>2, <1>3, <1>7
  <2>2. ~ \E j \in 1..n : Slot(x) = Slot(From(p) + (j - 1))
    BY <1>1, <2>1, SlotFacts
  <2>3. QED
    BY <1>1, <1>6, <2>2, SlotFacts
<1>8. ASSUME NEW j \in 1..n
      PROVE  slots'[Slot(From(p) + (j - 1))] = hold[p][j]
  <2> DEFINE s == Slot(From(p) + (j - 1))
             k == CHOOSE i \in 1..n : s = Slot(From(p) + (i - 1))
  <2>1. k \in 1..n /\ s = Slot(From(p) + (k - 1))
    BY <1>8
  <2>2. \A i \in 1..n : From(p) + (i - 1) \in Nat /\ From(p) + (i - 1) < ring.size
    BY <1>2, <1>3
  <2>3. s \in DOMAIN slots
    BY <1>1, <1>8, <2>2, SlotFacts
  <2>4. slots'[s] = hold[p][k]
    BY <1>6, <1>8, <2>3
  <2>5. From(p) + (j - 1) = From(p) + (k - 1)
    <3> HIDE DEF k
    <3>1. Slot(From(p) + (j - 1)) = Slot(From(p) + (k - 1))
      BY <2>1
    <3>2. QED
      BY <1>1, <1>8, <2>1, <2>2, <3>1, SlotFacts
  <2>6. k = j
    <3> HIDE DEF k, s
    <3>1. QED
      BY <1>2, <1>8, <2>1, <2>5
  <2>7. QED
    BY <2>4, <2>6
<1>9. DOMAIN slots' = DOMAIN slots
  BY <1>6
<1>10. QED
  BY <1>2, <1>3, <1>4, <1>7, <1>8, <1>9

(* Copying objects in and moving the producers' tail keeps the invariant of *)
(* the ring.                                                                *)
LEMMA EnqueueDoneInv ==
  ASSUME RingInv, NEW p \in Producers, EnqueueDone(p)
  PROVE  RingInv'
<1> DEFINE n == op[p].n
           h == (op[p].at + op[p].n) % Word
<1>1. p \in Threads /\ p \notin Consumers /\ RingTypeOK
  BY RingAssumption DEF Threads, RingInv
<1>2. /\ n \in Nat \ {0} /\ n <= Len(hold[p])
      /\ From(p) = Off(prod.tail) /\ Upto(p) = From(p) + n
      /\ Upto(p) <= Off(prod.head)
      /\ h \in Cursor /\ Dist(cons.tail, h) = Upto(p)
      /\ \A x \in Nat : x < From(p) => slots'[Slot(x)] = slots[Slot(x)]
      /\ \A j \in 1..n : slots'[Slot(From(p) + (j - 1))] = hold[p][j]
      /\ DOMAIN slots' = DOMAIN slots
  BY EnqueueDoneFacts
<1>3. /\ prod' = [prod EXCEPT !.tail = h]
      /\ hold' = [hold EXCEPT ![p] = SubSeq(hold[p], n + 1, Len(hold[p]))]
      /\ op' = [op EXCEPT ![p] = NoOp]
      /\ UNCHANGED <<ring, cons>>
  BY <1>1 DEF EnqueueDone, Publish, RingTypeOK
<1> HIDE DEF h, n
<1>4. prod'.head = prod.head /\ prod'.tail = h /\ prod' \in [head : Cursor, tail : Cursor]
  BY <1>1, <1>2, <1>3 DEF RingTypeOK
<1>5. SubSeq(hold[p], n + 1, Len(hold[p])) \in Seq(Mbufs)
  BY <1>1, <1>2 DEF RingTypeOK
<1>6. RingTypeOK'
  <2>1. op' \in [Threads -> [at : Cursor, n : Nat]]
    BY <1>1, <1>3, RingAssumption DEF RingTypeOK, NoOp, Cursor
  <2>2. \A t \in Threads : op'[t].n = 0 => op'[t] = NoOp
    BY <1>1, <1>3 DEF RingTypeOK
  <2>3. QED
    BY <1>1, <1>2, <1>3, <1>4, <1>5, <2>1, <2>2 DEF RingTypeOK
<1>7. /\ Off(cons.head)' = Off(cons.head) /\ Off(prod.tail)' = Upto(p)
      /\ Off(prod.head)' = Off(prod.head)
  BY <1>2, <1>3, <1>4 DEF Off
<1>8. op'[p].n = 0
  BY <1>1, <1>3 DEF NoOp, RingTypeOK
<1>9. \A t \in Threads \ {p} :
        op'[t] = op[t] /\ From(t)' = From(t) /\ Upto(t)' = Upto(t) /\ hold'[t] = hold[t]
  BY <1>1, <1>3 DEF From, Upto, Off, RingTypeOK
<1>10. /\ Off(cons.head) \in Nat /\ Off(prod.tail) \in Nat /\ Off(prod.head) \in Nat
       /\ \A t \in Threads : op[t].n \in Nat /\ From(t) \in Nat /\ Upto(t) \in Nat
       /\ \A t \in Threads : Upto(t) = From(t) + op[t].n
       /\ ring.cap \in Nat
  BY <1>1, OffTypes DEF From, Upto
<1>11. CursorInv'
  BY <1>2, <1>3, <1>7, <1>10 DEF RingInv, CursorInv
<1>12. OpInv'
  <2>1. \A q \in Producers \ {p} : op'[q].n > 0 =>
          /\ (Off(prod.tail) <= From(q))' /\ (Upto(q) <= Off(prod.head))'
          /\ op'[q].n <= Len(hold'[q])
    <3> SUFFICES ASSUME NEW q \in Producers \ {p}, op'[q].n > 0
                 PROVE  /\ (Off(prod.tail) <= From(q))' /\ (Upto(q) <= Off(prod.head))'
                        /\ op'[q].n <= Len(hold'[q])
      OBVIOUS
    <3>1. q \in Threads \ {p} /\ op[q].n > 0
      BY <1>9 DEF Threads
    <3>2. Off(prod.tail) <= From(q) /\ Upto(q) <= Off(prod.head) /\ op[q].n <= Len(hold[q])
      BY <3>1 DEF RingInv, OpInv
    <3>3. Upto(p) <= From(q) \/ Upto(q) <= From(p)
      BY <1>2, <3>1 DEF RingInv, OpInv, Apart, n
    <3>4. Upto(p) <= From(q)
      BY <1>1, <1>2, <1>10, <3>1, <3>2, <3>3
    <3>5. QED
      BY <1>7, <1>9, <3>1, <3>2, <3>4
  <2>3. \A c \in Consumers : op'[c].n > 0 => (Upto(c) <= Off(cons.head))'
    BY <1>1, <1>7, <1>9 DEF RingInv, OpInv, Threads
  <2>4. Apart(Producers)'
    BY <1>8, <1>9 DEF RingInv, OpInv, Apart, Threads
  <2>5. Apart(Consumers)'
    BY <1>1, <1>9 DEF RingInv, OpInv, Apart, Threads
  <2>6. QED
    BY <1>8, <2>1, <2>3, <2>4, <2>5 DEF OpInv
<1>13. CoverInv'
  <2>1. ASSUME NEW x \in Nat, x < Off(cons.head)'
        PROVE  \E c \in Consumers : (op[c].n > 0)' /\ From(c)' <= x /\ x < Upto(c)'
    <3>1. PICK c \in Consumers : op[c].n > 0 /\ From(c) <= x /\ x < Upto(c)
      BY <1>7, <2>1 DEF RingInv, CoverInv
    <3>2. c \in Threads \ {p}
      BY <1>1 DEF Threads
    <3>3. QED
      BY <1>9, <3>1, <3>2
  <2>2. ASSUME NEW x \in Nat, Off(prod.tail)' <= x, x < Off(prod.head)'
        PROVE  \E q \in Producers : (op[q].n > 0)' /\ From(q)' <= x /\ x < Upto(q)'
    <3>1. Upto(p) <= x /\ Off(prod.tail) <= x /\ x < Off(prod.head)
      BY <1>1, <1>2, <1>7, <1>10, <2>2
    <3>2. PICK q \in Producers : op[q].n > 0 /\ From(q) <= x /\ x < Upto(q)
      BY <3>1 DEF RingInv, CoverInv
    <3>3. q \in Threads \ {p}
      BY <1>1, <1>10, <3>1, <3>2 DEF Threads
    <3>4. QED
      BY <1>9, <3>2, <3>3
  <2>3. QED
    BY <2>1, <2>2 DEF CoverInv
<1>14. FullInv'
  <2>1. \A x \in Nat : ((cons.tail + x) % ring.size)' = Slot(x)
    BY <1>3 DEF Slot
  <2>2. SUFFICES ASSUME NEW x \in Nat, x < Upto(p)
                 PROVE  slots'[Slot(x)] \in Mbufs
    BY <1>7, <2>1 DEF FullInv
  <2>3. CASE x < From(p)
    BY <1>2, <2>3 DEF RingInv, FullInv, Slot
  <2>4. CASE ~(x < From(p))
    <3> DEFINE j == x - From(p) + 1
    <3>1. j \in 1..n /\ From(p) + (j - 1) = x /\ j \in 1..Len(hold[p])
      BY <1>1, <1>2, <1>10, <2>2, <2>4
    <3>2. slots'[Slot(x)] = hold[p][j]
      BY <1>2, <3>1
    <3>3. hold[p][j] \in Mbufs
      <4>1. hold[p] \in Seq(Mbufs)
        BY <1>1 DEF RingTypeOK
      <4> HIDE DEF j
      <4>2. QED
        BY <3>1, <4>1
    <3>4. QED
      BY <3>2, <3>3
  <2>5. QED
    BY <2>3, <2>4
<1>15. QED
  BY <1>6, <1>11, <1>12, <1>13, <1>14 DEF RingInv

(* The last step of a dequeue: its reservation starts at the tail, what it *)
(* takes are the oldest objects, and no slot behind them changes.          *)
LEMMA DequeueDoneFacts ==
  ASSUME RingInv, NEW c \in Consumers, DequeueDone(c)
  PROVE  /\ op[c].n \in Nat \ {0} /\ From(c) = 0 /\ Upto(c) = op[c].n
         /\ op[c].n <= Off(cons.head)
         /\ cons'.tail \in Cursor /\ cons'.head = cons.head
         /\ \A x \in Cursor : op[c].n <= Off(x) => Dist(cons'.tail, x) = Off(x) - op[c].n
         /\ \A x \in Nat : (cons'.tail + x) % ring.size = Slot(op[c].n + x)
         /\ \A x \in Nat : op[c].n <= x /\ x < ring.size => slots'[Slot(x)] = slots[Slot(x)]
         /\ hold' = [hold EXCEPT ![c] = hold[c] \o [j \in 1..op[c].n |-> slots[Slot(j - 1)]]]
         /\ DOMAIN slots' = DOMAIN slots
         /\ op' = [op EXCEPT ![c] = NoOp]
         /\ UNCHANGED <<ring, prod>>
<1> DEFINE n == op[c].n
           b == (cons.tail + n) % Word
<1>1. c \in Threads /\ RingTypeOK
  BY DEF Threads, RingInv
<1>2. /\ n \in Nat \ {0} /\ From(c) \in Nat /\ Upto(c) \in Nat /\ ring.cap \in Nat
      /\ ring.cap < Word /\ ring.size \in Nat \ {0} /\ ring.cap < ring.size
      /\ Off(cons.head) \in Nat /\ Off(prod.tail) \in Nat /\ Off(prod.head) \in Nat
      /\ Word % ring.size = 0
      /\ cons.tail \in Cursor /\ op[c].at = cons.tail
  BY <1>1, OffTypes DEF RingTypeOK, DequeueDone
<1>3. From(c) = 0 /\ Upto(c) = n
  BY <1>2, DistSelf DEF From, Upto, Off
<1>4. n <= Off(cons.head) /\ Off(cons.head) <= ring.cap
  BY <1>2, <1>3 DEF RingInv, OpInv, CursorInv
<1>5. b \in Cursor /\ Dist(cons.tail, b) = n
  <2>1. Dist(cons.tail, cons.tail) = 0 /\ 0 + n < Word
    BY <1>2, <1>4, DistSelf, RingAssumption
  <2>2. QED
    BY <1>2, <2>1, DistAdvance
<1>6. /\ cons' = [cons EXCEPT !.tail = b]
      /\ op' = [op EXCEPT ![c] = NoOp]
      /\ UNCHANGED <<ring, prod>>
  BY <1>2 DEF DequeueDone
<1>7. cons'.tail = b /\ cons'.head = cons.head
  BY <1>1, <1>6 DEF RingTypeOK
<1>8. ASSUME NEW x \in Cursor, n <= Off(x)
      PROVE  Dist(b, x) = Off(x) - n
  BY <1>2, <1>8, DistShift DEF Off
<1>9. ASSUME NEW x \in Nat
      PROVE  (b + x) % ring.size = Slot(n + x)
  <2>1. (b + x) % ring.size = (cons.tail + n + x) % ring.size
    <3> HIDE DEF b
    <3>1. QED
      BY <1>2, <1>5, SlotAt
  <2>2. (cons.tail + n) + x = cons.tail + (n + x)
    BY <1>2, RingAssumption DEF Cursor
  <2>3. QED
    BY <2>1, <2>2 DEF Slot
<1>10. \A i \in 1..n : (op[c].at + i - 1) % ring.size = Slot(i - 1)
  <2>1. \A i \in 1..n : (op[c].at + i - 1) % ring.size = Slot(From(c) + (i - 1))
    BY <1>1, <1>2, SlotFacts
  <2>2. \A i \in 1..n : From(c) + (i - 1) = i - 1
    BY <1>2, <1>3
  <2>3. QED
    BY <2>1, <2>2
<1>11. hold' = [hold EXCEPT ![c] = hold[c] \o [j \in 1..n |-> slots[Slot(j - 1)]]]
  <2>1. hold' = [hold EXCEPT ![c] =
                   hold[c] \o [j \in 1..n |-> slots[(op[c].at + j - 1) % ring.size]]]
    BY DEF DequeueDone
  <2>2. [j \in 1..n |-> slots[(op[c].at + j - 1) % ring.size]] = [j \in 1..n |-> slots[Slot(j - 1)]]
    BY <1>10
  <2>3. QED
    BY <2>1, <2>2
<1>12. slots' = [i \in DOMAIN slots |->
         IF \E j \in 1..n : i = Slot(j - 1) THEN NoMbuf ELSE slots[i]]
  <2>1. slots' = [i \in DOMAIN slots |->
         IF \E j \in 1..n : i = (op[c].at + j - 1) % ring.size THEN NoMbuf ELSE slots[i]]
    BY DEF DequeueDone
  <2>2. ASSUME NEW i
        PROVE  (\E j \in 1..n : i = (op[c].at + j - 1) % ring.size)
                 <=> \E j \in 1..n : i = Slot(j - 1)
    BY <1>10
  <2>3. QED
    BY <2>1, <2>2
<1>13. ASSUME NEW x \in Nat, n <= x, x < ring.size
       PROVE  slots'[Slot(x)] = slots[Slot(x)]
  <2>1. \A j \in 1..n : j - 1 \in Nat /\ j - 1 < ring.size /\ j - 1 # x
    BY <1>2, <1>13
  <2>2. ~ \E j \in 1..n : Slot(x) = Slot(j - 1)
    BY <1>1, <1>13, <2>1, SlotFacts
  <2>3. QED
    BY <1>1, <1>12, <2>2, SlotFacts
<1>14. DOMAIN slots' = DOMAIN slots
  BY <1>12
<1> HIDE DEF n, b
<1>15. QED
  BY <1>2, <1>3, <1>4, <1>5, <1>6, <1>7, <1>8, <1>9, <1>11, <1>13, <1>14 DEF n

(* Copying objects out and moving the consumers' tail keeps the invariant *)
(* of the ring.                                                           *)
LEMMA DequeueDoneInv ==
  ASSUME RingInv, NEW c \in Consumers, DequeueDone(c)
  PROVE  RingInv'
<1> DEFINE n == op[c].n
           got == [j \in 1..n |-> slots[Slot(j - 1)]]
<1>1. c \in Threads /\ c \notin Producers /\ RingTypeOK
  BY RingAssumption DEF Threads, RingInv
<1>2. n \in Nat \ {0} /\ From(c) = 0 /\ Upto(c) = n /\ n <= Off(cons.head)
  BY DequeueDoneFacts
<1>3. /\ cons'.tail \in Cursor /\ cons'.head = cons.head
      /\ \A x \in Cursor : n <= Off(x) => Dist(cons'.tail, x) = Off(x) - n
  BY DequeueDoneFacts
<1>4. /\ \A x \in Nat : (cons'.tail + x) % ring.size = Slot(n + x)
      /\ \A x \in Nat : n <= x /\ x < ring.size => slots'[Slot(x)] = slots[Slot(x)]
  BY DequeueDoneFacts
<1>5. /\ hold' = [hold EXCEPT ![c] = hold[c] \o got]
      /\ op' = [op EXCEPT ![c] = NoOp]
      /\ DOMAIN slots' = DOMAIN slots /\ UNCHANGED <<ring, prod>>
  BY DequeueDoneFacts
<1>6. /\ Off(cons.head) \in Nat /\ Off(prod.tail) \in Nat /\ Off(prod.head) \in Nat
      /\ Off(cons.head) <= Off(prod.tail) /\ Off(prod.tail) <= Off(prod.head)
      /\ Off(prod.head) <= ring.cap
      /\ \A t \in Threads : op[t].n \in Nat /\ From(t) \in Nat /\ Upto(t) \in Nat
      /\ \A t \in Threads : Upto(t) = From(t) + op[t].n
      /\ ring.cap \in Nat /\ ring.size \in Nat /\ ring.cap < ring.size
  BY <1>1, OffTypes DEF From, Upto, RingInv, CursorInv, RingTypeOK
<1>7. got \in Seq(Mbufs)
  <2>1. \A j \in 1..n : j - 1 \in Nat /\ j - 1 < Off(prod.tail)
    BY <1>2, <1>6
  <2>2. \A j \in 1..n : slots[Slot(j - 1)] \in Mbufs
    BY <2>1 DEF RingInv, FullInv, Slot
  <2> HIDE DEF n
  <2>3. QED
    BY <1>2, <2>2
<1>8. hold'[c] \in Seq(Mbufs) /\ hold' \in [Threads -> Seq(Mbufs)]
  <2> HIDE DEF got
  <2>1. hold[c] \o got \in Seq(Mbufs)
    BY <1>1, <1>7 DEF RingTypeOK
  <2>2. QED
    BY <1>1, <1>5, <2>1 DEF RingTypeOK
<1> HIDE DEF n, got
<1>9. RingTypeOK'
  <2>1. op' \in [Threads -> [at : Cursor, n : Nat]]
    BY <1>1, <1>5, RingAssumption DEF RingTypeOK, NoOp, Cursor
  <2>2. \A t \in Threads : op'[t].n = 0 => op'[t] = NoOp
    BY <1>1, <1>5 DEF RingTypeOK
  <2>3. cons' \in [head : Cursor, tail : Cursor]
    <3>1. \E b \in Cursor : cons' = [cons EXCEPT !.tail = b]
      BY <1>1, <1>3 DEF RingTypeOK, DequeueDone
    <3>2. QED
      BY <1>1, <3>1 DEF RingTypeOK
  <2>4. QED
    <3>1. UNCHANGED <<ring, prod>> /\ DOMAIN slots' = DOMAIN slots
      BY <1>5
    <3>2. QED
      BY <1>1, <1>8, <2>1, <2>2, <2>3, <3>1 DEF RingTypeOK
<1>10. /\ Off(cons.head)' = Off(cons.head) - n /\ Off(prod.tail)' = Off(prod.tail) - n
      /\ Off(prod.head)' = Off(prod.head) - n
  <2>1. n <= Off(cons.head) /\ n <= Off(prod.tail) /\ n <= Off(prod.head)
    BY <1>2, <1>6
  <2>2. QED
    BY <1>1, <1>3, <1>5, <2>1 DEF Off, RingTypeOK
<1>11. op'[c].n = 0
  BY <1>1, <1>5 DEF NoOp, RingTypeOK
<1>12. ASSUME NEW t \in Threads \ {c}, op[t].n > 0
      PROVE  n <= From(t)
  <2>1. CASE t \in Producers
    BY <1>2, <1>6, <1>12, <2>1 DEF RingInv, OpInv
  <2>2. CASE t \in Consumers
    <3>1. Upto(c) <= From(t) \/ Upto(t) <= From(c)
      BY <1>2, <1>12, <2>2 DEF RingInv, OpInv, Apart, n
    <3>2. QED
      BY <1>2, <1>6, <1>12, <3>1
  <2>3. QED
    BY <2>1, <2>2 DEF Threads
<1>13. \A t \in Threads \ {c} :
         op'[t] = op[t] /\ hold'[t] = hold[t]
         /\ (op[t].n > 0 => From(t)' = From(t) - n /\ Upto(t)' = Upto(t) - n)
  <2> SUFFICES ASSUME NEW t \in Threads \ {c}
               PROVE  op'[t] = op[t] /\ hold'[t] = hold[t]
                      /\ (op[t].n > 0 => From(t)' = From(t) - n /\ Upto(t)' = Upto(t) - n)
    OBVIOUS
  <2>1. op'[t] = op[t] /\ hold'[t] = hold[t]
    BY <1>1, <1>5 DEF RingTypeOK
  <2>2. ASSUME op[t].n > 0 PROVE From(t)' = From(t) - n
    <3>1. op[t].at \in Cursor /\ n <= Off(op[t].at)
      BY <1>1, <1>12, <2>2 DEF RingTypeOK, From
    <3>2. QED
      BY <1>3, <2>1, <3>1 DEF From, Off
  <2>3. Upto(t)' = From(t)' + op[t].n /\ Upto(t) = From(t) + op[t].n
    BY <2>1 DEF From, Upto
  <2>4. QED
    BY <1>2, <1>6, <2>1, <2>2, <2>3
<1>14. CursorInv'
  BY <1>2, <1>5, <1>6, <1>10 DEF CursorInv
<1>15. OpInv'
  <2>1. \A p \in Producers : op'[p].n > 0 =>
          /\ (Off(prod.tail) <= From(p))' /\ (Upto(p) <= Off(prod.head))'
          /\ op'[p].n <= Len(hold'[p])
    <3> SUFFICES ASSUME NEW p \in Producers, op'[p].n > 0
                 PROVE  /\ (Off(prod.tail) <= From(p))' /\ (Upto(p) <= Off(prod.head))'
                        /\ op'[p].n <= Len(hold'[p])
      OBVIOUS
    <3>1. p \in Threads \ {c}
      BY <1>1 DEF Threads
    <3>2. /\ op[p].n > 0 /\ op'[p] = op[p] /\ hold'[p] = hold[p]
          /\ From(p)' = From(p) - n /\ Upto(p)' = Upto(p) - n
      BY <1>13, <3>1
    <3>3. Off(prod.tail) <= From(p) /\ Upto(p) <= Off(prod.head) /\ op[p].n <= Len(hold[p])
      BY <3>2 DEF RingInv, OpInv
    <3>4. Off(prod.tail)' <= From(p)' /\ Upto(p)' <= Off(prod.head)'
      BY <1>2, <1>6, <1>10, <3>1, <3>2, <3>3
    <3>5. QED
      BY <3>2, <3>3, <3>4
  <2>2. \A d \in Consumers : op'[d].n > 0 => (Upto(d) <= Off(cons.head))'
    <3> SUFFICES ASSUME NEW d \in Consumers, op'[d].n > 0
                 PROVE  (Upto(d) <= Off(cons.head))'
      OBVIOUS
    <3>1. d \in Threads \ {c}
      BY <1>11 DEF Threads
    <3>2. op[d].n > 0 /\ Upto(d)' = Upto(d) - n
      BY <1>13, <3>1
    <3>3. Upto(d) <= Off(cons.head)
      BY <3>2 DEF RingInv, OpInv
    <3>4. QED
      BY <1>2, <1>6, <1>10, <3>1, <3>2, <3>3
  <2>3. ASSUME NEW t \in Threads, NEW u \in Threads, op'[t].n > 0, op'[u].n > 0,
               Upto(t) <= From(u) \/ Upto(u) <= From(t)
        PROVE  Upto(t)' <= From(u)' \/ Upto(u)' <= From(t)'
    BY <1>2, <1>6, <1>11, <1>13, <2>3
  <2>4. ASSUME NEW t \in Threads, op'[t].n > 0 PROVE op[t].n > 0
    BY <1>11, <1>13, <2>4
  <2>5. Apart(Producers)'
    BY <2>3, <2>4 DEF RingInv, OpInv, Apart, Threads
  <2>6. Apart(Consumers)'
    BY <2>3, <2>4 DEF RingInv, OpInv, Apart, Threads
  <2>7. QED
    BY <2>1, <2>2, <2>5, <2>6 DEF OpInv
<1>16. CoverInv'
  <2>1. ASSUME NEW x \in Nat, x < Off(cons.head)'
        PROVE  \E d \in Consumers : (op[d].n > 0)' /\ From(d)' <= x /\ x < Upto(d)'
    <3>1. x + n \in Nat /\ x + n < Off(cons.head) /\ n <= x + n
      BY <1>2, <1>6, <1>10, <2>1
    <3>2. PICK d \in Consumers : op[d].n > 0 /\ From(d) <= x + n /\ x + n < Upto(d)
      BY <3>1 DEF RingInv, CoverInv
    <3>3. d \in Threads \ {c}
      BY <1>2, <3>1, <3>2 DEF Threads
    <3>4. QED
      BY <1>2, <1>6, <1>13, <3>2, <3>3
  <2>2. ASSUME NEW x \in Nat, Off(prod.tail)' <= x, x < Off(prod.head)'
        PROVE  \E q \in Producers : (op[q].n > 0)' /\ From(q)' <= x /\ x < Upto(q)'
    <3>1. x + n \in Nat /\ Off(prod.tail) <= x + n /\ x + n < Off(prod.head)
      BY <1>2, <1>6, <1>10, <2>2
    <3>2. PICK q \in Producers : op[q].n > 0 /\ From(q) <= x + n /\ x + n < Upto(q)
      BY <3>1 DEF RingInv, CoverInv
    <3>3. q \in Threads \ {c}
      BY <1>1, <3>2 DEF Threads
    <3>4. QED
      BY <1>2, <1>6, <1>13, <3>2, <3>3
  <2>3. QED
    BY <2>1, <2>2 DEF CoverInv
<1>17. FullInv'
  <2>1. SUFFICES ASSUME NEW x \in Nat, x < Off(prod.tail)'
                 PROVE  slots'[(cons'.tail + x) % ring.size] \in Mbufs
    BY <1>5 DEF FullInv
  <2>2. n + x \in Nat /\ n + x < Off(prod.tail) /\ n <= n + x /\ n + x < ring.size
    BY <1>2, <1>6, <1>10, <2>1
  <2>3. slots'[(cons'.tail + x) % ring.size] = slots[Slot(n + x)]
    BY <1>4, <2>2
  <2>4. slots[Slot(n + x)] \in Mbufs
    BY <2>2 DEF RingInv, FullInv, Slot
  <2>5. QED
    BY <2>3, <2>4
<1>18. QED
  BY <1>9, <1>14, <1>15, <1>16, <1>17 DEF RingInv

(* The hands of a thread with no call in progress may change. *)
LEMMA HoldInv ==
  ASSUME RingInv, hold' \in [Threads -> Seq(Mbufs)],
         \A t \in Threads : op[t].n > 0 => hold'[t] = hold[t],
         UNCHANGED <<ring, slots, prod, cons, op>>
  PROVE  RingInv'
<1>1. RingTypeOK'
  BY DEF RingInv, RingTypeOK
<1>2. \A x \in Cursor : Off(x)' = Off(x)
  BY DEF Off
<1>3. /\ Off(cons.head)' = Off(cons.head) /\ Off(prod.tail)' = Off(prod.tail)
      /\ Off(prod.head)' = Off(prod.head)
  BY DEF Off
<1>4. \A t \in Threads : op'[t] = op[t] /\ From(t)' = From(t) /\ Upto(t)' = Upto(t)
  BY DEF From, Upto, Off
<1>5. CursorInv'
  BY <1>3 DEF RingInv, CursorInv
<1>6. OpInv'
  BY <1>3, <1>4 DEF RingInv, OpInv, Apart, Threads
<1>7. CoverInv'
  BY <1>3, <1>4 DEF RingInv, CoverInv, Threads
<1>8. FullInv'
  BY <1>3 DEF RingInv, FullInv
<1>9. QED
  BY <1>1, <1>5, <1>6, <1>7, <1>8 DEF RingInv

(* A ring that was just made is empty. *)
LEMMA FreshEmpty == Fresh => Contents = << >>
<1> SUFFICES ASSUME Fresh PROVE Contents = << >>
  OBVIOUS
<1>1. 0 \in Cursor
  BY RingAssumption DEF Cursor
<1>2. (prod.tail - cons.tail) % Word = 0
  BY <1>1, DistSelf DEF Fresh, Dist
<1>3. QED
  BY <1>2 DEF Contents

(* The same after the step that makes it. *)
LEMMA FreshNext == Fresh' => RingInv' /\ Contents' = << >>
<1>1. Fresh => RingInv /\ Contents = << >>
  BY FreshInv, FreshEmpty
<1>2. (Fresh => RingInv /\ Contents = << >>)'
  BY <1>1, PTL
<1>3. QED
  BY <1>2

-----------------------------------------------------------------------------
(* The invariant of the program: a ring exists and is used only while the  *)
(* threads run, and a thread that has returned has nothing in its hands.   *)

AppInv ==
  /\ pool \subseteq Mbufs /\ lost \subseteq Mbufs /\ working \subseteq Threads
  /\ IF main = "run" THEN ring # NoRing ELSE ring = NoRing /\ working = {}
  /\ \A t \in Threads \ working : op[t] = NoOp /\ hold[t] = << >>

(* The value that stands for the absence of a ring has the type of a ring. *)
LEMMA NoRingFacts ==
  NoRing \in [size : Nat \ {0}, cap : Nat, mem : Nat] /\ NoRing.cap < NoRing.size
  /\ Word % NoRing.size = 0
<1>1. Word % 1 = 0
  BY RingAssumption
<1>2. QED
  BY <1>1 DEF NoRing

(* The program starts with a ring and threads that satisfy the invariant. *)
LEMMA AppInitInv == Init => RingInv /\ AppInv
<1> SUFFICES ASSUME Init PROVE RingInv /\ AppInv
  OBVIOUS
<1>1. Fresh
  BY NoRingFacts DEF Init, RingInit, Fresh
<1>2. AppInv
  BY DEF Init, RingInit, AppInv
<1>3. QED
  BY <1>1, <1>2, FreshInv

(* Init of the library makes an empty ring, or none. *)
LEMMA RingInitInInv ==
  ASSUME RingInv, \A t \in Threads : op[t] = NoOp,
         NEW mem \in Nat, NEW n \in Counts, NEW exact \in BOOLEAN, RingInitIn(mem, n, exact)
  PROVE  RingInv' /\ Contents' = << >> /\ UNCHANGED <<op, hold>>
<1> DEFINE made == RteRingInit(cuint(n), exact)
<1>1. /\ ring' = IF made.size = 0 THEN NoRing
                 ELSE [size |-> made.size, cap |-> made.cap, mem |-> mem]
      /\ slots' = Empty(ring'.size)
      /\ prod' = [head |-> 0, tail |-> 0]
      /\ cons' = [head |-> 0, tail |-> 0]
      /\ UNCHANGED <<op, hold>>
  BY DEF RingInitIn
<1>2. op' = [t \in Threads |-> NoOp] /\ hold' \in [Threads -> Seq(Mbufs)]
  BY <1>1 DEF RingInv, RingTypeOK
<1>3. /\ ring' \in [size : Nat \ {0}, cap : Nat, mem : Nat]
      /\ ring'.cap < ring'.size /\ Word % ring'.size = 0
  <2>1. CASE made.size = 0
    BY <1>1, <2>1, NoRingFacts
  <2>2. CASE made.size # 0
    <3>1. made.size \in Nat \ {0} /\ made.cap \in Nat /\ made.cap < made.size /\ Word % made.size = 0
      BY <2>2, InitFacts
    <3>2. ring' = [size |-> made.size, cap |-> made.cap, mem |-> mem]
      BY <1>1, <2>2
    <3> HIDE DEF made
    <3>3. QED
      BY <3>1, <3>2
  <2>3. QED
    BY <2>1, <2>2
<1>4. Fresh'
  BY <1>1, <1>2, <1>3 DEF Fresh
<1>5. QED
  BY <1>1, <1>4, FreshNext

(* Memory is allocated in whole cache lines. *)
LEMMA AlignedNat ==
  ASSUME NEW n \in Nat
  PROVE  Aligned(n) \in Nat
<1>1. Line \in Nat \ {0}
  BY RingAssumption
<1>2. PICK q \in Nat : q = (n + Line - 1) \div Line
  BY <1>1
<1>3. QED
  BY <1>1, <1>2 DEF Aligned

(* Create and New. *)
LEMMA MakeInv ==
  ASSUME RingInv, ring = NoRing, \A t \in Threads : op[t] = NoOp,
         NEW n \in Counts, NEW exact \in BOOLEAN, Create(n, exact) \/ New(n, exact)
  PROVE  /\ RingInv' /\ UNCHANGED <<op, hold>>
         /\ Contents' = << >> \/ UNCHANGED ringVars
<1>1. CASE Create(n, exact)
  <2>1. PICK k : k = IF exact THEN AlignPow2(cuint(n) + 1) ELSE cuint(n)
    OBVIOUS
  <2>2. k \in Nat
    BY <2>1, AlignFacts
  <2>3. Aligned(k) \in Nat /\ RingInitIn(Aligned(k), n, exact)
    BY <1>1, <2>1, <2>2, AlignedNat DEF Create
  <2>4. QED
    BY <2>3, RingInitInInv
<1>2. CASE New(n, exact)
  <2>1. CASE GetMemSize(n) = EINVAL
    <3>1. UNCHANGED <<ring, slots, prod, cons, op, hold>>
      BY <1>2, <2>1 DEF New, ringVars
    <3>2. hold' \in [Threads -> Seq(Mbufs)]
      BY <3>1 DEF RingInv, RingTypeOK
    <3>3. QED
      BY <3>1, <3>2, HoldInv DEF ringVars
  <2>2. CASE GetMemSize(n) # EINVAL
    <3>1. GetMemSize(n) \in Nat
      BY <2>2, AlignFacts, AlignedNat DEF GetMemSize
    <3>2. RingInitIn(GetMemSize(n), n, exact)
      BY <1>2, <2>2 DEF New
    <3>3. QED
      BY <3>1, <3>2, RingInitInInv
  <2>3. QED
    BY <2>1, <2>2
<1>3. QED
  BY <1>1, <1>2

-----------------------------------------------------------------------------
(* The ring implements the bounded queue. *)

(* The queue is what lies between the consumers' and the producers' tail. *)
LEMMA ContentsFacts ==
  ASSUME RingInv
  PROVE  /\ Contents \in Seq(Mbufs) /\ Len(Contents) = Off(prod.tail)
         /\ \A i \in 1..Off(prod.tail) : Contents[i] = slots[Slot(i - 1)]
<1>1. Contents = [i \in 1..Off(prod.tail) |-> slots[Slot(i - 1)]]
  BY DEF Contents, Off, Dist, Slot
<1>2. Off(prod.tail) \in Nat
  BY OffTypes DEF RingInv
<1>3. \A i \in 1..Off(prod.tail) : i - 1 \in Nat /\ i - 1 < Off(prod.tail)
  BY <1>2
<1>4. \A i \in 1..Off(prod.tail) : slots[Slot(i - 1)] \in Mbufs
  BY <1>3 DEF RingInv, FullInv, Slot
<1> DEFINE z == Off(prod.tail)
<1> HIDE DEF z
<1>5. QED
  <2>1. z \in Nat /\ Contents = [i \in 1..z |-> slots[Slot(i - 1)]]
        /\ \A i \in 1..z : slots[Slot(i - 1)] \in Mbufs
    BY <1>1, <1>2, <1>4 DEF z
  <2>2. Contents \in Seq(Mbufs) /\ Len(Contents) = z /\ \A i \in 1..z : Contents[i] = slots[Slot(i - 1)]
    BY <2>1
  <2>3. QED
    BY <2>2 DEF z

(* ... and in the next state. *)
ContentsOK ==
  /\ Contents \in Seq(Mbufs) /\ Len(Contents) = Off(prod.tail)
  /\ \A i \in 1..Off(prod.tail) : Contents[i] = slots[Slot(i - 1)]

(* The same after a step. *)
LEMMA ContentsNext == RingInv' => ContentsOK'
<1>1. RingInv => ContentsOK
  BY ContentsFacts DEF ContentsOK
<1>2. QED
  BY <1>1, PTL

(* The last step of an enqueue puts the objects at the end of the queue. *)
LEMMA PutStep ==
  ASSUME RingInv, NEW p \in Producers, EnqueueDone(p)
  PROVE  op[p].n \in 1..Len(hold[p]) /\ Fifo!Put(p, op[p].n)
<1> DEFINE n == op[p].n
           z == Off(prod.tail)
           s == SubSeq(hold[p], 1, n)
<1>1. /\ n \in Nat \ {0} /\ n <= Len(hold[p])
      /\ From(p) = z /\ Upto(p) = From(p) + n /\ Upto(p) <= Off(prod.head)
  BY EnqueueDoneFacts
<1>2. /\ (op[p].at + op[p].n) % Word \in Cursor
      /\ Dist(cons.tail, (op[p].at + op[p].n) % Word) = Upto(p)
  BY EnqueueDoneFacts
<1>3. /\ \A x \in Nat : x < From(p) => slots'[Slot(x)] = slots[Slot(x)]
      /\ \A j \in 1..n : slots'[Slot(From(p) + (j - 1))] = hold[p][j]
  BY EnqueueDoneFacts
<1>4. /\ prod' = [prod EXCEPT !.tail = (op[p].at + op[p].n) % Word]
      /\ hold' = [hold EXCEPT ![p] = SubSeq(hold[p], n + 1, Len(hold[p]))]
      /\ UNCHANGED <<ring, cons>>
  BY DEF EnqueueDone, Publish
<1>5. /\ z \in Nat /\ Off(prod.head) \in Nat /\ Off(prod.head) <= ring.cap /\ ring.cap \in Nat
      /\ hold[p] \in Seq(Mbufs)
  BY OffTypes DEF RingInv, CursorInv, RingTypeOK, Threads
<1>6. Off(prod.tail)' = z + n
  <2>1. Off(prod.tail)' = Upto(p)
    BY <1>2, <1>4 DEF RingInv, RingTypeOK, Off
  <2>2. QED
    BY <1>1, <2>1
<1>7. \A x \in Nat : Slot(x)' = Slot(x)
  BY <1>4 DEF Slot
<1>8. RingInv'
  BY EnqueueDoneInv
<1>9. /\ Contents \in Seq(Mbufs) /\ Len(Contents) = z
      /\ \A i \in 1..z : Contents[i] = slots[Slot(i - 1)]
  BY ContentsFacts
<1>10. /\ Contents' \in Seq(Mbufs) /\ Len(Contents') = z + n
       /\ \A i \in 1..(z + n) : Contents'[i] = slots'[Slot(i - 1)]
  <2>1. /\ Contents' \in Seq(Mbufs) /\ Len(Contents') = z + n
        /\ \A i \in 1..(z + n) : Contents'[i] = slots'[Slot(i - 1)']
    BY <1>6, <1>8, ContentsNext DEF ContentsOK
  <2>2. \A i \in 1..(z + n) : i - 1 \in Nat
    BY <1>1, <1>5
  <2>3. QED
    BY <1>7, <2>1, <2>2
<1> HIDE DEF z, n
<1>11. s \in Seq(Mbufs) /\ Len(s) = n /\ \A j \in 1..n : s[j] = hold[p][j]
  BY <1>1, <1>5
<1> HIDE DEF s
<1>12. /\ Contents \o s \in Seq(Mbufs) /\ Len(Contents \o s) = z + n
       /\ \A i \in 1..(z + n) : (Contents \o s)[i] = IF i <= z THEN Contents[i] ELSE s[i - z]
  <2>1. /\ Contents \o s \in Seq(Mbufs) /\ Len(Contents \o s) = Len(Contents) + Len(s)
        /\ \A i \in 1..(Len(Contents) + Len(s)) :
             (Contents \o s)[i] = IF i <= Len(Contents) THEN Contents[i] ELSE s[i - Len(Contents)]
    BY <1>9, <1>11, ConcatProperties
  <2>2. Len(Contents) = z /\ Len(s) = n
    BY <1>9, <1>11
  <2>3. QED
    BY <2>1, <2>2
<1>13. \A i \in 1..(z + n) : Contents'[i] = (Contents \o s)[i]
  <2> SUFFICES ASSUME NEW i \in 1..(z + n) PROVE Contents'[i] = (Contents \o s)[i]
    OBVIOUS
  <2>1. CASE i <= z
    <3>1. i - 1 \in Nat /\ i - 1 < From(p) /\ i \in 1..z
      BY <1>1, <1>5, <2>1
    <3>2. slots'[Slot(i - 1)] = slots[Slot(i - 1)]
      BY <1>3, <3>1
    <3>3. QED
      BY <1>9, <1>10, <1>12, <2>1, <3>1, <3>2
  <2>2. CASE ~(i <= z)
    <3> DEFINE j == i - z
    <3>1. j \in 1..n /\ From(p) + (j - 1) = i - 1
      BY <1>1, <1>5, <2>2
    <3>2. slots'[Slot(i - 1)] = hold[p][j]
      <4> HIDE DEF j
      <4>1. slots'[Slot(From(p) + (j - 1))] = hold[p][j]
        BY <1>3, <3>1
      <4>2. QED
        BY <3>1, <4>1
    <3>3. QED
      BY <1>10, <1>11, <1>12, <2>2, <3>1, <3>2
  <2>3. QED
    BY <2>1, <2>2
<1>14. Contents' = Contents \o s
  BY <1>10, <1>12, <1>13, SeqEqual
<1>15. n \in 1..Len(hold[p]) /\ Len(Contents) + n <= ring.cap
  BY <1>1, <1>5, <1>9
<1>16. QED
  BY <1>4, <1>14, <1>15 DEF Fifo!Put, s, n

(* The last step of a dequeue takes the oldest objects of the queue. *)
LEMMA TakeStep ==
  ASSUME RingInv, NEW c \in Consumers, DequeueDone(c)
  PROVE  op[c].n \in 1..Len(Contents) /\ Fifo!Take(c, op[c].n)
<1> DEFINE n == op[c].n
           z == Off(prod.tail)
           got == [j \in 1..n |-> slots[Slot(j - 1)]]
           s == SubSeq(Contents, 1, n)
           r == SubSeq(Contents, n + 1, Len(Contents))
<1>1. n \in Nat \ {0} /\ n <= Off(cons.head)
  BY DequeueDoneFacts
<1>2. /\ cons'.tail \in Cursor
      /\ \A x \in Cursor : n <= Off(x) => Dist(cons'.tail, x) = Off(x) - n
      /\ UNCHANGED <<ring, prod>>
  BY DequeueDoneFacts
<1>3. /\ \A x \in Nat : (cons'.tail + x) % ring.size = Slot(n + x)
      /\ \A x \in Nat : n <= x /\ x < ring.size => slots'[Slot(x)] = slots[Slot(x)]
  BY DequeueDoneFacts
<1>4. hold' = [hold EXCEPT ![c] = hold[c] \o got]
  BY DequeueDoneFacts
<1>5. /\ z \in Nat /\ Off(prod.head) \in Nat /\ Off(cons.head) \in Nat /\ ring.cap \in Nat
      /\ ring.size \in Nat
      /\ Off(cons.head) <= z /\ z <= Off(prod.head) /\ Off(prod.head) <= ring.cap
      /\ ring.cap < ring.size
      /\ hold[c] \in Seq(Mbufs)
  BY OffTypes DEF RingInv, CursorInv, RingTypeOK, Threads
<1>6. n <= z /\ z < ring.size
  BY <1>1, <1>5
<1>7. Off(prod.tail)' = z - n
  BY <1>2, <1>6 DEF RingInv, RingTypeOK, Off
<1>8. RingInv'
  BY DequeueDoneInv
<1>9. /\ Contents \in Seq(Mbufs) /\ Len(Contents) = z
      /\ \A i \in 1..z : Contents[i] = slots[Slot(i - 1)]
  BY ContentsFacts
<1>10. /\ Contents' \in Seq(Mbufs) /\ Len(Contents') = z - n
       /\ \A i \in 1..(z - n) : Contents'[i] = slots'[Slot(n + (i - 1))]
  <2>1. /\ Contents' \in Seq(Mbufs) /\ Len(Contents') = z - n
        /\ \A i \in 1..(z - n) : Contents'[i] = slots'[Slot(i - 1)']
    BY <1>7, <1>8, ContentsNext DEF ContentsOK
  <2>2. \A i \in 1..(z - n) : i - 1 \in Nat
    BY <1>1, <1>5
  <2>3. \A x \in Nat : Slot(x)' = Slot(n + x)
    BY <1>2, <1>3 DEF Slot
  <2>4. QED
    BY <2>1, <2>2, <2>3
<1> HIDE DEF z, n
<1>11. s \in Seq(Mbufs) /\ Len(s) = n /\ \A j \in 1..n : s[j] = Contents[j]
  BY <1>1, <1>5, <1>6, <1>9
<1>12. s = got
  <2>1. \A j \in 1..n : s[j] = slots[Slot(j - 1)]
    BY <1>1, <1>5, <1>6, <1>9, <1>11
  <2>2. s = [j \in 1..n |-> s[j]]
    BY <1>1, <1>11
  <2>3. QED
    BY <2>1, <2>2
<1> HIDE DEF s, got
<1>13. r \in Seq(Mbufs) /\ Len(r) = z - n /\ \A i \in 1..(z - n) : r[i] = Contents[n + i]
  <2>1. Len(Contents) = z
    BY <1>9
  <2>2. \A i \in (n + 1)..z : Contents[i] \in Mbufs
    BY <1>1, <1>5, <1>9
  <2>3. /\ SubSeq(Contents, n + 1, z) \in Seq(Mbufs)
        /\ Len(SubSeq(Contents, n + 1, z)) = IF n + 1 <= z THEN z - (n + 1) + 1 ELSE 0
        /\ \A i \in 1..(z - (n + 1) + 1) : SubSeq(Contents, n + 1, z)[i] = Contents[(n + 1) + i - 1]
    BY <1>1, <1>5, <2>2, SubSeqProperties
  <2>4. z - (n + 1) + 1 = z - n /\ (IF n + 1 <= z THEN z - (n + 1) + 1 ELSE 0) = z - n
        /\ \A i \in 1..(z - n) : (n + 1) + i - 1 = n + i
    BY <1>1, <1>5, <1>6
  <2>5. QED
    BY <2>1, <2>3, <2>4
<1> HIDE DEF r
<1>14. \A i \in 1..(z - n) : Contents'[i] = r[i]
  <2> SUFFICES ASSUME NEW i \in 1..(z - n) PROVE Contents'[i] = r[i]
    OBVIOUS
  <2>1. /\ n + (i - 1) \in Nat /\ n <= n + (i - 1) /\ n + (i - 1) < ring.size
        /\ n + i \in 1..z /\ (n + i) - 1 = n + (i - 1)
    BY <1>1, <1>5, <1>6
  <2>2. Contents'[i] = slots[Slot(n + (i - 1))]
    BY <1>3, <1>10, <2>1
  <2>3. r[i] = slots[Slot((n + i) - 1)]
    BY <1>9, <1>13, <2>1
  <2>4. QED
    BY <2>1, <2>2, <2>3
<1>15. Contents' = r
  BY <1>10, <1>13, <1>14, SeqEqual
<1>16. n \in 1..Len(Contents)
  BY <1>1, <1>5, <1>6, <1>9
<1>17. UNCHANGED ring.cap
  BY <1>2
<1>18. QED
  BY <1>4, <1>12, <1>15, <1>16, <1>17 DEF Fifo!Take, s, n, r

(* Nothing of the ring changes. *)
LEMMA RingSame ==
  ASSUME RingInv, UNCHANGED ringVars
  PROVE  RingInv' /\ UNCHANGED <<Contents, ring.cap, hold>>
<1>1. UNCHANGED <<ring, slots, prod, cons, op, hold>>
  BY DEF ringVars
<1>2. hold' \in [Threads -> Seq(Mbufs)]
  BY <1>1 DEF RingInv, RingTypeOK
<1>3. RingInv'
  BY <1>1, <1>2, HoldInv
<1>4. QED
  BY <1>1, <1>3 DEF Contents

(* Every step keeps the invariant and is a step of the queue. *)
LEMMA AppStep ==
  ASSUME RingInv, AppInv, [Next]_vars
  PROVE  RingInv' /\ AppInv' /\ [Fifo!Next]_<<Contents, ring.cap, hold>>
<1> DEFINE Goal == RingInv' /\ AppInv' /\ [Fifo!Next]_<<Contents, ring.cap, hold>>
<1>1. CASE UNCHANGED vars
  BY <1>1, RingSame DEF vars, appVars, ringVars, AppInv
<1>2. CASE CreateMbufPool
  BY <1>2, RingSame DEF CreateMbufPool, AppInv, ringVars
<1>3. CASE PoolFree
  BY <1>3, RingSame DEF PoolFree, AppInv, ringVars
<1>4. CASE \E p \in Producers : ProducerReturns(p)
  BY <1>4, RingSame DEF ProducerReturns, Busy, AppInv, ringVars, Threads
<1>5. CASE \E c \in Consumers : ConsumerReturns(c)
  BY <1>5, RingSame DEF ConsumerReturns, Busy, AppInv, ringVars, Threads
<1>6. CASE \E c \in Clients : WalkStart(c) \/ Callback(c) \/ WalkReturn(c) \/ WalkPanics(c)
  <2>1. UNCHANGED ringVars /\ UNCHANGED <<main, pool, lost, working>>
    BY <1>6 DEF WalkStart, Callback, WalkReturn, WalkPanics, appVars
  <2>2. QED
    BY <2>1, RingSame DEF AppInv, ringVars
<1>7. CASE CreateRing
  <2>1. ring = NoRing /\ \A t \in Threads : op[t] = NoOp /\ hold[t] = << >>
    BY <1>7 DEF CreateRing, AppInv
  <2>2. /\ RingInv' /\ UNCHANGED <<op, hold>>
        /\ Contents' = << >> \/ UNCHANGED ringVars
    <3>1. CASE NoMemory
      BY <3>1, RingSame DEF NoMemory, ringVars
    <3>2. CASE \E count \in Counts, exact \in BOOLEAN : Create(count, exact) \/ New(count, exact)
      BY <2>1, <3>2, MakeInv
    <3>3. QED
      BY <1>7, <3>1, <3>2 DEF CreateRing
  <2>3. AppInv'
    BY <1>7, <2>1, <2>2 DEF CreateRing, AppInv
  <2>4. [Fifo!Next]_<<Contents, ring.cap, hold>>
    <3>1. CASE UNCHANGED ringVars
      BY <3>1, RingSame
    <3>2. CASE Contents' = << >>
      BY <2>2, <3>2 DEF RingInv, RingTypeOK, Fifo!Next, Fifo!Resize
    <3>3. QED
      BY <2>2, <3>1, <3>2
  <2>5. QED
    BY <2>2, <2>3, <2>4
<1>8. CASE FreeRing
  <2>1. \A t \in Threads : op[t] = NoOp /\ hold[t] = << >>
    BY <1>8 DEF FreeRing, AppInv
  <2>2. op' = [t \in Threads |-> NoOp] /\ hold' \in [Threads -> Seq(Mbufs)]
    BY <1>8, <2>1 DEF FreeRing, Free, RingInv, RingTypeOK
  <2>3. Fresh'
    BY <1>8, <2>2, NoRingFacts DEF FreeRing, Free, Fresh
  <2>4. RingInv' /\ Contents' = << >>
    BY <2>3, FreshNext
  <2>5. AppInv'
    BY <1>8, <2>1 DEF FreeRing, Free, AppInv
  <2>6. Fifo!Resize
    BY <1>8, <2>4 DEF FreeRing, Free, RingInv, RingTypeOK, Fifo!Resize
  <2>7. QED
    BY <2>4, <2>5, <2>6 DEF Fifo!Next
<1>9. ASSUME NEW t \in Threads, t \in working, op[t] = NoOp, hold' \in [Threads -> Seq(Mbufs)],
             \A u \in Threads \ {t} : hold'[u] = hold[u],
             UNCHANGED <<ring, slots, prod, cons, op>>
      PROVE  RingInv' /\ Fifo!Next
  <2>1. RingInv'
    BY <1>9, HoldInv DEF NoOp
  <2>2. Fifo!Elsewhere(t)
    BY <1>9 DEF Fifo!Elsewhere, Contents
  <2>3. QED
    BY <1>9, <2>1, <2>2 DEF Fifo!Next
<1>10. ASSUME NEW p \in Producers, NEW fits \in BOOLEAN, AllocResetAndAppend(p, fits)
       PROVE  Goal
  <2>1. p \in Threads /\ p \in working /\ op[p] = NoOp
    BY <1>10 DEF AllocResetAndAppend, Busy, Threads
  <2>2. PICK m \in pool :
          /\ pool' = pool \ {m}
          /\ IF fits THEN hold' = [hold EXCEPT ![p] = Append(@, m)] /\ UNCHANGED lost
                     ELSE lost' = lost \cup {m} /\ UNCHANGED hold
    BY <1>10 DEF AllocResetAndAppend
  <2>3. m \in Mbufs /\ hold \in [Threads -> Seq(Mbufs)]
    BY DEF AppInv, RingInv, RingTypeOK
  <2>4. Append(hold[p], m) \in Seq(Mbufs)
    BY <2>1, <2>3
  <2>5. hold' \in [Threads -> Seq(Mbufs)] /\ \A u \in Threads \ {p} : hold'[u] = hold[u]
    BY <2>1, <2>2, <2>3, <2>4
  <2>6. UNCHANGED <<ring, slots, prod, cons, op, main, working>>
    BY <1>10 DEF AllocResetAndAppend
  <2>7. AppInv'
    BY <2>1, <2>2, <2>3, <2>5, <2>6 DEF AppInv
  <2>8. QED
    BY <1>9, <2>1, <2>5, <2>6, <2>7
<1>11. ASSUME NEW t \in Threads, PktMbufFreeBulk(t)
       PROVE  Goal
  <2>1. /\ t \in working /\ op[t] = NoOp /\ hold' = [hold EXCEPT ![t] = << >>]
        /\ pool' = pool \cup {hold[t][i] : i \in DOMAIN hold[t]}
        /\ UNCHANGED <<ring, slots, prod, cons, op, main, lost, working>>
    BY <1>11 DEF PktMbufFreeBulk, Busy
  <2>2. hold \in [Threads -> Seq(Mbufs)]
    BY DEF RingInv, RingTypeOK
  <2>3. hold' \in [Threads -> Seq(Mbufs)] /\ \A u \in Threads \ {t} : hold'[u] = hold[u]
    BY <2>1, <2>2
  <2>4. pool' \subseteq Mbufs
    <3>1. \A i \in DOMAIN hold[t] : hold[t][i] \in Mbufs
      BY <2>2
    <3>2. QED
      BY <2>1, <3>1 DEF AppInv
  <2>5. AppInv'
    BY <2>1, <2>3, <2>4 DEF AppInv
  <2>6. QED
    BY <1>9, <2>1, <2>3, <2>5
<1>12. ASSUME NEW t \in Threads, t \in working, UNCHANGED appVars, UNCHANGED ring,
              \A u \in Threads \ {t} : op'[u] = op[u] /\ hold'[u] = hold[u]
       PROVE  AppInv'
  BY <1>12 DEF AppInv, appVars
<1>13. ASSUME NEW p \in Producers, Send(p)
       PROVE  Goal
  <2>1. p \in Threads /\ p \in working /\ UNCHANGED appVars
    BY <1>13 DEF Send, Threads
  <2>2. ASSUME NEW n \in 1..MaxBatch, NEW bulk \in BOOLEAN, Enqueue(p, n, bulk)
        PROVE  Goal
    <3>1. n \in Nat
      BY <2>2, RingAssumption
    <3>2. RingInv'
      BY <2>2, <3>1, EnqueueInv
    <3>3. UNCHANGED <<ring, slots, cons, hold>> /\ prod'.tail = prod.tail
          /\ \A u \in Threads \ {p} : op'[u] = op[u]
      BY <2>2 DEF Enqueue, Reserve, RingInv, RingTypeOK
    <3>4. UNCHANGED <<Contents, ring.cap, hold>>
      BY <3>3 DEF Contents
    <3>5. AppInv'
      BY <1>12, <2>1, <3>3
    <3>6. QED
      BY <3>2, <3>4, <3>5
  <2>3. CASE EnqueueDone(p)
    <3>1. RingInv' /\ op[p].n \in 1..Len(hold[p]) /\ Fifo!Put(p, op[p].n)
      BY <2>3, EnqueueDoneInv, PutStep
    <3>2. UNCHANGED ring /\ \A u \in Threads \ {p} : op'[u] = op[u] /\ hold'[u] = hold[u]
      BY <2>3 DEF EnqueueDone, Publish, RingInv, RingTypeOK
    <3>3. AppInv'
      BY <1>12, <2>1, <3>2
    <3>4. QED
      BY <2>1, <3>1, <3>3 DEF Fifo!Next
  <2>4. QED
    BY <1>13, <2>2, <2>3 DEF Send
<1>14. ASSUME NEW c \in Consumers, Receive(c)
       PROVE  Goal
  <2>1. c \in Threads /\ c \in working /\ UNCHANGED appVars
    BY <1>14 DEF Receive, Threads
  <2>2. ASSUME NEW n \in 1..MaxBatch, NEW bulk \in BOOLEAN, Dequeue(c, n, bulk)
        PROVE  Goal
    <3>1. n \in Nat
      BY <2>2, RingAssumption
    <3>2. RingInv'
      BY <2>2, <3>1, DequeueInv
    <3>3. UNCHANGED <<ring, slots, prod, hold>> /\ cons'.tail = cons.tail
          /\ \A u \in Threads \ {c} : op'[u] = op[u]
      BY <2>2 DEF Dequeue, Reserve, RingInv, RingTypeOK
    <3>4. UNCHANGED <<Contents, ring.cap, hold>>
      BY <3>3 DEF Contents
    <3>5. AppInv'
      BY <1>12, <2>1, <3>3
    <3>6. QED
      BY <3>2, <3>4, <3>5
  <2>3. CASE DequeueDone(c)
    <3>1. RingInv' /\ op[c].n \in 1..Len(Contents) /\ Fifo!Take(c, op[c].n)
      BY <2>3, DequeueDoneInv, TakeStep
    <3>2. UNCHANGED ring /\ \A u \in Threads \ {c} : op'[u] = op[u] /\ hold'[u] = hold[u]
      BY <2>3 DEF DequeueDone, RingInv, RingTypeOK
    <3>3. AppInv'
      BY <1>12, <2>1, <3>2
    <3>4. QED
      BY <2>1, <3>1, <3>3 DEF Fifo!Next
  <2>4. QED
    BY <1>14, <2>2, <2>3 DEF Receive
<1>15. QED
  BY <1>1, <1>2, <1>3, <1>4, <1>5, <1>6, <1>7, <1>8, <1>10, <1>11, <1>13, <1>14 DEF Next

(* The invariant of the ring and of the program around it. *)
THEOREM RingInvariant == Spec => [](RingInv /\ AppInv)
<1>1. RingInv /\ AppInv /\ [Next]_vars => (RingInv /\ AppInv)'
  BY AppStep
<1>2. QED
  BY <1>1, AppInitInv, PTL DEF Spec

(* With any number of producers and consumers, tables and batches of any   *)
(* size, and cursors that wrap around, the ring of ring.go is a queue of   *)
(* bounded capacity: every enqueue adds a prefix of its objects at the end *)
(* and every dequeue returns exactly the oldest ones.                      *)
THEOREM RingIsFifo == Spec => IsFifo
<1>1. Init => Fifo!Init
  BY AppInitInv, FreshEmpty, NoRingFacts DEF Init, RingInit, Fifo!Init, Fresh, NoRing
<1>2. RingInv /\ AppInv /\ [Next]_vars =>
        (RingInv /\ AppInv)' /\ [Fifo!Next]_<<Contents, ring.cap, hold>>
  BY AppStep
<1>3. QED
  BY <1>1, <1>2, AppInitInv, PTL DEF Spec, IsFifo, Fifo!Spec

-----------------------------------------------------------------------------
(* Every mbuf is in one place. *)

Elems(s) == {s[i] : i \in DOMAIN s}
Once(s) == \A i, j \in DOMAIN s : s[i] = s[j] => i = j

(* Elements of a concatenation. *)
LEMMA ConcatElems ==
  ASSUME NEW S, NEW s \in Seq(S), NEW u \in Seq(S)
  PROVE  /\ Elems(s \o u) = Elems(s) \cup Elems(u)
         /\ Once(s) /\ Once(u) /\ Elems(s) \cap Elems(u) = {} => Once(s \o u)
<1> DEFINE v == s \o u
           a == Len(s)
           b == Len(u)
<1>1. /\ a \in Nat /\ b \in Nat /\ DOMAIN s = 1..a /\ DOMAIN u = 1..b /\ DOMAIN v = 1..(a + b)
      /\ \A i \in 1..(a + b) : v[i] = IF i <= a THEN s[i] ELSE u[i - a]
  <2>1. Len(v) = a + b /\ v \in Seq(S)
        /\ \A i \in 1..(a + b) : v[i] = IF i <= a THEN s[i] ELSE u[i - a]
    BY ConcatProperties
  <2>2. QED
    BY <2>1, LenProperties
<1> HIDE DEF v, a, b
<1>2. \A i \in 1..a : i \in 1..(a + b) /\ v[i] = s[i]
  BY <1>1
<1>3. \A i \in 1..b : i + a \in 1..(a + b) /\ v[i + a] = u[i]
  BY <1>1
<1>4. \A i \in 1..(a + b) : i \in 1..a \/ (i - a \in 1..b /\ v[i] = u[i - a])
  BY <1>1
<1>5. Elems(v) = Elems(s) \cup Elems(u)
  <2>1. ASSUME NEW i \in DOMAIN v PROVE v[i] \in Elems(s) \cup Elems(u)
    BY <1>1, <1>2, <1>4 DEF Elems
  <2>2. ASSUME NEW i \in DOMAIN s PROVE s[i] \in Elems(v)
    BY <1>1, <1>2 DEF Elems
  <2>3. ASSUME NEW i \in DOMAIN u PROVE u[i] \in Elems(v)
    BY <1>1, <1>3 DEF Elems
  <2>4. Elems(v) \subseteq Elems(s) \cup Elems(u)
    BY <2>1 DEF Elems
  <2>5. Elems(s) \subseteq Elems(v)
    BY <2>2 DEF Elems
  <2>6. Elems(u) \subseteq Elems(v)
    BY <2>3 DEF Elems
  <2>7. QED
    BY <2>4, <2>5, <2>6
<1>6. ASSUME Once(s), Once(u), Elems(s) \cap Elems(u) = {}
      PROVE  Once(v)
  <2> SUFFICES ASSUME NEW i \in 1..(a + b), NEW j \in 1..(a + b), v[i] = v[j] PROVE i = j
    BY <1>1 DEF Once
  <2>1. \A k \in 1..a : s[k] \in Elems(s)
    BY <1>1 DEF Elems
  <2>2. \A k \in 1..b : u[k] \in Elems(u)
    BY <1>1 DEF Elems
  <2>3. CASE i \in 1..a /\ j \in 1..a
    BY <1>1, <1>2, <1>6, <2>3 DEF Once
  <2>4. CASE i \in 1..a /\ ~(j \in 1..a)
    BY <1>2, <1>4, <1>6, <2>1, <2>2, <2>4
  <2>5. CASE ~(i \in 1..a) /\ j \in 1..a
    BY <1>2, <1>4, <1>6, <2>1, <2>2, <2>5
  <2>6. CASE ~(i \in 1..a) /\ ~(j \in 1..a)
    <3>1. i - a \in 1..b /\ j - a \in 1..b /\ u[i - a] = u[j - a]
      BY <1>4, <2>6
    <3>2. i - a = j - a
      BY <1>1, <1>6, <3>1 DEF Once
    <3>3. QED
      BY <1>1, <3>2
  <2>7. QED
    BY <2>3, <2>4, <2>5, <2>6
<1>7. QED
  BY <1>5, <1>6 DEF v

(* Elements of the two parts of a sequence. *)
LEMMA SplitElems ==
  ASSUME NEW S, NEW s \in Seq(S), NEW n \in 0..Len(s)
  PROVE  /\ SubSeq(s, 1, n) \in Seq(S) /\ SubSeq(s, n + 1, Len(s)) \in Seq(S)
         /\ Elems(s) = Elems(SubSeq(s, 1, n)) \cup Elems(SubSeq(s, n + 1, Len(s)))
         /\ Once(s) => /\ Once(SubSeq(s, 1, n)) /\ Once(SubSeq(s, n + 1, Len(s)))
                       /\ Elems(SubSeq(s, 1, n)) \cap Elems(SubSeq(s, n + 1, Len(s))) = {}
<1> DEFINE a == Len(s)
           u == SubSeq(s, 1, n)
           v == SubSeq(s, n + 1, Len(s))
<1>1. /\ a \in Nat /\ n \in Nat /\ n <= a /\ DOMAIN s = 1..a
      /\ u \in Seq(S) /\ DOMAIN u = 1..n /\ \A i \in 1..n : u[i] = s[i]
  BY LenProperties
<1>2. /\ v \in Seq(S) /\ DOMAIN v = 1..(a - n) /\ \A i \in 1..(a - n) : v[i] = s[n + i]
  <2>1. \A i \in (n + 1)..a : s[i] \in S
    BY <1>1
  <2>2. /\ v \in Seq(S) /\ Len(v) = IF n + 1 <= a THEN a - (n + 1) + 1 ELSE 0
        /\ \A i \in 1..(a - (n + 1) + 1) : v[i] = s[(n + 1) + i - 1]
    BY <1>1, <2>1, SubSeqProperties
  <2> HIDE DEF u, v, a
  <2>3. a - (n + 1) + 1 = a - n /\ (IF n + 1 <= a THEN a - (n + 1) + 1 ELSE 0) = a - n
        /\ \A i \in 1..(a - n) : (n + 1) + i - 1 = n + i
    BY <1>1
  <2>4. Len(v) = a - n /\ \A i \in 1..(a - n) : v[i] = s[n + i]
    BY <2>2, <2>3
  <2>5. QED
    BY <2>2, <2>4, LenProperties
<1> HIDE DEF u, v, a
<1>3. \A i \in 1..a : i \in 1..n \/ (i - n \in 1..(a - n) /\ s[i] = v[i - n])
  <2>1. \A i \in 1..a : i \in 1..n \/ (i - n \in 1..(a - n) /\ n + (i - n) = i)
    BY <1>1
  <2>2. QED
    BY <1>2, <2>1
<1>4. \A i \in 1..n : i \in 1..a
  BY <1>1
<1>5. \A i \in 1..(a - n) : n + i \in 1..a /\ n + i \notin 1..n
  BY <1>1
<1>6. Elems(s) = Elems(u) \cup Elems(v)
  BY <1>1, <1>2, <1>3, <1>4, <1>5 DEF Elems
<1>7. ASSUME Once(s) PROVE Once(u) /\ Once(v) /\ Elems(u) \cap Elems(v) = {}
  <2>1. Once(u)
    BY <1>1, <1>4, <1>7 DEF Once
  <2>2. ASSUME NEW i \in 1..(a - n), NEW j \in 1..(a - n), v[i] = v[j] PROVE i = j
    <3>1. n + i = n + j
      BY <1>1, <1>2, <1>5, <1>7, <2>2 DEF Once
    <3>2. QED
      BY <1>1, <3>1
  <2>3. Once(v)
    BY <1>2, <2>2 DEF Once
  <2>4. ASSUME NEW i \in 1..n, NEW j \in 1..(a - n), u[i] = v[j] PROVE FALSE
    <3>1. i = n + j
      BY <1>1, <1>2, <1>4, <1>5, <1>7, <2>4 DEF Once
    <3>2. QED
      BY <1>5, <3>1
  <2>5. QED
    BY <1>1, <1>2, <2>1, <2>3, <2>4 DEF Elems
<1>8. QED
  BY <1>1, <1>2, <1>6, <1>7 DEF u, v, a

(* A consumer returns only when nothing is left to take, and nothing more  *)
(* will come.                                                              *)
DrainInv ==
  main = "run" /\ ~(Consumers \subseteq working) =>
    working \cap Producers = {} /\ Available = 0

(* No mbuf is in two places, nor twice in one. *)
Distinct ==
  /\ Once(Contents) /\ \A t \in Threads : Once(hold[t])
  /\ pool \cap lost = {}
  /\ Elems(Contents) \cap (pool \cup lost) = {}
  /\ \A t \in Threads : Elems(hold[t]) \cap (pool \cup lost \cup Elems(Contents)) = {}
  /\ \A t, u \in Threads : t # u => Elems(hold[t]) \cap Elems(hold[u]) = {}

(* Every mbuf is somewhere, while there is a mempool. *)
Complete ==
  main \in {"pool", "run", "freeing", "failed"} =>
    \A m \in Mbufs : \/ m \in pool \cup lost \cup Elems(Contents)
                     \/ \E t \in Threads : m \in Elems(hold[t])

OwnInv == DrainInv /\ Distinct /\ Complete

(* Without a ring nothing is in the ring, and when all threads have        *)
(* returned nothing is left in it.                                         *)
LEMMA EmptyRing ==
  ASSUME RingInv, AppInv, DrainInv, Consumers # {}, working = {}
  PROVE  Contents = << >>
<1>1. /\ Off(cons.head) \in Nat /\ Off(prod.tail) \in Nat /\ Off(prod.head) \in Nat
      /\ Off(cons.head) <= Off(prod.tail) /\ Off(prod.tail) <= Off(prod.head)
      /\ Off(prod.head) <= ring.cap /\ ring.cap \in Nat
  BY OffTypes DEF RingInv, CursorInv
<1>2. Off(prod.tail) = 0
  <2>1. CASE main # "run"
    <3>1. ring.cap = 0
      BY <2>1 DEF AppInv, NoRing
    <3>2. QED
      BY <1>1, <3>1
  <2>2. CASE main = "run"
    <3>1. \A t \in Threads : op[t].n = 0
      BY DEF AppInv, NoOp
    <3>2. Off(cons.head) = 0
      <4>1. ~(0 < Off(cons.head))
        BY <3>1 DEF RingInv, CoverInv, Threads
      <4>2. QED
        BY <1>1, <4>1
    <3>3. Available = 0
      BY <2>2 DEF DrainInv
    <3>4. Available = Off(prod.tail) - Off(cons.head)
      BY <1>1, DistDiff DEF Available, Off, Dist, RingInv, RingTypeOK
    <3>5. QED
      BY <1>1, <3>2, <3>3, <3>4
  <2>3. QED
    BY <2>1, <2>2
<1>3. QED
  BY <1>2, ContentsFacts

(* The empty sequence has no elements. *)
LEMMA ElemsEmpty == Elems(<< >>) = {} /\ Once(<< >>)
BY DEF Elems, Once

(* DrainInv only depends on what threads do while main waits for them. *)
LEMMA DrainStep ==
  ASSUME RingInv, AppInv, DrainInv, [Next]_vars
  PROVE  DrainInv'
<1>1. CASE UNCHANGED vars
  BY <1>1 DEF vars, appVars, ringVars, DrainInv, Available
<1>2. CASE CreateMbufPool \/ PoolFree \/ FreeRing
  BY <1>2 DEF CreateMbufPool, PoolFree, FreeRing, DrainInv
<1>3. CASE CreateRing
  BY <1>3 DEF CreateRing, DrainInv, Threads
<1>4. ASSUME NEW p \in Producers, ProducerReturns(p)
      PROVE  DrainInv'
  BY <1>4, RingAssumption DEF ProducerReturns, Busy, DrainInv, Available, ringVars
<1>5. ASSUME NEW c \in Consumers, ConsumerReturns(c)
      PROVE  DrainInv'
  BY <1>5 DEF ConsumerReturns, Busy, DrainInv, Available, ringVars
<1>6. CASE \E c \in Clients : WalkStart(c) \/ Callback(c) \/ WalkReturn(c) \/ WalkPanics(c)
  <2>1. UNCHANGED ringVars /\ UNCHANGED <<main, working>>
    BY <1>6 DEF WalkStart, Callback, WalkReturn, WalkPanics, appVars
  <2>2. QED
    BY <2>1 DEF DrainInv, Available, ringVars
<1>7. CASE \E p \in Producers, fits \in BOOLEAN : AllocResetAndAppend(p, fits)
  BY <1>7 DEF AllocResetAndAppend, DrainInv, Available
<1>8. CASE \E t \in Threads : PktMbufFreeBulk(t)
  BY <1>8 DEF PktMbufFreeBulk, DrainInv, Available
<1>9. ASSUME NEW p \in Producers, Send(p)
      PROVE  DrainInv'
  BY <1>9 DEF Send, DrainInv, appVars
<1>10. ASSUME NEW c \in Consumers, Receive(c)
       PROVE  DrainInv'
  <2>1. UNCHANGED <<main, working>> /\ c \in working
    BY <1>10 DEF Receive, appVars
  <2>2. CASE DequeueDone(c)
    <3>1. UNCHANGED prod /\ cons'.head = cons.head
      BY <2>2, DequeueDoneFacts
    <3>2. QED
      BY <2>1, <3>1 DEF DrainInv, Available
  <2>3. ASSUME NEW n \in 1..MaxBatch, NEW bulk \in BOOLEAN, Dequeue(c, n, bulk), Available = 0
        PROVE  FALSE
    BY <2>3, RingAssumption DEF Dequeue, Granted
  <2>4. QED
    BY <1>10, <2>1, <2>2, <2>3 DEF Receive, DrainInv
<1>11. QED
  BY <1>1, <1>2, <1>3, <1>4, <1>5, <1>6, <1>7, <1>8, <1>9, <1>10 DEF Next

(* Objects move between the hands of a thread and the queue. *)
LEMMA MoveOwn ==
  ASSUME RingInv, Distinct, Complete, NEW t \in Threads,
         UNCHANGED <<pool, lost, main>>,
         \A u \in Threads \ {t} : hold'[u] = hold[u],
         Once(Contents'), Once(hold'[t]),
         Elems(Contents') \cap Elems(hold'[t]) = {},
         Elems(Contents') \cup Elems(hold'[t]) = Elems(Contents) \cup Elems(hold[t])
  PROVE  Distinct' /\ Complete'
<1>1. /\ Once(Contents)' /\ \A u \in Threads : Once(hold[u])'
      /\ (pool \cap lost = {})'
  BY DEF Distinct
<1>2. Elems(Contents') \cap (pool \cup lost) = {} /\ Elems(hold'[t]) \cap (pool \cup lost) = {}
  BY DEF Distinct
<1>3. \A u \in Threads \ {t} :
        /\ Elems(hold[u]) \cap (pool \cup lost) = {}
        /\ Elems(hold[u]) \cap Elems(Contents') = {} /\ Elems(hold[u]) \cap Elems(hold'[t]) = {}
  BY DEF Distinct
<1>4. \A u \in Threads : Elems(hold'[u]) \cap (pool' \cup lost' \cup Elems(Contents')) = {}
  BY <1>2, <1>3
<1>5. \A u, v \in Threads : u # v => Elems(hold'[u]) \cap Elems(hold'[v]) = {}
  <2>1. \A u, v \in Threads \ {t} : u # v => Elems(hold'[u]) \cap Elems(hold'[v]) = {}
    BY DEF Distinct
  <2>2. \A u \in Threads \ {t} :
          Elems(hold'[u]) \cap Elems(hold'[t]) = {} /\ Elems(hold'[t]) \cap Elems(hold'[u]) = {}
    BY <1>3
  <2>3. QED
    BY <2>1, <2>2
<1>6. Distinct'
  BY <1>1, <1>2, <1>4, <1>5 DEF Distinct
<1>7. ASSUME main \in {"pool", "run", "freeing", "failed"}, NEW m \in Mbufs
      PROVE  \/ m \in pool' \cup lost' \cup Elems(Contents')
             \/ \E u \in Threads : m \in Elems(hold'[u])
  <2>1. CASE m \in pool \cup lost
    BY <2>1
  <2>2. CASE m \in Elems(Contents) \cup Elems(hold[t])
    BY <2>2
  <2>3. CASE \E u \in Threads \ {t} : m \in Elems(hold[u])
    BY <2>3
  <2>4. QED
    BY <1>7, <2>1, <2>2, <2>3 DEF Complete
<1>8. QED
  BY <1>6, <1>7 DEF Complete

(* An enqueue that ends moves mbufs from its thread to the ring. *)
LEMMA PutOwn ==
  ASSUME RingInv, Distinct, Complete, NEW p \in Producers, EnqueueDone(p), UNCHANGED appVars
  PROVE  Distinct' /\ Complete'
<1> DEFINE n == op[p].n
           s == SubSeq(hold[p], 1, n)
           r == SubSeq(hold[p], n + 1, Len(hold[p]))
<1>1. n \in 1..Len(hold[p]) /\ Fifo!Put(p, n)
  BY PutStep
<1>2. /\ p \in Threads /\ hold \in [Threads -> Seq(Mbufs)] /\ hold[p] \in Seq(Mbufs)
      /\ Contents \in Seq(Mbufs) /\ n \in 0..Len(hold[p])
  BY <1>1, ContentsFacts DEF RingInv, RingTypeOK, Threads
<1>3. /\ Contents' = Contents \o s /\ hold'[p] = r
      /\ \A u \in Threads \ {p} : hold'[u] = hold[u]
  BY <1>1, <1>2 DEF Fifo!Put
<1>4. /\ s \in Seq(Mbufs) /\ Elems(hold[p]) = Elems(s) \cup Elems(r)
      /\ Once(s) /\ Once(r) /\ Elems(s) \cap Elems(r) = {}
  BY <1>2, SplitElems DEF Distinct
<1> HIDE DEF s, r, n
<1>5. Elems(hold[p]) \cap Elems(Contents) = {} /\ Once(Contents)
  BY <1>2 DEF Distinct
<1>6. Elems(Contents \o s) = Elems(Contents) \cup Elems(s) /\ Once(Contents \o s)
  BY <1>2, <1>4, <1>5, ConcatElems
<1>7. Elems(Contents') \cap Elems(hold'[p]) = {}
      /\ Elems(Contents') \cup Elems(hold'[p]) = Elems(Contents) \cup Elems(hold[p])
  BY <1>3, <1>4, <1>5, <1>6
<1>8. QED
  BY <1>2, <1>3, <1>4, <1>6, <1>7, MoveOwn DEF appVars

(* A dequeue that ends moves mbufs from the ring to its thread. *)
LEMMA TakeOwn ==
  ASSUME RingInv, Distinct, Complete, NEW c \in Consumers, DequeueDone(c), UNCHANGED appVars
  PROVE  Distinct' /\ Complete'
<1> DEFINE n == op[c].n
           s == SubSeq(Contents, 1, n)
           r == SubSeq(Contents, n + 1, Len(Contents))
<1>1. n \in 1..Len(Contents) /\ Fifo!Take(c, n)
  BY TakeStep
<1>2. /\ c \in Threads /\ hold \in [Threads -> Seq(Mbufs)] /\ hold[c] \in Seq(Mbufs)
      /\ Contents \in Seq(Mbufs) /\ n \in 0..Len(Contents)
  BY <1>1, ContentsFacts DEF RingInv, RingTypeOK, Threads
<1>3. /\ Contents' = r /\ hold'[c] = hold[c] \o s
      /\ \A u \in Threads \ {c} : hold'[u] = hold[u]
  BY <1>1, <1>2 DEF Fifo!Take
<1>4. /\ s \in Seq(Mbufs) /\ Elems(Contents) = Elems(s) \cup Elems(r)
      /\ Once(s) /\ Once(r) /\ Elems(s) \cap Elems(r) = {}
  BY <1>2, SplitElems DEF Distinct
<1> HIDE DEF s, r, n
<1>5. Elems(hold[c]) \cap Elems(Contents) = {} /\ Once(hold[c])
  BY <1>2 DEF Distinct
<1>6. Elems(hold[c] \o s) = Elems(hold[c]) \cup Elems(s) /\ Once(hold[c] \o s)
  BY <1>2, <1>4, <1>5, ConcatElems
<1>7. Elems(Contents') \cap Elems(hold'[c]) = {}
      /\ Elems(Contents') \cup Elems(hold'[c]) = Elems(Contents) \cup Elems(hold[c])
  BY <1>3, <1>4, <1>5, <1>6
<1>8. QED
  BY <1>2, <1>3, <1>4, <1>6, <1>7, MoveOwn DEF appVars

(* Elements of a sequence with one more. *)
LEMMA AppendElems ==
  ASSUME NEW S, NEW s \in Seq(S), NEW m \in S
  PROVE  /\ Elems(Append(s, m)) = Elems(s) \cup {m}
         /\ Once(s) /\ m \notin Elems(s) => Once(Append(s, m))
<1>1. <<m>> \in Seq(S) /\ Append(s, m) = s \o <<m>>
  OBVIOUS
<1>2. Elems(<<m>>) = {m} /\ Once(<<m>>)
  BY DEF Elems, Once
<1>3. /\ Elems(s \o <<m>>) = Elems(s) \cup Elems(<<m>>)
      /\ Once(s) /\ Once(<<m>>) /\ Elems(s) \cap Elems(<<m>>) = {} => Once(s \o <<m>>)
  BY <1>1, ConcatElems
<1>4. QED
  BY <1>1, <1>2, <1>3

(* An mbuf moves from the mempool to a producer, or is dropped. *)
LEMMA AllocOwn ==
  ASSUME RingInv, AppInv, Distinct, Complete,
         NEW p \in Producers, NEW fits \in BOOLEAN, AllocResetAndAppend(p, fits)
  PROVE  Distinct' /\ Complete'
<1>1. p \in Threads /\ hold[p] \in Seq(Mbufs) /\ hold \in [Threads -> Seq(Mbufs)]
  BY DEF RingInv, RingTypeOK, Threads
<1>2. PICK m \in pool :
        /\ pool' = pool \ {m}
        /\ IF fits THEN hold' = [hold EXCEPT ![p] = Append(@, m)] /\ UNCHANGED lost
                   ELSE lost' = lost \cup {m} /\ UNCHANGED hold
  BY DEF AllocResetAndAppend
<1>3. /\ m \in Mbufs /\ m \notin lost /\ m \notin Elems(Contents)
      /\ \A t \in Threads : m \notin Elems(hold[t])
  BY DEF AppInv, Distinct
<1>4. UNCHANGED main /\ UNCHANGED Contents
  BY DEF AllocResetAndAppend, Contents
<1>5. CASE ~fits
  BY <1>2, <1>3, <1>4, <1>5 DEF Distinct, Complete
<1>6. CASE fits
  <2>1. /\ hold'[p] = Append(hold[p], m) /\ \A t \in Threads \ {p} : hold'[t] = hold[t]
        /\ UNCHANGED lost
    BY <1>1, <1>2, <1>6
  <2>2. Elems(hold'[p]) = Elems(hold[p]) \cup {m} /\ Once(hold'[p])
    BY <1>1, <1>3, <2>1, AppendElems DEF Distinct
  <2>3. \A t \in Threads : Once(hold'[t])
    BY <2>1, <2>2 DEF Distinct
  <2>4. \A t \in Threads : Elems(hold'[t]) \cap (pool' \cup lost' \cup Elems(Contents')) = {}
    <3>1. \A t \in Threads : Elems(hold[t]) \cap (pool \cup lost \cup Elems(Contents)) = {}
      BY DEF Distinct
    <3>2. pool' \cup lost' \cup Elems(Contents') = (pool \ {m}) \cup lost \cup Elems(Contents)
      BY <1>2, <1>4, <2>1
    <3>3. Elems(hold'[p]) \cap ((pool \ {m}) \cup lost \cup Elems(Contents)) = {}
      BY <1>1, <1>3, <2>2, <3>1
    <3>4. \A t \in Threads \ {p} :
            Elems(hold'[t]) \cap ((pool \ {m}) \cup lost \cup Elems(Contents)) = {}
      BY <2>1, <3>1
    <3>5. QED
      BY <3>2, <3>3, <3>4
  <2>5. \A t, u \in Threads : t # u => Elems(hold'[t]) \cap Elems(hold'[u]) = {}
    <3>1. \A t, u \in Threads \ {p} : t # u => Elems(hold'[t]) \cap Elems(hold'[u]) = {}
      BY <2>1 DEF Distinct
    <3>2. \A t \in Threads \ {p} :
            Elems(hold'[t]) \cap Elems(hold'[p]) = {} /\ Elems(hold'[p]) \cap Elems(hold'[t]) = {}
      BY <1>1, <1>3, <2>1, <2>2 DEF Distinct
    <3>3. QED
      BY <3>1, <3>2
  <2>6. Distinct'
    BY <1>2, <1>4, <2>1, <2>3, <2>4, <2>5 DEF Distinct
  <2>7. ASSUME NEW x \in Mbufs, NEW t \in Threads, x \in Elems(hold[t])
        PROVE  \E u \in Threads : x \in Elems(hold'[u])
    BY <1>1, <2>1, <2>2, <2>7
  <2>8. m \in Elems(hold'[p])
    BY <2>2
  <2>9. Complete'
    BY <1>1, <1>2, <1>4, <2>1, <2>7, <2>8 DEF Complete
  <2>10. QED
    BY <2>6, <2>9
<1>7. QED
  BY <1>5, <1>6

(* What a thread has in its hands goes back to the mempool. *)
LEMMA FreeOwn ==
  ASSUME RingInv, Distinct, Complete, NEW t \in Threads, PktMbufFreeBulk(t)
  PROVE  Distinct' /\ Complete'
<1>1. /\ hold' = [hold EXCEPT ![t] = << >>] /\ pool' = pool \cup Elems(hold[t])
      /\ UNCHANGED <<ring, slots, prod, cons, main, lost>>
  BY DEF PktMbufFreeBulk, Elems
<1>2. hold'[t] = << >> /\ \A u \in Threads \ {t} : hold'[u] = hold[u]
  BY <1>1 DEF RingInv, RingTypeOK
<1>3. UNCHANGED Contents
  BY <1>1 DEF Contents
<1>4. Elems(hold'[t]) = {} /\ Once(hold'[t])
  BY <1>2, ElemsEmpty
<1>5. \A u \in Threads : Once(hold'[u])
  BY <1>2, <1>4 DEF Distinct
<1>6. \A u \in Threads : Elems(hold'[u]) \cap (pool' \cup lost' \cup Elems(Contents')) = {}
  BY <1>1, <1>2, <1>3, <1>4 DEF Distinct
<1>7. \A u, v \in Threads : u # v => Elems(hold'[u]) \cap Elems(hold'[v]) = {}
  BY <1>2, <1>4 DEF Distinct
<1>8. pool' \cap lost' = {} /\ Elems(Contents') \cap (pool' \cup lost') = {} /\ Once(Contents')
  BY <1>1, <1>3 DEF Distinct
<1>9. Distinct'
  BY <1>5, <1>6, <1>7, <1>8 DEF Distinct
<1>10. Complete'
  BY <1>1, <1>2, <1>3 DEF Complete
<1>11. QED
  BY <1>9, <1>10

(* Every step keeps each mbuf in one place. *)
LEMMA OwnStep ==
  ASSUME Consumers # {}, RingInv, AppInv, OwnInv, [Next]_vars
  PROVE  OwnInv'
<1> DEFINE Goal == Distinct' /\ Complete'
<1> SUFFICES Goal
  BY DrainStep DEF OwnInv
<1>1. ASSUME UNCHANGED ringVars, UNCHANGED <<pool, lost>>,
             main' \in {"pool", "run", "freeing", "failed"} =>
               main \in {"pool", "run", "freeing", "failed"}
      PROVE  Goal
  <2>1. UNCHANGED <<Contents, hold>>
    BY <1>1 DEF ringVars, Contents
  <2>2. QED
    BY <1>1, <2>1 DEF OwnInv, Distinct, Complete
<1>2. CASE UNCHANGED vars
  BY <1>1, <1>2 DEF vars, appVars
<1>3. CASE CreateMbufPool
  <2>1. working = {} /\ UNCHANGED ringVars /\ UNCHANGED lost
    BY <1>3 DEF CreateMbufPool, AppInv
  <2>2. CASE main' = "pool" /\ pool' = Mbufs \ lost
    <3>1. Contents = << >> /\ \A t \in Threads : hold[t] = << >>
      BY <2>1, EmptyRing DEF AppInv, OwnInv
    <3>2. Contents' = << >> /\ \A t \in Threads : hold'[t] = << >>
      BY <2>1, <3>1 DEF ringVars, Contents
    <3>3. QED
      BY <2>1, <2>2, <3>2, ElemsEmpty DEF Distinct, Complete
  <2>3. CASE main' = "done" /\ UNCHANGED pool
    BY <1>1, <2>1, <2>3
  <2>4. QED
    BY <1>3, <2>2, <2>3 DEF CreateMbufPool
<1>4. CASE PoolFree
  <2>1. /\ UNCHANGED ringVars /\ UNCHANGED lost /\ pool' = {} /\ main' = "done"
    BY <1>4 DEF PoolFree
  <2>2. UNCHANGED <<Contents, hold>>
    BY <2>1 DEF ringVars, Contents
  <2>3. QED
    BY <2>1, <2>2 DEF OwnInv, Distinct, Complete
<1>5. CASE \E p \in Producers : ProducerReturns(p)
  BY <1>1, <1>5 DEF ProducerReturns
<1>6. CASE \E c \in Consumers : ConsumerReturns(c)
  BY <1>1, <1>6 DEF ConsumerReturns
<1>7. CASE \E c \in Clients : WalkStart(c) \/ Callback(c) \/ WalkReturn(c) \/ WalkPanics(c)
  BY <1>1, <1>7 DEF WalkStart, Callback, WalkReturn, WalkPanics, appVars
<1>8. ASSUME working = {}, UNCHANGED <<pool, lost, hold>>, Contents' = << >>,
             main \in {"pool", "run"}
      PROVE  Goal
  <2>1. Contents = << >>
    BY <1>8, EmptyRing DEF OwnInv
  <2>2. QED
    BY <1>8, <2>1 DEF OwnInv, Distinct, Complete
<1>9. CASE CreateRing
  <2>1. /\ working = {} /\ UNCHANGED <<pool, lost>> /\ main = "pool" /\ ring = NoRing
        /\ \A t \in Threads : op[t] = NoOp
    BY <1>9 DEF CreateRing, AppInv
  <2>2. CASE NoMemory
    BY <1>1, <2>1, <2>2 DEF NoMemory
  <2>3. ASSUME NEW count \in Counts, NEW exact \in BOOLEAN, Create(count, exact) \/ New(count, exact)
        PROVE  Goal
    <3>1. UNCHANGED hold /\ (Contents' = << >> \/ UNCHANGED ringVars)
      BY <2>1, <2>3, MakeInv
    <3>2. QED
      BY <1>1, <1>8, <2>1, <3>1
  <2>4. QED
    BY <1>9, <2>2, <2>3 DEF CreateRing
<1>10. CASE FreeRing
  <2>1. working = {} /\ main = "run" /\ UNCHANGED <<pool, lost, hold>> /\ ring' = NoRing
    BY <1>10 DEF FreeRing, Free
  <2>2. Contents' = << >>
    <3>1. \A t \in Threads : op[t] = NoOp
      BY <2>1 DEF AppInv
    <3>2. Fresh'
      BY <1>10, <2>1, <3>1, NoRingFacts DEF FreeRing, Free, Fresh, RingInv, RingTypeOK
    <3>3. QED
      BY <3>2, FreshNext
  <2>3. QED
    BY <1>8, <2>1, <2>2
<1>11. CASE \E p \in Producers, fits \in BOOLEAN : AllocResetAndAppend(p, fits)
  BY <1>11, AllocOwn DEF OwnInv
<1>12. CASE \E t \in Threads : PktMbufFreeBulk(t)
  BY <1>12, FreeOwn DEF OwnInv
<1>13. ASSUME UNCHANGED appVars, UNCHANGED <<Contents, hold>> PROVE Goal
  BY <1>13 DEF OwnInv, Distinct, Complete, appVars
<1>14. ASSUME NEW p \in Producers, Send(p) PROVE Goal
  <2>1. UNCHANGED appVars
    BY <1>14 DEF Send
  <2>2. CASE EnqueueDone(p)
    BY <2>1, <2>2, PutOwn DEF OwnInv
  <2>3. ASSUME NEW n \in 1..MaxBatch, NEW bulk \in BOOLEAN, Enqueue(p, n, bulk) PROVE Goal
    <3>1. UNCHANGED <<ring, slots, cons, hold>> /\ prod'.tail = prod.tail
      BY <2>3 DEF Enqueue, RingInv, RingTypeOK
    <3>2. UNCHANGED Contents
      BY <3>1 DEF Contents
    <3>3. QED
      BY <1>13, <2>1, <3>1, <3>2
  <2>4. QED
    BY <1>14, <2>2, <2>3 DEF Send
<1>15. ASSUME NEW c \in Consumers, Receive(c) PROVE Goal
  <2>1. UNCHANGED appVars
    BY <1>15 DEF Receive
  <2>2. CASE DequeueDone(c)
    BY <2>1, <2>2, TakeOwn DEF OwnInv
  <2>3. ASSUME NEW n \in 1..MaxBatch, NEW bulk \in BOOLEAN, Dequeue(c, n, bulk) PROVE Goal
    <3>1. UNCHANGED <<ring, slots, prod, hold>> /\ cons'.tail = cons.tail
      BY <2>3 DEF Dequeue, RingInv, RingTypeOK
    <3>2. UNCHANGED Contents
      BY <3>1 DEF Contents
    <3>3. QED
      BY <1>13, <2>1, <3>1, <3>2
  <2>4. QED
    BY <1>15, <2>2, <2>3 DEF Receive
<1>16. QED
  BY <1>2, <1>3, <1>4, <1>5, <1>6, <1>7, <1>9, <1>10, <1>11, <1>12, <1>14, <1>15 DEF Next

(* At first nobody has an mbuf. *)
LEMMA OwnInit == Init => OwnInv
<1> SUFFICES ASSUME Init PROVE OwnInv
  OBVIOUS
<1>1. Fresh
  BY NoRingFacts DEF Init, RingInit, Fresh
<1>2. Contents = << >> /\ \A t \in Threads : hold[t] = << >>
  BY <1>1, FreshEmpty DEF Init, RingInit
<1>3. QED
  BY <1>2, ElemsEmpty DEF Init, OwnInv, DrainInv, Distinct, Complete

(* With at least one consumer, no mbuf is lost or duplicated on its way    *)
(* from the mempool through the ring and back, for any number of threads   *)
(* and mbufs, except those that AllocResetAndAppend drops.                 *)
THEOREM AllMbufsAccounted ==
  ASSUME Consumers # {}
  PROVE  Spec => []MbufsAccounted
<1> DEFINE Inv == RingInv /\ AppInv /\ OwnInv
<1>1. Init => Inv
  BY AppInitInv, OwnInit
<1>2. Inv /\ [Next]_vars => Inv'
  BY AppStep, OwnStep
<1>3. Inv => MbufsAccounted
  <2> SUFFICES ASSUME Inv PROVE MbufsAccounted
    OBVIOUS
  <2>1. ASSUME main = "run", NEW m \in Mbufs
        PROVE  \E x \in Places(m) : Places(m) = {x}
    <3>1. InRing(m) <=> m \in Elems(Contents)
      BY DEF InRing, Elems
    <3>2. \A t \in Threads : (\E i \in DOMAIN hold[t] : hold[t][i] = m) <=> m \in Elems(hold[t])
      BY DEF Elems
    <3>3. \A x : x \in Places(m) <=>
            \/ x = "pool" /\ m \in pool
            \/ x = "lost" /\ m \in lost
            \/ x = "ring" /\ m \in Elems(Contents)
            \/ x \in Threads /\ m \in Elems(hold[x])
      BY <3>1, <3>2 DEF Places
    <3>4. CASE m \in pool
      BY <3>3, <3>4 DEF OwnInv, Distinct
    <3>5. CASE m \in lost
      BY <3>3, <3>5 DEF OwnInv, Distinct
    <3>6. CASE m \in Elems(Contents)
      BY <3>3, <3>6 DEF OwnInv, Distinct
    <3>7. ASSUME NEW t \in Threads, m \in Elems(hold[t])
          PROVE  \E x \in Places(m) : Places(m) = {x}
      BY <3>3, <3>7 DEF OwnInv, Distinct
    <3>8. QED
      BY <2>1, <3>4, <3>5, <3>6, <3>7 DEF OwnInv, Complete
  <2>2. ASSUME main = "freeing" PROVE pool = Mbufs \ lost
    <3>1. working = {}
      BY <2>2 DEF AppInv
    <3>2. Contents = << >> /\ \A t \in Threads : hold[t] = << >>
      BY <3>1, EmptyRing DEF AppInv, OwnInv
    <3>3. \A m \in Mbufs : m \in pool \cup lost
      BY <2>2, <3>2, ElemsEmpty DEF OwnInv, Complete
    <3>4. QED
      BY <3>3 DEF AppInv, OwnInv, Distinct
  <2>3. QED
    BY <2>1, <2>2 DEF MbufsAccounted
<1>4. QED
  BY <1>1, <1>2, <1>3, PTL DEF Spec
=============================================================================
