------------------------------ MODULE ObjArray ------------------------------
(***************************************************************************)
(* The registry of Go callbacks (common/objects.go, objArray) and its      *)
(* clients: Mempool.ObjIter and Walk (mempool/mempool.go), memzone.Walk.   *)
(*                                                                         *)
(* A client registers its function, passes the identifier to C, and the    *)
(* exported callback that C calls for every element reads the function     *)
(* back.  Each method of objArray holds the mutex from its first to its    *)
(* last line, so it is one step; clients interleave between the steps.     *)
(***************************************************************************)
EXTENDS Naturals, Sequences

CONSTANTS
  Clients,    (* goroutines that iterate, each over one call at a time *)
  Deferred,   (* those that use ObjIter, which defers Delete; Walk does not *)
  NoObject,
  MaxIDs      (* bound: entries of the array *)

ASSUME ObjArrayAssumption ==
  /\ Deferred \subseteq Clients
  /\ NoObject \notin Clients
  /\ MaxIDs \in Nat

VARIABLES
  array,      (* objArray.array; nil entries are NoObject *)
  cnt,        (* objArray.cnt *)
  walk,       (* walk[c]: the registration of a call in progress, or Idle *)
  seen        (* seen[c]: what the last callback of client c read *)

arrVars == <<array, cnt, walk, seen>>

Idle == [id |-> 0, fn |-> NoObject]
Walking(c) == walk[c] # Idle

ArrInit ==
  /\ array = << >>
  /\ cnt = 0
  /\ walk = [c \in Clients |-> Idle]
  /\ seen = [c \in Clients |-> NoObject]

(* Create: the identifier is the index of the entry, 0 for the first.  The *)
(* function that client c registers is c here.                             *)
ObjCreate(c) ==
  /\ ~Walking(c)
  /\ Len(array) < MaxIDs
  /\ array' = Append(array, c)
  /\ cnt' = cnt + 1
  /\ walk' = [walk EXCEPT ![c] = [id |-> Len(array), fn |-> c]]
  /\ UNCHANGED seen

(* C calls goObjectCb, mpWalkCb or mzCb, which look the function up.  With *)
(* an identifier that is out of range or an entry that is nil the callback *)
(* would panic: it sees NoObject.                                          *)
ObjRead(c) ==
  /\ Walking(c)
  /\ seen' = [seen EXCEPT ![c] =
       IF walk[c].id < Len(array) THEN array[walk[c].id + 1] ELSE NoObject]
  /\ UNCHANGED <<array, cnt, walk>>

(* Mutant: the identifiers are given out again one registration too early. *)
ObjDeleteEarly(c) ==
  /\ array' = IF cnt <= 2 THEN << >> ELSE [array EXCEPT ![walk[c].id + 1] = NoObject]
  /\ cnt' = cnt - 1

(* Delete: the last registration to go takes the array with it. *)
ObjDelete(c) ==
  /\ array' = IF cnt = 1 THEN << >> ELSE [array EXCEPT ![walk[c].id + 1] = NoObject]
  /\ cnt' = cnt - 1

(* The iteration in C ends: the client deletes its registration. *)
WalkEnd(c) ==
  /\ Walking(c)
  /\ ObjDelete(c)
  /\ walk' = [walk EXCEPT ![c] = Idle]
  /\ seen' = [seen EXCEPT ![c] = NoObject]

(* The registered function panics and the panic is caught further up (by   *)
(* panicCatcher, when the call runs on an lcore): the deferred Delete of   *)
(* ObjIter still runs, the plain one of Walk does not.                     *)
WalkPanic(c) ==
  /\ Walking(c)
  /\ seen[c] # NoObject
  /\ walk' = [walk EXCEPT ![c] = Idle]
  /\ IF c \in Deferred THEN ObjDelete(c) ELSE UNCHANGED <<array, cnt>>
  /\ seen' = [seen EXCEPT ![c] = NoObject]

ArrNext ==
  \E c \in Clients :
    \/ ObjRead(c)
    \/ WalkEnd(c)
    \/ WalkPanic(c)
    \/ ObjCreate(c)

ArrSpec == ArrInit /\ [][ArrNext]_arrVars

-----------------------------------------------------------------------------
(* The array implements the registry that its clients rely on. *)
Reg == INSTANCE Registry WITH
  Objects <- Clients, held <- [c \in Clients |-> walk[c].fn]

(* Every callback gets the function of its own call from the registry, also *)
(* when calls overlap, when identifiers are used again after the array was  *)
(* emptied, and when a registration was left behind by a panic.             *)
ReadsOwn == Reg!Spec
=============================================================================
