------------------------------ MODULE Registry ------------------------------
(* What common.Registry promises to the packages that hand Go callbacks to  *)
(* C: until a client deletes what it registered, a Read with its identifier *)
(* returns its own object, whatever the other clients do.  Identifiers do   *)
(* not appear here: they are the business of the implementation.            *)
CONSTANTS
  Clients,   (* callers of Create, each with one registration at a time *)
  Objects,   (* the functions they register *)
  NoObject   (* nothing registered, or nothing read yet *)

VARIABLES
  held,      (* held[c]: what client c has registered *)
  seen       (* seen[c]: what the callback of client c got from Read *)

Init ==
  /\ held = [c \in Clients |-> NoObject]
  /\ seen = [c \in Clients |-> NoObject]

Create(c, o) ==
  /\ held[c] = NoObject
  /\ held' = [held EXCEPT ![c] = o]
  /\ UNCHANGED seen

Read(c) ==
  /\ held[c] # NoObject
  /\ seen' = [seen EXCEPT ![c] = held[c]]
  /\ UNCHANGED held

Delete(c) ==
  /\ held[c] # NoObject
  /\ held' = [held EXCEPT ![c] = NoObject]
  /\ seen' = [seen EXCEPT ![c] = NoObject]

Next ==
  \E c \in Clients :
    \/ Read(c)
    \/ Delete(c)
    \/ \E o \in Objects : Create(c, o)

Spec == Init /\ [][Next]_<<held, seen>>
=============================================================================
