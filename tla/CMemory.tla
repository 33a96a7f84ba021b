------------------------------ MODULE CMemory ------------------------------
(***************************************************************************)
(* The C heap as the bindings use it: package common's Allocator over      *)
(* malloc and free (common/allocator_std.go) and AllocatorSession          *)
(* (common/allocator.go), which remembers what was allocated through it.   *)
(*                                                                         *)
(* A block is an address and its content is not modelled.  C.malloc of cgo *)
(* never returns NULL (it ends the process), C.realloc may.  Addrs bounds  *)
(* the heap.  A goroutine has one session; a session made from a session   *)
(* uses the allocator below it (rootAlloc), so no session is nested.       *)
(***************************************************************************)
EXTENDS FiniteSets, Naturals

CONSTANTS
  Goroutines,   \* goroutines that call into C
  Addrs,        \* addresses malloc may return
  MaxLost,      \* bound on the blocks that are lost
  NULL, Nobody

VARIABLES
  owner,    \* who allocated the block at an address, Nobody if it is free
  ptrs,     \* AllocatorSession.ptrs of each goroutine
  lost,     \* blocks nobody has a pointer to any more
  wrong     \* history: some free was given an address its caller did not own

memVars == <<owner, ptrs, lost, wrong>>

ASSUME NullAssumption == NULL \notin Addrs /\ Nobody \notin Goroutines

MemInit ==
  /\ owner = [a \in Addrs |-> Nobody]
  /\ ptrs = [g \in Goroutines |-> {}]
  /\ lost = {}
  /\ wrong = FALSE

Unused == {a \in Addrs : owner[a] = Nobody}

\* StdAlloc.Malloc, once for each of the blocks in S.
Malloc(g, S) == owner' = [a \in Addrs |-> IF a \in S THEN g ELSE owner[a]]

\* StdAlloc.Free, once for each of the pointers in S; free(NULL) does nothing.
Free(g, S) ==
  /\ owner' = [a \in Addrs |-> IF a \in S THEN Nobody ELSE owner[a]]
  /\ wrong' = (wrong \/ \E a \in S \ {NULL} : owner[a] # g)

Lose(a) ==
  /\ Cardinality(lost) < MaxLost
  /\ lost' = lost \cup {a}

(***************************************************************************)
(* AllocatorSession                                                        *)
(***************************************************************************)
SessionMalloc(g) ==
  \E a \in Unused :
    /\ Malloc(g, {a})
    /\ ptrs' = [ptrs EXCEPT ![g] = @ \cup {a}]
    /\ UNCHANGED <<lost, wrong>>

SessionFree(g) ==
  \E a \in ptrs[g] :
    /\ Free(g, {a})
    /\ ptrs' = [ptrs EXCEPT ![g] = @ \ {a}]
    /\ UNCHANGED lost

\* C.realloc moves the block, leaves it in place (nothing changes), fails, or,
\* for size 0, frees it and returns NULL.  When it fails the block is still
\* there, but the session forgets it; both times it remembers NULL.
SessionRealloc(g) ==
  \E a \in ptrs[g] \ {NULL} :
    \/ \E b \in Unused :
         /\ owner' = [owner EXCEPT ![a] = Nobody, ![b] = g]
         /\ ptrs' = [ptrs EXCEPT ![g] = (@ \cup {b}) \ {a}]
         /\ UNCHANGED <<lost, wrong>>
    \/ /\ ptrs' = [ptrs EXCEPT ![g] = (@ \cup {NULL}) \ {a}]
       /\ Lose(a)
       /\ UNCHANGED <<owner, wrong>>
    \/ /\ ptrs' = [ptrs EXCEPT ![g] = (@ \cup {NULL}) \ {a}]
       /\ Free(g, {a})
       /\ UNCHANGED lost

\* Mutant: the map is not replaced by an empty one.
SessionFlushKeep(g) ==
  /\ ptrs[g] # {}
  /\ Free(g, ptrs[g])
  /\ UNCHANGED <<ptrs, lost>>

SessionFlush(g) ==
  /\ ptrs[g] # {}
  /\ Free(g, ptrs[g])
  /\ ptrs' = [ptrs EXCEPT ![g] = {}]
  /\ UNCHANGED lost
=============================================================================
