--------------------------- MODULE FlowRuleProofs ---------------------------
(***************************************************************************)
(* Proofs about FlowRule, for any items, actions and rules and any amount  *)
(* of C memory.                                                            *)
(*                                                                         *)
(* Of the four properties BlocksOwned and NothingForgotten are inductive   *)
(* together, over the types.  That the driver reads live memory needs what *)
(* keeps the arguments of a call alive (CallInv), and that it reads what   *)
(* the Go struct says needs what Reload has left in the C struct of every  *)
(* argument it has been called on, from this and from earlier calls        *)
(* (CopyInv).                                                              *)
(***************************************************************************)
EXTENDS FlowRule, WellFoundedInduction, TLAPS

-----------------------------------------------------------------------------
(* The sequence of arguments. *)

(* Induction over the natural numbers, for a set in place of a predicate. *)
LEMMA SetInduction ==
  ASSUME NEW S, 0 \in S, \A k \in Nat : k \in S => k + 1 \in S
  PROVE  Nat \subseteq S
<1> DEFINE T == Nat \ S
<1>1. SUFFICES ASSUME T # {} PROVE FALSE
  OBVIOUS
<1>2. PICK x \in T : \A y \in T : ~ (<<y, x>> \in OpToRel(<, Nat))
  BY <1>1, WFMin, NatLessThanWellFounded
<1>3. \A y \in T : ~ (y < x)
  BY <1>2 DEF OpToRel
<1>4. x # 0 /\ x - 1 \in Nat
  OBVIOUS
<1>5. x - 1 \in S
  BY <1>3, <1>4
<1>6. QED
  BY <1>4, <1>5

(* The partial concatenations of the first n of the sequences ss. *)
Flat(n, ss, f) ==
  f = [j \in 1..n |-> IF j = 1 THEN ss[j] ELSE f[j - 1] \o ss[j]]

(* The recursion of FlattenSeq has a solution for every number of *)
(* sequences, by induction on a set.                              *)
LEMMA FlatExists ==
  ASSUME NEW ss
  PROVE  \A n \in Nat : \E f : Flat(n, ss, f)
<1> DEFINE S == {n \in Nat : \E f : Flat(n, ss, f)}
<1>1. 0 \in S
  <2>1. Flat(0, ss, [j \in 1..0 |-> <<>>])
    BY DEF Flat
  <2>2. QED
    BY <2>1
<1>2. ASSUME NEW n \in Nat, n \in S
      PROVE  n + 1 \in S
  <2>1. PICK f : Flat(n, ss, f)
    BY <1>2
  <2> DEFINE last == IF n = 0 THEN ss[1] ELSE f[n] \o ss[n + 1]
             g == [j \in 1..(n + 1) |-> IF j = n + 1 THEN last ELSE f[j]]
  <2>2. \A j \in 1..n : f[j] = IF j = 1 THEN ss[j] ELSE f[j - 1] \o ss[j]
    BY <2>1 DEF Flat
  <2>3. ASSUME NEW j \in 1..(n + 1)
        PROVE  g[j] = IF j = 1 THEN ss[j] ELSE g[j - 1] \o ss[j]
    <3>1. CASE j = n + 1
      <4>1. g[j] = last
        BY <3>1
      <4>2. n # 0 => g[j - 1] = f[n]
        BY <3>1
      <4>3. QED
        BY <3>1, <4>1, <4>2
    <3>2. CASE j # n + 1
      <4>1. j \in 1..n /\ g[j] = f[j] /\ (j # 1 => g[j - 1] = f[j - 1])
        BY <3>2
      <4>2. QED
        BY <2>2, <4>1
    <3>3. QED
      BY <3>1, <3>2
  <2>4. Flat(n + 1, ss, g)
    <3>1. g = [j \in 1..(n + 1) |-> g[j]]
      OBVIOUS
    <3> HIDE DEF g
    <3>2. QED
      BY <2>3, <3>1 DEF Flat
  <2>5. QED
    BY <2>4
<1>3. Nat \subseteq S
  <2> HIDE DEF S
  <2>1. QED
    BY <1>1, <1>2, SetInduction
<1>4. QED
  BY <1>3

(* Every partial result of FlattenSeq is a sequence over the same set. *)
LEMMA FlatIsSeq ==
  ASSUME NEW S, NEW ss \in Seq(Seq(S)), NEW f, Flat(Len(ss), ss, f)
  PROVE  \A n \in 1..Len(ss) : f[n] \in Seq(S)
<1> DEFINE T == {n \in Nat : n + 1 \in 1..Len(ss) => f[n + 1] \in Seq(S)}
<1>1. \A j \in 1..Len(ss) : f[j] = IF j = 1 THEN ss[j] ELSE f[j - 1] \o ss[j]
  BY DEF Flat
<1>2. 0 \in T
  BY <1>1
<1>3. ASSUME NEW n \in Nat, n \in T PROVE n + 1 \in T
  <2>1. SUFFICES ASSUME n + 2 \in 1..Len(ss) PROVE f[n + 2] \in Seq(S)
    OBVIOUS
  <2>2. f[n + 1] \in Seq(S) /\ ss[n + 2] \in Seq(S)
    BY <1>3, <2>1
  <2>3. f[n + 2] = f[n + 1] \o ss[n + 2]
    <3>1. n + 2 # 1 /\ (n + 2) - 1 = n + 1
      OBVIOUS
    <3>2. f[n + 2] = f[(n + 2) - 1] \o ss[n + 2]
      BY <1>1, <2>1, <3>1
    <3>3. QED
      BY <3>1, <3>2
  <2>4. QED
    BY <2>2, <2>3
<1>4. Nat \subseteq T
  <2> HIDE DEF T
  <2>1. QED
    BY <1>2, <1>3, SetInduction
<1>5. ASSUME NEW n \in 1..Len(ss) PROVE f[n] \in Seq(S)
  <2>1. n - 1 \in Nat /\ (n - 1) + 1 = n
    OBVIOUS
  <2>2. n - 1 \in T
    BY <1>4, <2>1
  <2>3. QED
    BY <2>1, <2>2
<1>6. QED
  BY <1>5

(* FlattenSeq returns a sequence over the same set. *)
LEMMA FlattenIsSeq ==
  ASSUME NEW S, NEW ss \in Seq(Seq(S))
  PROVE  FlattenSeq(ss) \in Seq(S)
<1>1. CASE Len(ss) = 0
  <2>1. ss = <<>>
    BY <1>1
  <2>2. QED
    BY <1>1, <2>1 DEF FlattenSeq
<1>2. CASE Len(ss) # 0
  <2> DEFINE f == CHOOSE f : Flat(Len(ss), ss, f)
  <2>1. Flat(Len(ss), ss, f)
    <3>1. Len(ss) \in Nat
      OBVIOUS
    <3>2. \E g : Flat(Len(ss), ss, g)
      BY <3>1, FlatExists
    <3>3. QED
      BY <3>2
  <2>2. FlattenSeq(ss) = f[Len(ss)]
    BY <1>2 DEF FlattenSeq, Flat
  <2>3. Len(ss) \in 1..Len(ss)
    BY <1>2
  <2> HIDE DEF f
  <2>4. QED
    BY <2>1, <2>2, <2>3, FlatIsSeq
<1>3. QED
  BY <1>1, <1>2

(* What cPattern and cActions walk over is a sequence of items and actions. *)
LEMMA PatternIsSeq ==
  ASSUME NEW r \in Rules
  PROVE  cPattern(r.pattern) \o r.actions \in Seq(Objs)
<1> DEFINE p == r.pattern
           ss == [j \in DOMAIN p |-> <<p[j].Spec>> \o NotNil(p[j].Mask) \o NotNil(p[j].Last)]
<1>1. p \in Seq(Item) /\ r.actions \in Seq(Objs)
  BY FlowRuleAssumption
<1> HIDE DEF p
<1>2. ASSUME NEW j \in DOMAIN p PROVE ss[j] \in Seq(Objs)
  <2>1. p[j] \in Item
    BY <1>1
  <2>2. /\ p[j].Spec \in Objs
        /\ p[j].Mask \in Objs \cup {NULL}
        /\ p[j].Last \in Objs \cup {NULL}
    BY <2>1 DEF Item
  <2>3. NotNil(p[j].Mask) \in Seq(Objs) /\ NotNil(p[j].Last) \in Seq(Objs)
    BY <2>2 DEF NotNil
  <2>4. <<p[j].Spec>> \in Seq(Objs)
    BY <2>2
  <2>5. QED
    BY <2>3, <2>4
<1>3. ss \in Seq(Seq(Objs))
  <2>1. DOMAIN p = 1..Len(p) /\ Len(p) \in Nat
    BY <1>1
  <2> HIDE DEF ss
  <2>2. ss \in [1..Len(p) -> Seq(Objs)]
    BY <1>2, <2>1 DEF ss
  <2>3. QED
    BY <2>1, <2>2
<1>4. cPattern(p) = FlattenSeq(ss)
  BY DEF cPattern
<1> HIDE DEF ss
<1>5. cPattern(p) \in Seq(Objs)
  BY <1>3, <1>4, FlattenIsSeq
<1>6. QED
  BY <1>1, <1>5 DEF p

-----------------------------------------------------------------------------
(* The invariant. *)

FlowTypeOK ==
  /\ DOMAIN conf = Objs /\ DOMAIN image = Objs /\ DOMAIN blk = Objs /\ DOMAIN arr = Objs
  /\ \A o \in Objs : /\ conf[o] \in [FieldsOf(KindOf(o)) -> Values]
                     /\ image[o] \in [FieldsOf(KindOf(o)) -> Values]
                     /\ blk[o] \in [Parts(KindOf(o)) -> Addrs \cup {NULL}]
  /\ hasfin \subseteq Objs /\ held \subseteq Objs /\ gone \subseteq Objs
  /\ live \subseteq Addrs
  /\ pc \in {"idle", "reload", "C"}
  /\ cur \in Seq(Objs) /\ todo \in Seq(Objs)
  /\ DOMAIN flows = Handles

(* The arguments of a call are kept alive until C returns. *)
CallInv ==
  /\ pc = "C" => todo = <<>>
  /\ pc # "idle" => Range(cur) \cap gone = {}
  /\ held \cap gone = {}

(* What Reload copied.  An optional field is not cleared in C, so one that *)
(* C has must still be set in Go, where the application does not clear it. *)
CopyInv ==
  /\ \A o \in Objs : Inner(KindOf(o)) = {} => arr[o] = "none"
  /\ ~Clears => \A o \in Objs : \A f \in Optional(KindOf(o)) :
                  image[o][f] # 0 => conf[o][f] # 0
  /\ pc # "idle" => \A o \in Range(cur) \ Range(todo) :
                      Plain(o) => image[o] = conf[o]

FlowInv == FlowTypeOK /\ BlocksOwned /\ NothingForgotten /\ CallInv /\ CopyInv /\ PlainExact

-----------------------------------------------------------------------------
(* The kinds of items and actions. *)

(* What the tables of kinds say of each Go type. *)
LEMMA KindFacts ==
  ASSUME NEW k \in Kinds
  PROVE  /\ k \in Bare => FieldsOf(k) = {} /\ Parts(k) = {}
         /\ Renewed(k) \subseteq Optional(k) \cap Parts(k)
         /\ Optional(k) \subseteq FieldsOf(k)
         /\ Inner(k) = {} /\ Lost(k) = {} => FieldsOf(k) = Always(k) \cup Optional(k)
         /\ k = "mac" => "self" \in Parts(k)
BY DEF Kinds, Bare, Finalized, Unfinalized, FieldsOf, Always, Optional, Lost, Inner, Parts, Renewed

(* A new item or action has zero fields and no C memory. *)
LEMMA ZeroFacts ==
  ASSUME NEW o \in Objs
  PROVE  /\ KindOf(o) \in Kinds
         /\ Zero(o) \in [FieldsOf(KindOf(o)) -> Values]
         /\ \A f \in FieldsOf(KindOf(o)) : Zero(o)[f] = 0
         /\ Unallocated(o) \in [Parts(KindOf(o)) -> Addrs \cup {NULL}]
         /\ \A p \in Parts(KindOf(o)) : Unallocated(o)[p] = NULL
         /\ Range(Unallocated(o)) \subseteq {NULL}
BY FlowRuleAssumption DEF Zero, Unallocated, Values, Range

(* Before the first call nothing is allocated. *)
LEMMA InitInv == Init => FlowInv
<1> SUFFICES ASSUME Init PROVE FlowInv
  OBVIOUS
<1> USE DEF Init
<1>1. FlowTypeOK
  BY ZeroFacts DEF FlowTypeOK
<1>2. \A o \in Objs : Blocks(o) = {}
  BY ZeroFacts DEF Blocks
<1>3. BlocksOwned
  BY <1>2, ZeroFacts DEF BlocksOwned, Unallocated
<1>4. NothingForgotten
  BY DEF NothingForgotten
<1>5. CallInv /\ PlainExact
  BY DEF CallInv, PlainExact
<1>6. CopyInv
  BY KindFacts, ZeroFacts DEF CopyInv
<1>7. QED
  BY <1>1, <1>3, <1>4, <1>5, <1>6 DEF FlowInv

-----------------------------------------------------------------------------
(* C memory. *)

(* The blocks of the other objects stay as they are, and o gets new ones   *)
(* at the parts R: those it had there are given back, others are kept.     *)
Exchange(o, R, new) ==
  /\ new \in [R -> Addrs \ live]
  /\ \A p, q \in R : new[p] = new[q] => p = q
  /\ DOMAIN blk' = Objs
  /\ \A x \in Objs \ {o} : blk'[x] = blk[x]
  /\ blk'[o] = [p \in Parts(KindOf(o)) |-> IF p \in R THEN new[p] ELSE blk[o][p]]
  /\ live' = (live \ {blk[o][p] : p \in R}) \cup {new[p] : p \in R}
  /\ leaked' = leaked

(* Replacing some of the blocks of one object by fresh ones, and freeing *)
(* the old, keeps every block with one owner and forgets none.           *)
LEMMA ExchangeInv ==
  ASSUME FlowTypeOK, BlocksOwned, NothingForgotten,
         NEW o \in Objs, NEW R \in SUBSET Parts(KindOf(o)), NEW new, Exchange(o, R, new)
  PROVE  /\ BlocksOwned' /\ NothingForgotten'
         /\ live' \subseteq Addrs
         /\ blk'[o] \in [Parts(KindOf(o)) -> Addrs \cup {NULL}]
<1> USE DEF Exchange
<1>1. \A x \in Objs : DOMAIN blk[x] = Parts(KindOf(x)) /\ DOMAIN blk'[x] = Parts(KindOf(x))
  BY DEF FlowTypeOK
<1>2. \A x \in Objs : \A p \in Parts(KindOf(x)) :
        blk[x][p] \in Addrs \cup {NULL} /\ (blk[x][p] # NULL => blk[x][p] \in live)
  BY <1>1 DEF FlowTypeOK, BlocksOwned, Blocks, Range
<1>3. \A x1, x2 \in Objs : \A p1 \in Parts(KindOf(x1)), p2 \in Parts(KindOf(x2)) :
        blk[x1][p1] = blk[x2][p2] /\ blk[x1][p1] # NULL => x1 = x2 /\ p1 = p2
  BY <1>1 DEF BlocksOwned
<1>4. live \subseteq Addrs /\ NULL \notin Addrs
  BY FlowRuleAssumption DEF FlowTypeOK
<1>5. \A x \in Objs : \A p \in Parts(KindOf(x)) :
        blk'[x][p] = IF x = o /\ p \in R THEN new[p] ELSE blk[x][p]
  OBVIOUS
<1>6. \A p \in R : new[p] \in Addrs /\ new[p] \notin live
  OBVIOUS
<1>7. ASSUME NEW x \in Objs, NEW p \in Parts(KindOf(x)), blk'[x][p] # NULL
      PROVE  blk'[x][p] \in live'
  <2>1. CASE x = o /\ p \in R
    BY <1>5, <2>1
  <2>2. CASE ~(x = o /\ p \in R)
    <3>1. blk'[x][p] = blk[x][p] /\ blk[x][p] \in live
      BY <1>2, <1>5, <1>7, <2>2
    <3>2. \A q \in R : blk[o][q] # blk[x][p]
      BY <1>3, <1>5, <1>7, <2>2
    <3>3. QED
      BY <3>1, <3>2
  <2>3. QED
    BY <2>1, <2>2
<1>8. ASSUME NEW x1 \in Objs, NEW x2 \in Objs,
             NEW p1 \in Parts(KindOf(x1)), NEW p2 \in Parts(KindOf(x2)),
             blk'[x1][p1] = blk'[x2][p2], blk'[x1][p1] # NULL
      PROVE  x1 = x2 /\ p1 = p2
  <2>1. CASE (x1 = o /\ p1 \in R) /\ (x2 = o /\ p2 \in R)
    BY <1>5, <1>8, <2>1
  <2>2. CASE (x1 = o /\ p1 \in R) /\ ~(x2 = o /\ p2 \in R)
    BY <1>2, <1>5, <1>6, <1>8, <2>2
  <2>3. CASE ~(x1 = o /\ p1 \in R) /\ (x2 = o /\ p2 \in R)
    BY <1>2, <1>5, <1>6, <1>8, <2>3
  <2>4. CASE ~(x1 = o /\ p1 \in R) /\ ~(x2 = o /\ p2 \in R)
    BY <1>3, <1>5, <1>8, <2>4
  <2>5. QED
    BY <2>1, <2>2, <2>3, <2>4
<1>9. BlocksOwned'
  BY <1>1, <1>7, <1>8 DEF BlocksOwned, Blocks, Range
<1>10. NothingForgotten'
  <2>1. SUFFICES ASSUME NEW a \in live', \A x \in Objs : a \notin Blocks(x)'
                 PROVE  a \in leaked
    BY DEF NothingForgotten
  <2>2. \A x \in Objs : \A p \in Parts(KindOf(x)) : a = blk'[x][p] => a = NULL
    BY <1>1, <2>1 DEF Blocks, Range
  <2>3. a \in Addrs /\ a # NULL
    BY <1>4, <1>6, <2>1
  <2>4. \A p \in R : a # new[p]
    BY <1>5, <2>2, <2>3
  <2>5. a \in live /\ \A p \in R : a # blk[o][p]
    BY <2>1, <2>4
  <2>6. \A x \in Objs : \A p \in Parts(KindOf(x)) : a # blk[x][p]
    BY <1>5, <2>2, <2>3, <2>5
  <2>7. \A x \in Objs : a \notin Blocks(x)
    BY <1>1, <2>6 DEF Blocks, Range
  <2>8. QED
    BY <2>5, <2>7 DEF NothingForgotten
<1>11. live' \subseteq Addrs
  BY <1>4
<1>12. blk'[o] \in [Parts(KindOf(o)) -> Addrs \cup {NULL}]
  <2>1. \A p \in Parts(KindOf(o)) : blk'[o][p] \in Addrs \cup {NULL}
    BY <1>2, <1>5, <1>6
  <2>2. QED
    BY <2>1
<1>13. QED
  BY <1>9, <1>10, <1>11, <1>12

-----------------------------------------------------------------------------
(* Reload. *)

(* Every Reload is such an exchange: createOrRet keeps a block or fills an *)
(* empty pointer, ActionRSS replaces its own.                              *)
LEMMA ReloadExchange ==
  ASSUME FlowTypeOK, NEW o \in Objs, Reload(o)
  PROVE  \E R \in SUBSET Parts(KindOf(o)) : \E new : Exchange(o, R, new)
<1>1. PICK new \in Injection(Allocated(o), Addrs \ live) :
        /\ blk' = [blk EXCEPT ![o] = [p \in DOMAIN @ |-> IF p \in DOMAIN new THEN new[p] ELSE @[p]]]
        /\ live' = (live \ Replaced(o)) \cup Range(new)
        /\ leaked' = leaked
  BY DEF Reload
<1> DEFINE R == Allocated(o)
<1>2. R \subseteq Parts(KindOf(o))
  BY DEF Allocated
<1>3. new \in [R -> Addrs \ live] /\ \A p, q \in R : new[p] = new[q] => p = q
  BY DEF Injection, IsInjective
<1>4. DOMAIN new = R /\ Range(new) = {new[p] : p \in R}
  BY <1>3 DEF Range
<1>5. DOMAIN blk[o] = Parts(KindOf(o)) /\ DOMAIN blk = Objs
  BY DEF FlowTypeOK
<1>6. blk'[o] = [p \in Parts(KindOf(o)) |-> IF p \in R THEN new[p] ELSE blk[o][p]]
  BY <1>1, <1>4, <1>5
<1>7. DOMAIN blk' = Objs /\ \A x \in Objs \ {o} : blk'[x] = blk[x]
  BY <1>1, <1>5
<1>8. live \ Replaced(o) = live \ {blk[o][p] : p \in R}
  <2>1. NULL \notin live
    BY FlowRuleAssumption DEF FlowTypeOK
  <2>2. \A p \in R \ Renewed(KindOf(o)) : blk[o][p] = NULL
    BY DEF Allocated
  <2>3. QED
    BY <2>1, <2>2 DEF Replaced
<1>9. live' = (live \ {blk[o][p] : p \in R}) \cup {new[p] : p \in R}
  BY <1>1, <1>4, <1>8
<1> HIDE DEF R
<1>10. Exchange(o, R, new)
  BY <1>1, <1>3, <1>6, <1>7, <1>9 DEF Exchange
<1>11. QED
  BY <1>2, <1>10

(* What Reload leaves in the C struct. *)
LEMMA ReloadCopies ==
  ASSUME FlowTypeOK, CopyInv, NEW o \in Objs, Reload(o)
  PROVE  /\ DOMAIN image' = Objs /\ DOMAIN arr' = Objs
         /\ image'[o] \in [FieldsOf(KindOf(o)) -> Values]
         /\ \A x \in Objs \ {o} : image'[x] = image[x] /\ arr'[x] = arr[x]
         /\ Inner(KindOf(o)) = {} => arr'[o] = "none"
         /\ ~Clears => \A f \in Optional(KindOf(o)) : image'[o][f] # 0 => conf[o][f] # 0
         /\ Plain(o) => image'[o] = conf[o]
<1> DEFINE k == KindOf(o)
           old == IF blk[o]["self"] = NULL THEN Zero(o) ELSE image[o]
<1>1. image' = [image EXCEPT ![o] = IF k \in Bare THEN @ ELSE Copied(o)]
  BY DEF Reload
<1>2. arr' = [arr EXCEPT ![o] = IF Inner(k) = {} THEN @ ELSE "live"]
  BY DEF Reload
<1>3. /\ DOMAIN image' = Objs /\ DOMAIN arr' = Objs
      /\ \A x \in Objs \ {o} : image'[x] = image[x] /\ arr'[x] = arr[x]
      /\ Inner(k) = {} => arr'[o] = "none"
  BY <1>1, <1>2 DEF FlowTypeOK, CopyInv
<1>4. /\ conf[o] \in [FieldsOf(k) -> Values] /\ image[o] \in [FieldsOf(k) -> Values]
      /\ old \in [FieldsOf(k) -> Values]
  BY ZeroFacts DEF FlowTypeOK
<1>5. k \in Kinds
  BY ZeroFacts
<1>6. \A f \in FieldsOf(k) : ~Clears /\ f \in Optional(k) /\ old[f] # 0 => conf[o][f] # 0
  BY ZeroFacts DEF CopyInv
<1>7. CASE k \in Bare
  <2>1. image'[o] = image[o] /\ FieldsOf(k) = {}
    BY <1>1, <1>5, <1>7, KindFacts DEF FlowTypeOK
  <2>2. image[o] = conf[o]
    BY <1>4, <2>1
  <2>3. QED
    BY <1>3, <1>4, <2>1, <2>2 DEF CopyInv
<1>8. CASE k \notin Bare
  <2>1. image'[o] = Copied(o)
    BY <1>1, <1>8 DEF FlowTypeOK
  <2>2. image'[o] = [f \in FieldsOf(k) |->
                       IF f \in Always(k) \/ (f \in Optional(k) /\ conf[o][f] # 0)
                         THEN Stored(k, f, conf[o][f]) ELSE old[f]]
    BY <2>1 DEF Copied
  <2> HIDE DEF old, k
  <2>s. /\ \A f : \A v \in Values : Stored(k, f, v) \in Values
        /\ \A f : \A v : f \notin Swapped(k) => Stored(k, f, v) = v
    BY FlowRuleAssumption DEF Stored, Values
  <2>o. \A f \in Optional(k) : f \notin Swapped(k)
    BY DEF Optional, Swapped
  <2>3. image'[o] \in [FieldsOf(k) -> Values]
    BY <1>4, <2>2, <2>s
  <2>4. ~Clears => \A f \in Optional(k) : image'[o][f] # 0 => conf[o][f] # 0
    BY <1>4, <1>5, <1>6, <2>2, <2>s, <2>o, KindFacts
  <2>5. ASSUME Plain(o) PROVE image'[o] = conf[o]
    <3>1. /\ FieldsOf(k) = Always(k) \cup Optional(k)
          /\ Optional(k) = {} \/ ~Clears
          /\ Swapped(k) = {}
      BY <1>5, <2>5, KindFacts DEF Plain, k
    <3>2. \A f \in FieldsOf(k) : image'[o][f] = conf[o][f]
      BY <1>4, <1>6, <2>2, <2>s, <3>1
    <3>3. QED
      BY <1>4, <2>3, <3>2
  <2>6. QED
    BY <1>3, <2>3, <2>4, <2>5 DEF k
<1>9. QED
  BY <1>7, <1>8

(* Reload of the next item or action keeps the invariant. *)
LEMMA ReloadNextInv == FlowInv /\ ReloadNext => FlowInv'
<1> SUFFICES ASSUME FlowInv, ReloadNext PROVE FlowInv'
  OBVIOUS
<1> DEFINE o == Head(todo)
<1> USE DEF FlowInv
<1>1. /\ o \in Objs /\ Reload(o) /\ todo' = Tail(todo) /\ todo' \in Seq(Objs)
      /\ Range(todo) = {o} \cup Range(todo')
      /\ UNCHANGED <<pc, op, cur, conf, held, gone, flows>>
      /\ pc = "reload"
  <2>1. todo \in Seq(Objs) /\ todo # <<>> /\ todo' = Tail(todo)
    BY DEF ReloadNext, FlowTypeOK
  <2>2. o \in Objs /\ todo' \in Seq(Objs)
    BY <2>1
  <2>3. Range(todo) = {o} \cup Range(todo')
    <3>1. DOMAIN todo = 1..Len(todo) /\ DOMAIN todo' = 1..(Len(todo) - 1) /\ Len(todo) \in Nat \ {0}
      BY <2>1
    <3>2. \A n \in DOMAIN todo' : todo'[n] = todo[n + 1] /\ n + 1 \in DOMAIN todo
      BY <2>1
    <3>3. ASSUME NEW n \in DOMAIN todo, n # 1
          PROVE  todo[n] \in Range(todo')
      <4>1. n - 1 \in DOMAIN todo' /\ (n - 1) + 1 = n
        BY <3>1, <3>3
      <4>2. todo[n] = todo'[n - 1]
        BY <3>2, <4>1
      <4>3. QED
        BY <4>1, <4>2 DEF Range
    <3>4. todo[1] = o /\ 1 \in DOMAIN todo
      BY <2>1, <3>1
    <3>5. QED
      BY <3>2, <3>3, <3>4 DEF Range
  <2>4. QED
    BY <2>1, <2>2, <2>3 DEF ReloadNext, goVars
<1> HIDE DEF o
<1>2. PICK R \in SUBSET Parts(KindOf(o)) : \E new : Exchange(o, R, new)
  BY <1>1, ReloadExchange
<1>2a. PICK new : Exchange(o, R, new)
  BY <1>2
<1>3. /\ BlocksOwned' /\ NothingForgotten' /\ live' \subseteq Addrs
      /\ blk'[o] \in [Parts(KindOf(o)) -> Addrs \cup {NULL}]
  BY <1>1, <1>2a, ExchangeInv
<1>4. DOMAIN blk' = Objs /\ \A x \in Objs \ {o} : blk'[x] = blk[x]
  BY <1>2a DEF Exchange
<1>5. hasfin' \subseteq Objs
  BY <1>1 DEF Reload, FlowTypeOK
<1>6. /\ DOMAIN image' = Objs /\ DOMAIN arr' = Objs
      /\ image'[o] \in [FieldsOf(KindOf(o)) -> Values]
      /\ \A x \in Objs \ {o} : image'[x] = image[x] /\ arr'[x] = arr[x]
      /\ Inner(KindOf(o)) = {} => arr'[o] = "none"
      /\ ~Clears => \A f \in Optional(KindOf(o)) : image'[o][f] # 0 => conf[o][f] # 0
      /\ Plain(o) => image'[o] = conf[o]
  BY <1>1, ReloadCopies
<1>7. FlowTypeOK'
  BY <1>1, <1>3, <1>4, <1>5, <1>6 DEF FlowTypeOK
<1>8. CallInv' /\ PlainExact'
  BY <1>1 DEF CallInv, PlainExact
<1>9. CopyInv'
  <2>1. \A x \in Range(cur) : x \in Objs
    BY DEF FlowTypeOK, Range
  <2>2. \A x \in Range(cur) \ Range(todo') : Plain(x) => image'[x] = conf[x]
    BY <1>1, <1>6, <2>1 DEF CopyInv
  <2>3. \A x \in Objs : Inner(KindOf(x)) = {} => arr'[x] = "none"
    BY <1>6 DEF CopyInv
  <2>4. ~Clears => \A x \in Objs : \A f \in Optional(KindOf(x)) :
                     image'[x][f] # 0 => conf[x][f] # 0
    BY <1>6 DEF CopyInv
  <2>5. QED
    BY <1>1, <2>2, <2>3, <2>4 DEF CopyInv
<1>10. QED
  BY <1>3, <1>7, <1>8, <1>9

(* A panic in Reload leaves memory with its owners. *)
LEMMA ReloadPanicsInv == FlowInv /\ ReloadPanics => FlowInv'
<1> SUFFICES ASSUME FlowInv, ReloadPanics PROVE FlowInv'
  OBVIOUS
<1> DEFINE o == Head(todo)
<1> USE DEF FlowInv
<1>1. /\ o \in Objs /\ KindOf(o) = "mac" /\ Idle
      /\ UNCHANGED <<conf, held, hasfin, gone, flows>>
  BY DEF ReloadPanics, Panics, FlowTypeOK, goVars
<1>2. \/ UNCHANGED cVars
      \/ /\ blk[o]["self"] = NULL
         /\ \E a \in Addrs \ live :
              /\ blk' = [blk EXCEPT ![o]["self"] = a]
              /\ live' = live \cup {a}
              /\ image' = [image EXCEPT ![o] = Zero(o)]
              /\ UNCHANGED <<arr, leaked>>
  BY DEF ReloadPanics
<1> HIDE DEF o
<1>3. CallInv' /\ PlainExact'
  BY <1>1 DEF CallInv, PlainExact, Idle
<1>4. <<>> \in Seq(Objs)
  OBVIOUS
<1>5. CASE UNCHANGED cVars
  <2>1. FlowTypeOK' /\ BlocksOwned' /\ NothingForgotten' /\ CopyInv'
    BY <1>1, <1>4, <1>5 DEF cVars, Idle, FlowTypeOK, BlocksOwned, NothingForgotten, CopyInv, Blocks
  <2>2. QED
    BY <1>3, <2>1
<1>6. ASSUME blk[o]["self"] = NULL, NEW a \in Addrs \ live,
             blk' = [blk EXCEPT ![o]["self"] = a], live' = live \cup {a},
             image' = [image EXCEPT ![o] = Zero(o)], UNCHANGED <<arr, leaked>>
      PROVE  FlowInv'
  <2> DEFINE R == {"self"}
             new == [p \in R |-> a]
  <2>1. "self" \in Parts(KindOf(o)) /\ KindOf(o) \in Kinds
    BY <1>1, ZeroFacts, KindFacts
  <2>2. Exchange(o, R, new)
    <3>1. DOMAIN blk = Objs /\ blk[o] \in [Parts(KindOf(o)) -> Addrs \cup {NULL}]
      BY <1>1 DEF FlowTypeOK
    <3>2. blk'[o] = [p \in Parts(KindOf(o)) |-> IF p \in R THEN new[p] ELSE blk[o][p]]
      BY <1>1, <1>6, <2>1, <3>1
    <3>3. NULL \notin live
      BY FlowRuleAssumption DEF FlowTypeOK
    <3>4. live' = (live \ {blk[o][p] : p \in R}) \cup {new[p] : p \in R}
      BY <1>6, <3>3
    <3>5. DOMAIN blk' = Objs /\ \A x \in Objs \ {o} : blk'[x] = blk[x]
      BY <1>1, <1>6, <3>1
    <3>6. new \in [R -> Addrs \ live] /\ \A p, q \in R : new[p] = new[q] => p = q
      BY <1>6
    <3> HIDE DEF R, new
    <3>7. QED
      BY <1>6, <3>2, <3>4, <3>5, <3>6 DEF Exchange
  <2> HIDE DEF R, new
  <2>3. R \in SUBSET Parts(KindOf(o))
    BY <2>1 DEF R
  <2>4. /\ BlocksOwned' /\ NothingForgotten' /\ live' \subseteq Addrs
        /\ blk'[o] \in [Parts(KindOf(o)) -> Addrs \cup {NULL}]
    BY <1>1, <2>2, <2>3, ExchangeInv
  <2>5. DOMAIN blk' = Objs /\ \A x \in Objs \ {o} : blk'[x] = blk[x]
    BY <2>2 DEF Exchange
  <2>6. /\ DOMAIN image' = Objs /\ image'[o] = Zero(o)
        /\ \A x \in Objs \ {o} : image'[x] = image[x]
    BY <1>1, <1>6 DEF FlowTypeOK
  <2>7. FlowTypeOK'
    BY <1>1, <1>4, <1>6, <2>4, <2>5, <2>6, ZeroFacts DEF FlowTypeOK, Idle
  <2>8. CopyInv'
    BY <1>1, <1>6, <2>1, <2>6, ZeroFacts, KindFacts DEF CopyInv, Idle
  <2>9. QED
    BY <1>3, <2>4, <2>7, <2>8
<1>7. QED
  BY <1>2, <1>5, <1>6

-----------------------------------------------------------------------------
(* The application and the driver. *)

(* Create and Validate begin with nothing built yet. *)
LEMMA CallStepInv ==
  ASSUME FlowInv, NEW f \in {"create", "validate"}, NEW r \in Rules, Call(f, r)
  PROVE  FlowInv'
<1> DEFINE s == cPattern(r.pattern) \o r.actions
<1> USE DEF FlowInv
<1>1. s \in Seq(Objs)
  BY PatternIsSeq
<1>2. PICK c \in [Range(s) -> UNION {Settings(o) : o \in Range(s)}] :
        /\ \A o \in Range(s) : c[o] \in Settings(o)
        /\ conf' = [o \in Objs |-> IF o \in Range(s) THEN c[o] ELSE conf[o]]
  BY DEF Call
<1>3. /\ pc' = "reload" /\ cur' = s /\ todo' = s
      /\ Range(s) \subseteq held
      /\ UNCHANGED <<held, image, blk, arr, live, leaked, hasfin, gone, flows>>
  BY DEF Call, cVars
<1> HIDE DEF s
<1>4. ASSUME NEW o \in Objs
      PROVE  /\ conf'[o] \in [FieldsOf(KindOf(o)) -> Values]
             /\ ~Clears => \A x \in Optional(KindOf(o)) : conf[o][x] # 0 => conf'[o][x] # 0
  <2>1. CASE o \in Range(s)
    <3>1. conf'[o] \in Settings(o)
      BY <1>2, <2>1
    <3>2. Inputs[o] \subseteq Values
      BY FlowRuleAssumption DEF Values
    <3>3. QED
      BY <3>1, <3>2 DEF Settings
  <2>2. CASE o \notin Range(s)
    BY <1>2, <2>2 DEF FlowTypeOK
  <2>3. QED
    BY <2>1, <2>2
<1>5. FlowTypeOK'
  BY <1>1, <1>2, <1>3, <1>4 DEF FlowTypeOK
<1>6. BlocksOwned' /\ NothingForgotten' /\ PlainExact'
  BY <1>3 DEF BlocksOwned, NothingForgotten, PlainExact, Blocks
<1>7. CallInv'
  BY <1>3 DEF CallInv
<1>8. CopyInv'
  BY <1>3, <1>4 DEF CopyInv
<1>9. QED
  BY <1>5, <1>6, <1>7, <1>8

(* The driver accepts a rule of which it has read the C structs as Reload  *)
(* left them: those of plain objects say what the Go structs say.          *)
LEMMA CreateInv == FlowInv /\ CreateOK => FlowInv'
<1> SUFFICES ASSUME FlowInv, CreateOK PROVE FlowInv'
  OBVIOUS
<1> USE DEF FlowInv
<1>1. PICK h \in Handles, got \in [Range(cur) -> UNION {Seen(o) : o \in Range(cur)}] :
        /\ \A o \in Range(cur) : got[o] \in Seen(o)
        /\ flows' = [flows EXCEPT ![h] = {o \in Range(cur) : got[o] # conf[o]}]
  BY DEF CreateOK
<1>2. pc = "C" /\ todo = <<>> /\ Idle /\ UNCHANGED <<conf, held, image, blk, arr, live, leaked, hasfin, gone>>
  BY DEF CreateOK, CallInv, goVars, cVars
<1>3. ASSUME NEW o \in Range(cur), Plain(o) PROVE got[o] = conf[o]
  <2>1. o \in Objs /\ o \notin Range(todo)
    BY <1>2 DEF FlowTypeOK, Range
  <2>2. image[o] = conf[o]
    BY <1>2, <1>3, <2>1 DEF CopyInv
  <2>3. arr[o] # "gone"
    BY <1>3, <2>1 DEF CopyInv, Plain
  <2>4. Intact(o)
    BY <1>2, <2>1, <2>3 DEF Intact, CallInv, BlocksOwned
  <2>5. QED
    BY <1>1, <2>2, <2>4 DEF Seen
<1>4. PlainExact'
  <2>1. ASSUME NEW g \in Handles, flows'[g] # NULL, NEW o \in flows'[g] PROVE ~Plain(o)
    <3>1. CASE g = h
      <4>1. o \in Range(cur) /\ got[o] # conf[o]
        BY <1>1, <2>1, <3>1 DEF FlowTypeOK
      <4>2. QED
        BY <1>3, <4>1
    <3>2. CASE g # h
      BY <1>1, <2>1, <3>2 DEF FlowTypeOK, PlainExact
    <3>3. QED
      BY <3>1, <3>2
  <2>2. QED
    BY <2>1 DEF PlainExact, Plain
<1>5. <<>> \in Seq(Objs)
  OBVIOUS
<1>6. FlowTypeOK' /\ CallInv' /\ CopyInv'
  BY <1>1, <1>2, <1>5 DEF FlowTypeOK, CallInv, CopyInv, Idle
<1>7. BlocksOwned' /\ NothingForgotten'
  BY <1>2 DEF BlocksOwned, NothingForgotten, Blocks
<1>8. QED
  BY <1>4, <1>6, <1>7

(* Steps that touch neither the structs nor C memory. *)
LEMMA OtherStepInv ==
  ASSUME FlowInv, CallC \/ Return \/ Flush \/ \E h \in Handles : Destroy(h)
  PROVE  FlowInv'
<1> USE DEF FlowInv, goVars, cVars, callVars
<1>1. UNCHANGED <<conf, held, image, blk, arr, live, leaked, hasfin, gone>>
  BY DEF CallC, Return, Flush, Destroy
<1>2. BlocksOwned' /\ NothingForgotten'
  BY <1>1 DEF BlocksOwned, NothingForgotten, Blocks
<1>3. <<>> \in Seq(Objs)
  OBVIOUS
<1>4. CASE CallC
  BY <1>1, <1>2, <1>4 DEF CallC, FlowTypeOK, CallInv, CopyInv, PlainExact
<1>5. CASE Return
  BY <1>1, <1>2, <1>3, <1>5 DEF Return, Idle, FlowTypeOK, CallInv, CopyInv, PlainExact
<1>6. CASE Flush
  BY <1>1, <1>2, <1>6 DEF Flush, FlowTypeOK, CallInv, CopyInv, PlainExact
<1>7. ASSUME NEW h \in Handles, Destroy(h) PROVE FlowInv'
  BY <1>1, <1>2, <1>7 DEF Destroy, FlowTypeOK, CallInv, CopyInv, PlainExact
<1>8. QED
  BY <1>4, <1>5, <1>6, <1>7

-----------------------------------------------------------------------------
(* The Go runtime. *)

(* The finalizer of an object no call keeps alive frees exactly its own *)
(* blocks.                                                              *)
LEMMA CollectInv ==
  ASSUME FlowInv, NEW o \in Objs, Collect(o)
  PROVE  FlowInv'
<1> USE DEF FlowInv
<1>1. /\ o \notin held /\ o \notin KeptAlive /\ gone' = gone \cup {o}
      /\ hasfin' = hasfin \ {o}
      /\ UNCHANGED <<held, pc, op, cur, todo, flows>>
  BY DEF Collect, callVars
<1>2. /\ DOMAIN blk' = Objs /\ DOMAIN arr' = Objs /\ DOMAIN conf' = Objs /\ DOMAIN image' = Objs
      /\ blk'[o] = Unallocated(o) /\ arr'[o] = "none" /\ conf'[o] = Zero(o) /\ image'[o] = Zero(o)
      /\ \A x \in Objs \ {o} : /\ blk'[x] = blk[x] /\ arr'[x] = arr[x]
                               /\ conf'[x] = conf[x] /\ image'[x] = image[x]
  BY DEF Collect, FlowTypeOK
<1>3. \/ live' = live \ Blocks(o) /\ leaked' = leaked
      \/ live' = live /\ leaked' = leaked \cup Blocks(o)
  BY DEF Collect, free
<1>4. Blocks(o)' = {} /\ \A x \in Objs \ {o} : Blocks(x)' = Blocks(x)
  BY <1>2, ZeroFacts DEF Blocks
<1>5. \A x \in Objs \ {o} : Blocks(x) \cap Blocks(o) = {}
  BY DEF BlocksOwned, Blocks, Range
<1>6. BlocksOwned'
  <2>1. \A x \in Objs : Blocks(x)' \subseteq live'
    BY <1>3, <1>4, <1>5 DEF BlocksOwned
  <2>2. \A p \in DOMAIN blk'[o] : blk'[o][p] = NULL
    BY <1>2 DEF Unallocated
  <2>3. ASSUME NEW x1 \in Objs, NEW x2 \in Objs,
               NEW p1 \in DOMAIN blk'[x1], NEW p2 \in DOMAIN blk'[x2],
               blk'[x1][p1] = blk'[x2][p2], blk'[x1][p1] # NULL
        PROVE  x1 = x2 /\ p1 = p2
    <3>1. x1 # o /\ x2 # o
      BY <2>2, <2>3
    <3>2. blk'[x1] = blk[x1] /\ blk'[x2] = blk[x2]
      BY <1>2, <3>1
    <3>3. QED
      BY <2>3, <3>2 DEF BlocksOwned
  <2>4. QED
    BY <2>1, <2>3 DEF BlocksOwned
<1>7. NothingForgotten'
  BY <1>3, <1>4 DEF NothingForgotten
<1>8. CallInv'
  BY <1>1 DEF CallInv, KeptAlive
<1>9. PlainExact'
  BY <1>1 DEF PlainExact
<1>10. FlowTypeOK'
  BY <1>1, <1>2, <1>3, ZeroFacts DEF FlowTypeOK
<1>11. CopyInv'
  <2>1. \A x \in Objs : Inner(KindOf(x)) = {} => arr'[x] = "none"
    BY <1>2 DEF CopyInv
  <2>2. ASSUME ~Clears, NEW x \in Objs, NEW f \in Optional(KindOf(x)), image'[x][f] # 0
        PROVE  conf'[x][f] # 0
    BY <1>2, <2>2, ZeroFacts, KindFacts DEF CopyInv
  <2>3. ASSUME pc # "idle", NEW x \in Range(cur) \ Range(todo), Plain(x)
        PROVE  image'[x] = conf'[x]
    <3>1. x \in Objs \ {o}
      BY <1>1, <2>3 DEF KeptAlive, FlowTypeOK, Range
    <3>2. QED
      BY <1>2, <2>3, <3>1 DEF CopyInv
  <2>4. QED
    BY <1>1, <2>1, <2>2, <2>3 DEF CopyInv
<1>12. QED
  BY <1>6, <1>7, <1>8, <1>9, <1>10, <1>11

(* Dropping and reusing objects, and collecting their Go arrays, keeps the *)
(* invariant.                                                              *)
LEMMA RuntimeInv ==
  ASSUME FlowInv, NEW o \in Objs, Drop(o) \/ New(o) \/ CollectArray(o)
  PROVE  FlowInv'
<1> USE DEF FlowInv, goVars, cVars, callVars
<1>1. UNCHANGED <<conf, image, blk, live, leaked, hasfin, pc, op, cur, todo, flows>>
  BY DEF Drop, New, CollectArray
<1>2. BlocksOwned' /\ NothingForgotten' /\ PlainExact'
  BY <1>1 DEF BlocksOwned, NothingForgotten, Blocks, PlainExact
<1>3. CASE Drop(o)
  BY <1>1, <1>2, <1>3 DEF Drop, FlowTypeOK, CallInv, CopyInv
<1>4. CASE New(o)
  BY <1>1, <1>2, <1>4 DEF New, FlowTypeOK, CallInv, CopyInv
<1>5. CASE CollectArray(o)
  BY <1>1, <1>2, <1>5 DEF CollectArray, FlowTypeOK, CallInv, CopyInv
<1>6. QED
  BY <1>3, <1>4, <1>5

(* Every step keeps the invariant. *)
LEMMA NextInv == FlowInv /\ [Next]_vars => FlowInv'
<1> SUFFICES ASSUME FlowInv, [Next]_vars PROVE FlowInv'
  OBVIOUS
<1>1. CASE UNCHANGED vars
  BY <1>1 DEF vars, goVars, cVars, callVars, FlowInv, FlowTypeOK, BlocksOwned, Blocks,
     NothingForgotten, CallInv, CopyInv, PlainExact
<1>2. QED
  BY <1>1, RuntimeInv, CollectInv, CallStepInv, ReloadNextInv, ReloadPanicsInv, CreateInv,
     OtherStepInv DEF Next

-----------------------------------------------------------------------------
(* The invariant of items, actions and rules holds however Create,         *)
(* Validate, the application and the collector interleave.                 *)
THEOREM FlowInvariant == Spec => []FlowInv
BY InitInv, NextInv, PTL DEF Spec

(* runtime.KeepAlive in Create and Validate is enough: no finalizer frees  *)
(* memory that the driver is reading.                                      *)
THEOREM DriverReadsLive == Spec => []NoUseAfterFree
<1>1. FlowInv => NoUseAfterFree
  BY DEF FlowInv, NoUseAfterFree, CallInv, BlocksOwned, FlowTypeOK, Range
<1>2. QED
  BY <1>1, FlowInvariant, PTL

(* Every block of C memory has one owner: createOrRet and ActionRSS.Reload *)
(* never let two pointers share a block nor keep one that was freed.       *)
THEOREM BlocksHaveOneOwner == Spec => []BlocksOwned
<1>1. FlowInv => BlocksOwned
  BY DEF FlowInv
<1>2. QED
  BY <1>1, FlowInvariant, PTL

(* Nothing but the missing finalizers loses C memory. *)
THEOREM OnlyUnfinalizedLeak == Spec => []NothingForgotten
<1>1. FlowInv => NothingForgotten
  BY DEF FlowInv
<1>2. QED
  BY <1>1, FlowInvariant, PTL

(* A rule the driver accepted says what the Go structs of its plain items  *)
(* and actions said, whatever they were used for before.                   *)
THEOREM PlainAsConfigured == Spec => []PlainExact
<1>1. FlowInv => PlainExact
  BY DEF FlowInv
<1>2. QED
  BY <1>1, FlowInvariant, PTL
=============================================================================
