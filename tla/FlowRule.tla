------------------------------ MODULE FlowRule ------------------------------
(***************************************************************************)
(* Items, actions and rules of package ethdev/flow.                        *)
(*                                                                         *)
(* An item or action is a Go struct that owns a C struct.  Create and      *)
(* Validate call Reload on each, which allocates the C struct on first use *)
(* and copies the Go fields into it, and then hand the C structs to the    *)
(* driver.  Some types free their C memory in a finalizer, so the          *)
(* collector runs against the goroutine that is in Create.                 *)
(*                                                                         *)
(* An object is a pair of its kind (the Go type) and a number.  A field is *)
(* abstracted to a small number, 0 being the zero value or an empty slice. *)
(***************************************************************************)
EXTENDS Naturals, Sequences, FiniteSets, Functions, SequencesExt

CONSTANTS
  Objs,      (* items and actions, each <<kind, number>> *)
  Rules,     (* pattern and actions of the rules the application asks for *)
  Addrs,     (* addresses of C memory, a bound on what is allocated at once *)
  Handles,   (* *Flow handles, a bound on the rules of the port *)
  MaxVal,    (* largest value of a field *)
  Inputs,    (* the values the application sets the fields of an object to *)
  HostOrder, (* what a number reads as with its three bytes the other way round *)
  Clears,    (* the application may set an optional field back to empty *)
  NULL

KindOf(o) == o[1]

(* ItemType and ActionType used as an item or action: no C struct. *)
Bare == {"type"}

(* Types whose Reload sets a finalizer, and those where it does not. *)
Finalized == {"vlan", "queue", "jump", "count", "mac", "rss"}
Unfinalized == {"eth", "ipv4", "ipv6", "udp", "tcp", "vxlan", "vxlan2", "meter",
                "port_id", "set_ip", "sample", "encap"}

Kinds == Bare \cup Finalized \cup Unfinalized

(* ActionSample and ActionVxlanEncap keep other actions or items in the    *)
(* same Go object; their C struct points to an array in Go memory.         *)
Inner(k) ==
  CASE k = "sample" -> {"PortID"}
    [] k = "encap" -> {"Ether", "IPv4", "UDP", "Vxlan"}
    [] OTHER -> {}

(* Fields Reload copies on every call. *)
Always(k) == IF k \in Bare THEN {} ELSE {"val"} \cup Inner(k)

(* Fields Reload copies only if they are not empty. *)
Optional(k) ==
  CASE k = "rss" -> {"Queues", "Key"}
    [] k \in {"eth", "encap"} -> {"addr"}
    [] OTHER -> {}

(* Fields of the Go struct that Reload never copies. *)
Lost(k) == IF k \in {"tcp", "ipv6"} THEN {"rest"} ELSE {}

(* The VNI of ItemVXLAN: Reload copies its bytes in host order into a      *)
(* field the driver reads in network order.  All other numbers, the VNI of *)
(* ItemVXLAN2 too, are converted.                                          *)
Swapped(k) == IF k = "vxlan" THEN {"val"} ELSE {}

FieldsOf(k) == Always(k) \cup Optional(k) \cup Lost(k)

(* Slices that ActionRSS copies into a new block on each Reload. *)
Renewed(k) == IF k = "rss" THEN Optional(k) ELSE {}

(* The blocks of C memory an object may own: its struct and the rest. *)
Parts(k) == IF k \in Bare THEN {} ELSE {"self"} \cup Inner(k) \cup Renewed(k)

Item == [Spec : Objs, Mask : Objs \cup {NULL}, Last : Objs \cup {NULL}]

ASSUME FlowRuleAssumption ==
  /\ \A o \in Objs : KindOf(o) \in Kinds
  /\ \A r \in Rules : r.pattern \in Seq(Item) /\ r.actions \in Seq(Objs)
  /\ IsFiniteSet(Addrs) /\ NULL \notin Addrs \cup Objs
  /\ MaxVal \in Nat \ {0}
  /\ Inputs \in [Objs -> SUBSET (0..MaxVal)]
  /\ HostOrder \in [0..MaxVal -> 0..MaxVal]
  /\ \A v \in 0..MaxVal : HostOrder[HostOrder[v]] = v
  /\ Clears \in BOOLEAN

VARIABLES
  conf,    (* the fields of a Go struct *)
  image,   (* the fields of its C struct *)
  blk,     (* the address of each of its blocks of C memory *)
  arr,     (* the Go array its C struct points to: "none", "live", "gone" *)
  hasfin,  (* objects with a finalizer *)
  held,    (* objects the application will still use *)
  gone,    (* objects the collector has taken *)
  live,    (* addresses malloc has given out *)
  leaked,  (* history: blocks of objects taken without a finalizer *)
  pc,      (* the calling goroutine: "idle", "reload", or "C" *)
  op,      (* the function it called *)
  cur,     (* the objects passed to it *)
  todo,    (* those Reload has still to be called on *)
  flows    (* a rule of the port: NULL, or (history) the objects in it of
              which the driver read something else than the Go struct says *)

goVars == <<conf, held>>
cVars == <<image, blk, arr, live, leaked>>
callVars == <<pc, op, cur, todo>>
vars == <<goVars, cVars, hasfin, gone, callVars, flows>>

Values == 0..MaxVal
Zero(o) == [f \in FieldsOf(KindOf(o)) |-> 0]
Unallocated(o) == [p \in Parts(KindOf(o)) |-> NULL]
Blocks(o) == Range(blk[o]) \ {NULL}

Init ==
  /\ conf = [o \in Objs |-> Zero(o)]
  /\ image = [o \in Objs |-> Zero(o)]
  /\ blk = [o \in Objs |-> Unallocated(o)]
  /\ arr = [o \in Objs |-> "none"]
  /\ hasfin = {}
  /\ held = Objs
  /\ gone = {}
  /\ live = {}
  /\ leaked = {}
  /\ pc = "idle"
  /\ op = "none"
  /\ cur = <<>>
  /\ todo = <<>>
  /\ flows = [h \in Handles |-> NULL]

-----------------------------------------------------------------------------
(* The application. *)

(* What the fields of an object may be set to before it is used. *)
Settings(o) ==
  {c \in [FieldsOf(KindOf(o)) -> Inputs[o]] :
     \A f \in Optional(KindOf(o)) : conf[o][f] # 0 /\ c[f] = 0 => Clears}

(* The last use of an object: it may be the argument of a running call. *)
Drop(o) ==
  /\ o \in held
  /\ held' = held \ {o}
  /\ UNCHANGED <<conf, cVars, hasfin, gone, callVars, flows>>

(* A new struct takes the place of one that was collected. *)
New(o) ==
  /\ pc = "idle"
  /\ o \in gone
  /\ gone' = gone \ {o}
  /\ held' = held \cup {o}
  /\ UNCHANGED <<conf, cVars, hasfin, callVars, flows>>

-----------------------------------------------------------------------------
(* Create and Validate. *)

(* The order in which cPattern calls Reload: Spec, Mask, Last of each item. *)
NotNil(o) == IF o = NULL THEN <<>> ELSE <<o>>
cPattern(pattern) ==
  FlattenSeq([i \in DOMAIN pattern |->
    <<pattern[i].Spec>> \o NotNil(pattern[i].Mask) \o NotNil(pattern[i].Last)])

(* Parts Reload allocates: the struct and the inner ones once, the slices  *)
(* of ActionRSS whenever they are not empty.                               *)
Allocated(o) ==
  {p \in Parts(KindOf(o)) :
     IF p \in Renewed(KindOf(o)) THEN conf[o][p] # 0 ELSE blk[o][p] = NULL}

(* Bound: a call starts only while there is room for what it allocates. *)
Room(s) ==
  Cardinality(Addrs \ live) >=
    Cardinality(UNION {{o} \X Allocated(o) : o \in Range(s)})

(* The application sets the fields of its items and actions and calls f. *)
Call(f, r) ==
  LET s == cPattern(r.pattern) \o r.actions IN
  /\ pc = "idle"
  /\ Range(s) \subseteq held
  /\ \E c \in [Range(s) -> UNION {Settings(o) : o \in Range(s)}] :
       /\ \A o \in Range(s) : c[o] \in Settings(o)
       /\ conf' = [o \in Objs |-> IF o \in Range(s) THEN c[o] ELSE conf[o]]
  /\ pc' = "reload"
  /\ op' = f
  /\ cur' = s
  /\ todo' = s
  /\ UNCHANGED <<held, cVars, hasfin, gone, flows>>
  /\ Room(s)'

(* Mutant: the old slices are freed before their length is looked at. *)
ReplacedAll(o) == {blk[o][p] : p \in Renewed(KindOf(o))} \ {NULL}

(* The slices of ActionRSS that are freed once the copy is made. *)
Replaced(o) ==
  {blk[o][p] : p \in Renewed(KindOf(o)) \cap Allocated(o)} \ {NULL}

(* Mutant: an object that has its C struct is not copied again. *)
CopiedOnce(o) ==
  [f \in FieldsOf(KindOf(o)) |->
     IF blk[o]["self"] = NULL /\ f \notin Lost(KindOf(o)) THEN conf[o][f] ELSE image[o][f]]

(* Field f of a struct of kind k as the driver reads it off the C struct. *)
Stored(k, f, v) == IF f \in Swapped(k) THEN HostOrder[v] ELSE v

(* What the C struct holds after Reload; it is zeroed when allocated. *)
Copied(o) ==
  LET k == KindOf(o)
      old == IF blk[o]["self"] = NULL THEN Zero(o) ELSE image[o]
  IN  [f \in FieldsOf(k) |->
         IF f \in Always(k) \/ (f \in Optional(k) /\ conf[o][f] # 0)
           THEN Stored(k, f, conf[o][f]) ELSE old[f]]

(* Reload returns: SetFinalizer has been called where the type does so. *)
Reload(o) ==
  \E new \in Injection(Allocated(o), Addrs \ live) :
    /\ blk' = [blk EXCEPT ![o] = [p \in DOMAIN @ |-> IF p \in DOMAIN new THEN new[p] ELSE @[p]]]
    /\ live' = (live \ Replaced(o)) \cup Range(new)
    /\ image' = [image EXCEPT ![o] = IF KindOf(o) \in Bare THEN @ ELSE Copied(o)]
    /\ arr' = [arr EXCEPT ![o] = IF Inner(KindOf(o)) = {} THEN @ ELSE "live"]
    /\ hasfin' = IF KindOf(o) \in Finalized THEN hasfin \cup {o} ELSE hasfin
    /\ UNCHANGED leaked

(* A Mac of fewer than six bytes: Reload allocates and then panics. *)
Panics(o) == KindOf(o) = "mac" /\ conf[o]["val"] = 0

Idle == pc' = "idle" /\ op' = "none" /\ cur' = <<>> /\ todo' = <<>>

ReloadNext ==
  /\ pc = "reload"
  /\ todo # <<>>
  /\ ~Panics(Head(todo))
  /\ Reload(Head(todo))
  /\ todo' = Tail(todo)
  /\ UNCHANGED <<pc, op, cur, goVars, gone, flows>>

ReloadPanics ==
  /\ pc = "reload"
  /\ todo # <<>>
  /\ Panics(Head(todo))
  /\ LET o == Head(todo) IN
       IF blk[o]["self"] # NULL THEN UNCHANGED cVars
       ELSE \E a \in Addrs \ live :
              /\ blk' = [blk EXCEPT ![o]["self"] = a]
              /\ live' = live \cup {a}
              /\ image' = [image EXCEPT ![o] = Zero(o)]
              /\ UNCHANGED <<arr, leaked>>
  /\ Idle
  /\ UNCHANGED <<goVars, hasfin, gone, flows>>

(* The call of rte_flow_create or rte_flow_validate. *)
CallC ==
  /\ pc = "reload"
  /\ todo = <<>>
  /\ pc' = "C"
  /\ UNCHANGED <<op, cur, todo, goVars, cVars, hasfin, gone, flows>>

(* Everything the driver follows from the conf or spec of o is allocated.  *)
Intact(o) == o \notin gone /\ Blocks(o) \subseteq live /\ arr[o] # "gone"

(* What the driver may read there. *)
Seen(o) ==
  IF Intact(o) THEN {image[o]} ELSE [FieldsOf(KindOf(o)) -> Values]

(* The driver accepts the rule and keeps a copy of what it read. *)
CreateOK ==
  /\ pc = "C"
  /\ op = "create"
  /\ \E h \in Handles, got \in [Range(cur) -> UNION {Seen(o) : o \in Range(cur)}] :
       /\ flows[h] = NULL
       /\ \A o \in Range(cur) : got[o] \in Seen(o)
       /\ flows' = [flows EXCEPT ![h] = {o \in Range(cur) : got[o] # conf[o]}]
  /\ Idle
  /\ UNCHANGED <<goVars, cVars, hasfin, gone>>

(* Create that failed returns no handle, Validate only an error code. *)
Return ==
  /\ pc = "C"
  /\ Idle
  /\ UNCHANGED <<goVars, cVars, hasfin, gone, flows>>

(* Destroy that succeeds; one that fails changes nothing. *)
Destroy(h) ==
  /\ pc = "idle"
  /\ flows[h] # NULL
  /\ flows' = [flows EXCEPT ![h] = NULL]
  /\ UNCHANGED <<goVars, cVars, hasfin, gone, callVars>>

(* The handles are invalid after Flush, even if it failed. *)
Flush ==
  /\ pc = "idle"
  /\ flows' = [h \in Handles |-> NULL]
  /\ UNCHANGED <<goVars, cVars, hasfin, gone, callVars>>

-----------------------------------------------------------------------------
(* The Go runtime. *)

(* Mutant: no runtime.KeepAlive after the call into C. *)
KeptAliveNot == IF pc = "reload" THEN Range(todo) ELSE {}

(* pattern and actions are used until the call into C has returned. *)
KeptAlive == IF pc = "idle" THEN {} ELSE Range(cur)

(* Mutant: free of ActionRSS forgets the key. *)
freeNoKey(o) == Blocks(o) \ {blk[o][p] : p \in DOMAIN blk[o] \cap {"Key"}}

(* What the finalizer gives back: free of cPointer or of ActionRSS. *)
free(o) == Blocks(o)

(* An object nobody can reach is collected, after its finalizer if it has  *)
(* one; without, its C memory stays allocated.                             *)
Collect(o) ==
  /\ o \notin held \cup KeptAlive \cup gone
  /\ gone' = gone \cup {o}
  /\ \/ o \in hasfin /\ live' = live \ free(o) /\ UNCHANGED leaked
     \/ o \notin hasfin /\ leaked' = leaked \cup Blocks(o) /\ UNCHANGED live
  /\ hasfin' = hasfin \ {o}
  /\ blk' = [blk EXCEPT ![o] = Unallocated(o)]
  /\ arr' = [arr EXCEPT ![o] = "none"]
  /\ conf' = [conf EXCEPT ![o] = Zero(o)]
  /\ image' = [image EXCEPT ![o] = Zero(o)]
  /\ UNCHANGED <<held, callVars, flows>>

(* The Go array that only the C struct of o points to is collected. *)
CollectArray(o) ==
  /\ arr[o] = "live"
  /\ arr' = [arr EXCEPT ![o] = "gone"]
  /\ UNCHANGED <<image, blk, live, leaked, hasfin, gone, goVars, callVars, flows>>

-----------------------------------------------------------------------------
Next ==
  \/ \E o \in Objs : Drop(o) \/ New(o) \/ Collect(o) \/ CollectArray(o)
  \/ \E f \in {"create", "validate"}, r \in Rules : Call(f, r)
  \/ ReloadNext
  \/ ReloadPanics
  \/ CallC
  \/ CreateOK
  \/ Return
  \/ \E h \in Handles : Destroy(h)
  \/ Flush

Spec == Init /\ [][Next]_vars
-----------------------------------------------------------------------------
(* Properties. *)

(* While the driver works on a rule, no finalizer has freed the C memory   *)
(* of its items and actions (runtime.KeepAlive in Create and Validate).    *)
NoUseAfterFree ==
  pc = "C" => \A o \in Range(cur) : o \notin gone /\ Blocks(o) \subseteq live

(* Every block an object points to is allocated and belongs to that        *)
(* pointer alone, so a finalizer frees nothing twice and nothing that was  *)
(* given to another object meanwhile (createOrRet, ActionRSS.Reload).      *)
BlocksOwned ==
  /\ \A o \in Objs : Blocks(o) \subseteq live
  /\ \A o1, o2 \in Objs : \A p1 \in DOMAIN blk[o1], p2 \in DOMAIN blk[o2] :
       blk[o1][p1] = blk[o2][p2] /\ blk[o1][p1] # NULL => o1 = o2 /\ p1 = p2

(* C memory is lost only with objects whose type sets no finalizer, or     *)
(* that were never reloaded to the end: neither a Reload nor a finalizer   *)
(* forgets a block (ActionRSS.free, ActionRSS.Reload).                     *)
NothingForgotten ==
  live \ UNION {Blocks(o) : o \in Objs} \subseteq leaked

(* The driver reads what the Go struct says of every item and action whose *)
(* type copies all its fields into memory of its own and converts them to  *)
(* network order, however often the struct is changed and reused (Reload   *)
(* in cPattern and cActions).                                              *)
Plain(o) ==
  LET k == KindOf(o) IN
  Inner(k) = {} /\ Lost(k) = {} /\ Swapped(k) = {} /\ (Optional(k) = {} \/ ~Clears)
PlainExact == \A h \in Handles : flows[h] # NULL => \A o \in flows[h] : ~Plain(o)

(* The same of every item and action, as the comment of Reload has it:     *)
(* the C struct "reflects the up-to-date configuration".                   *)
ReloadUpToDate == \A h \in Handles : flows[h] # NULL => flows[h] = {}
=============================================================================
