------------------------------- MODULE CCalls -------------------------------
(***************************************************************************)
(* How the bindings call into DPDK.  A call allocates its arguments in C   *)
(* memory, enters C on the OS thread its goroutine happens to be on, and   *)
(* afterwards releases the arguments and reports the result.  Functions    *)
(* that return a handle learn the reason of a failure from rte_errno,      *)
(* which is a variable of the OS thread and is read by a call of its own   *)
(* (common.RteErrno): a goroutine that is not locked to its thread may     *)
(* have moved in between.                                                  *)
(*                                                                         *)
(* Two calls that use C memory in the same way are one element of Calls:   *)
(* what tells them apart (which DPDK function, which numbers) is not       *)
(* modelled, except for the functions that build a pipeline.               *)
(***************************************************************************)
EXTENDS CMemory

CONSTANTS
  Threads,   \* OS threads
  Locked,    \* goroutines locked to a thread: lcore.Thread and the EAL's lcores
  HomeOf,    \* their threads, a function on Locked
  Errnos,    \* error numbers, none of them 0
  RteErrnos  \* the numbers of DPDK's own that common has a variable for

VARIABLES
  call,      \* the call each goroutine is in
  errno,     \* rte_errno of each thread
  strayed    \* history: a pointer no one had written was passed to free

callVars == <<call, errno, strayed>>

ASSUME LockedAssumption ==
  /\ Locked \subseteq Goroutines
  /\ HomeOf \in [Locked -> Threads]
  /\ \A g, h \in Locked : g # h => HomeOf[g] # HomeOf[h]
  /\ 0 \notin Errnos /\ RteErrnos \subseteq Errnos

(***************************************************************************)
(* The Go value a number becomes (errno of common): nil for 0, one of four *)
(* variables of the package for the numbers of DPDK, and for all others a  *)
(* new error made of the number and its text, no syscall.Errno.            *)
(***************************************************************************)
Errno(n) ==
  [is |-> IF n = 0 THEN "nil" ELSE IF n \in RteErrnos THEN "variable" ELSE "text", n |-> n]
Nil == Errno(0)

\* A nil handle, or false, with no reason.
Failed == [is |-> "bare", n |-> 0]

\* What a function returns as soon as it is back from C, by the way it reports:
\* the number the C function returned, success or no success only, or nothing
\* at all.  One that is to ask for rte_errno has nothing to say yet.
Reported(reports, e) ==
  CASE reports = "rc" -> Errno(e)
    [] reports = "bare" /\ e # 0 -> Failed
    [] OTHER -> Nil

(***************************************************************************)
(* What a call allocates: a C struct, a string, a second array; which of   *)
(* the pointers of the struct stays unwritten; and whether the function    *)
(* panics before, between or after its allocations.                        *)
(***************************************************************************)
Fields == {"struct", "name", "array"}
Args(parts, unset, panics) == [parts |-> parts, unset |-> unset, panics |-> panics]

TransformPOD == Args({"struct"}, {}, "no")

RingRx == TransformPOD
RingTx == TransformPOD
FdRx == TransformPOD
FdTx == TransformPOD
EthdevRx == TransformPOD
EthdevTx == TransformPOD
ArrayParams == TransformPOD

StubParams == Args({}, {}, "no")

\* Source and Sink write file_name only when they have one.
Source(hasFile) ==
  IF hasFile THEN Args({"struct", "name"}, {}, "no") ELSE Args({"struct"}, {"name"}, "no")
Sink(hasFile) ==
  IF hasFile THEN Args({"struct", "name"}, {}, "no") ELSE Args({"struct"}, {"name"}, "no")

tformTo4 == Args({"struct", "name"}, {}, "no")
tformTo6 == Args({"struct", "name"}, {}, "no")
LPMParams == {tformTo4, tformTo6, Args({}, {}, "before")}

tformToOrdinary == Args({"struct", "name", "array"}, {}, "no")
tformToCuckoo == Args({"struct", "name", "array"}, {}, "no")
HashParams == {tformToOrdinary, tformToCuckoo, Args({}, {}, "before")}

\* With too many fields Transform panics when it has allocated the struct.
ACLParams == {Args({"struct", "name"}, {}, "no"), Args({"struct"}, {}, "between")}

InParams == {RingRx, FdRx, EthdevRx, Source(TRUE), Source(FALSE)}
OutParams == {RingTx, FdTx, EthdevTx, Sink(TRUE), Sink(FALSE)}
TableParams == LPMParams \cup HashParams \cup ACLParams \cup {ArrayParams, StubParams}
PipelineParams == Args({"struct", "name"}, {}, "no")

\* A string that is freed when the function returns; also when it panics.
Name(panics) == Args({"name"}, {}, panics)
\* The keys of up to two OptRss options of DevConfigure, all of them in cptrs.
RssKeys == {Args(S, {}, "no") : S \in {{}, {"name"}, {"name", "array"}}}

(***************************************************************************)
(* The calls: what they build, how they learn of a failure, and whether    *)
(* they release their memory before they look.                             *)
(***************************************************************************)
Via(builds, reports, eager, argss) ==
  {[builds |-> builds, reports |-> reports, eager |-> eager, args |-> a] : a \in argss}

PipelineCreate == Via("pipeline", "bare", FALSE, {PipelineParams})
PortInCreate == Via("in", "rc", FALSE, InParams)
PortOutCreate == Via("out", "rc", FALSE, OutParams)
TableCreate == Via("table", "rc", FALSE, TableParams)
CreateIn == Via("other", "bare", FALSE, InParams)
CreateOut == Via("other", "bare", FALSE, OutParams)
TableNew == Via("other", "bare", FALSE, TableParams)
AclCreate == Via("other", "errno", FALSE, {Name("no")})
AclFindExisting == Via("other", "errno", FALSE, {Name("no")})
LpmCreate == Via("other", "errno", FALSE, {Name("no")})
Lpm6Create == Via("other", "errno", FALSE, {Name("no")})
LpmFindExisting == Via("other", "errno", FALSE, {Name("no"), Name("after")})
\* OptBounded without OptAligned follows a nil pointer.
MemzoneReserve == Via("other", "errno", FALSE, {Name("no"), Name("after")})
MemzoneLookup == Via("other", "errno", FALSE, {Name("no")})
RingLookup == Via("other", "errno", FALSE, {Name("no")})
MempoolCreateEmpty == Via("other", "errno", TRUE, {Name("no")})
MempoolLookup == Via("other", "errno", TRUE, {Name("no")})
SetOpsByName == Via("other", "rc", FALSE, {Name("no")})
DevConfigure == Via("other", "rc", FALSE, RssKeys)
RssHashUpdate == Via("other", "rc", FALSE, {Args({}, {}, "no"), Name("no")})
GetPortByName == Via("other", "rc", FALSE, {Name("no")})
\* The name of the ops is a second string.
CreateMbufPool == Via("other", "errno", FALSE, {Name("no"), Args({"name", "array"}, {}, "no")})
CreateCache == Via("other", "errno", FALSE, {Args({}, {}, "no")})
\* ealInit keeps its arguments in a session; two of them stand for all.
ealInit == Via("other", "errno", FALSE, {Args({"name", "array"}, {}, "no")})
PrimaryProcAlive == Via("other", "bare", FALSE, {Args({}, {}, "no"), Name("no")})
telemetryRegisterCmd == Via("other", "rc", FALSE, {Args({"name", "array"}, {}, "no")})
RegisterTelemetryLSC == Via("other", "nothing", TRUE, {Name("no")})

BuildCalls == PipelineCreate \cup PortInCreate \cup PortOutCreate \cup TableCreate
OtherCalls ==
  UNION {CreateIn, CreateOut, TableNew, AclCreate, AclFindExisting, LpmCreate, Lpm6Create,
         LpmFindExisting, MemzoneReserve, MemzoneLookup, RingLookup, MempoolCreateEmpty,
         MempoolLookup, SetOpsByName, DevConfigure, RssHashUpdate, GetPortByName,
         CreateMbufPool, CreateCache, ealInit, PrimaryProcAlive, telemetryRegisterCmd,
         RegisterTelemetryLSC}

(***************************************************************************)
(* A call, step by step: "ready" to enter C, "inC", "release" and "ask"    *)
(* (free the arguments, read rte_errno), "done".                           *)
(***************************************************************************)
CallInit ==
  /\ call = [g \in Goroutines |-> [at |-> "done", told |-> TRUE]]
  /\ errno = [t \in Threads |-> 0]
  /\ strayed = FALSE

\* Mutant: a thread that runs jobs is not locked to its OS thread.
MayRunOnAny(g) ==
  {t \in Threads : \A h \in Goroutines \ {g} : call[h].at = "inC" => call[h].thread # t}

\* The threads goroutine g may be on when it enters C: its own if it is locked
\* to one, else any that no other goroutine is locked to or is in C on.
MayRunOn(g) ==
  IF g \in Locked THEN {HomeOf[g]}
  ELSE {t \in Threads :
          /\ \A h \in Locked : HomeOf[h] # t
          /\ \A h \in Goroutines \ {g} : call[h].at = "inC" => call[h].thread # t}

\* The pointers among the arguments of a call.
Pointers(c) == {c.ptr[f] : f \in DOMAIN c.ptr}

\* Transform, CString and CBytes.  A field that is not written holds whatever
\* malloc found there.  A panic behind the allocations runs the deferred frees.
Prepare(g, c) ==
  /\ call[g].at = "done"
  /\ c.args.panics \in {"no", "after"}
  /\ \E p \in [c.args.parts -> Unused], u \in [c.args.unset -> Addrs \cup {NULL}] :
       /\ \A f, h \in c.args.parts : f # h => p[f] # p[h]
       /\ Malloc(g, {p[f] : f \in c.args.parts})
       /\ call' = [call EXCEPT ![g] =
            [at |-> IF c.args.panics = "no" THEN "ready" ELSE "release",
             builds |-> c.builds, reports |-> c.reports, eager |-> c.eager,
             unset |-> c.args.unset,
             ptr |-> [f \in c.args.parts \cup c.args.unset |->
                        IF f \in c.args.parts THEN p[f] ELSE u[f]],
             thread |-> NULL, id |-> 0, err |-> 0, said |-> Nil]]
  /\ UNCHANGED <<ptrs, lost, wrong, errno, strayed>>

\* Transform panics on a table type it does not know and has allocated nothing,
\* or on too many fields and has not returned the destructor of its struct.
PreparePanics(g, c) ==
  /\ call[g].at = "done"
  /\ \/ c.args.panics = "before" /\ UNCHANGED <<owner, lost>>
     \/ /\ c.args.panics = "between"
        /\ \E a \in Unused : Malloc(g, {a}) /\ Lose(a)
  /\ UNCHANGED <<ptrs, wrong, callVars>>

\* Mutant: the destructor is called and not deferred.
EnterCReleased(g) ==
  /\ call[g].at = "ready"
  /\ \E t \in MayRunOn(g) : call' = [call EXCEPT ![g].at = "inC", ![g].thread = t]
  /\ Free(g, Pointers(call[g]))
  /\ UNCHANGED <<ptrs, lost, errno, strayed>>

EnterC(g) ==
  /\ call[g].at = "ready"
  /\ \E t \in MayRunOn(g) : call' = [call EXCEPT ![g].at = "inC", ![g].thread = t]
  /\ UNCHANGED <<memVars, errno, strayed>>

\* The C function succeeds (e = 0) and may have written an id, or it fails.
\* DPDK sets rte_errno when it fails and never clears it.
LeaveC(g, e, id) ==
  LET asks == e # 0 /\ call[g].reports = "errno"
  IN /\ call[g].at = "inC"
     /\ call' = [call EXCEPT ![g].at = IF asks /\ ~call[g].eager THEN "ask" ELSE "release",
                             ![g].thread = NULL, ![g].err = e, ![g].id = id,
                             ![g].said = Reported(call[g].reports, e)]
     /\ errno' = IF asks THEN [errno EXCEPT ![call[g].thread] = e] ELSE errno
     /\ UNCHANGED <<memVars, strayed>>

Asks(c) == c.err # 0 /\ c.reports = "errno" /\ c.eager

\* The caller was told what happened: by the error of the number the C function
\* gave, or, of a function that has only nil or false to give, that it failed.
Told(c) ==
  /\ c.reports \in {"rc", "errno"} => c.said = Errno(c.err)
  /\ c.reports = "bare" => (c.said = Nil <=> c.err = 0)

\* The function has returned; history: was the caller told?
Done(c) == [at |-> "done", told |-> Told(c)]

\* RteErrno, on the thread the goroutine is on by now: nil if nothing has failed
\* there before.
ReadErrno(g) ==
  /\ call[g].at = "ask"
  /\ \E t \in MayRunOn(g) :
       LET c == [call[g] EXCEPT !.said = Errno(errno[t]), !.at = "release"]
       IN call' = [call EXCEPT ![g] = IF c.eager THEN Done(c) ELSE c]
  /\ UNCHANGED <<memVars, errno, strayed>>

\* Mutant: the destructor frees the struct and forgets the string.
ReleaseStruct(g) ==
  /\ call[g].at = "release"
  /\ Free(g, {call[g].ptr[f] : f \in DOMAIN call[g].ptr \ {"name"}})
  /\ strayed' = (strayed \/ \E f \in call[g].unset : call[g].ptr[f] # NULL)
  /\ call' = [call EXCEPT ![g] = IF Asks(@) THEN [@ EXCEPT !.at = "ask", !.ptr = <<>>]
                                 ELSE Done(@)]
  /\ UNCHANGED <<ptrs, lost, errno>>

\* The destructor, or the deferred free; then the function returns.
Release(g) ==
  /\ call[g].at = "release"
  /\ Free(g, Pointers(call[g]))
  /\ strayed' = (strayed \/ \E f \in call[g].unset : call[g].ptr[f] # NULL)
  /\ call' = [call EXCEPT ![g] = IF Asks(@) THEN [@ EXCEPT !.at = "ask", !.ptr = <<>>]
                                 ELSE Done(@)]
  /\ UNCHANGED <<ptrs, lost, errno>>

(***************************************************************************)
(* Properties                                                              *)
(***************************************************************************)
\* While a C function runs (EnterC to LeaveC), every pointer in its arguments
\* is NULL or a live block of its own call, whatever other goroutines free.
\* The one exception is file_name of a Source or Sink without a file name
\* (port/source_sink.go:54), which no one has written, and what follows from it.
CReadsLive ==
  \A g \in Goroutines :
    call[g].at = "inC" /\ call[g].unset = {} /\ ~strayed =>
      \A a \in Pointers(call[g]) : a # NULL => owner[a] = g

\* No destructor, deferred free or Flush of a session passes to free an address
\* its goroutine does not own, except the unwritten file_name.
FreesOwned == wrong => strayed

\* Every live block is an argument of a call in progress or is remembered by a
\* session; forgotten are only the struct of an ACL table with too many fields
\* (table/acl.go:52) and a block whose Realloc failed (common/allocator.go:64).
NothingLeaks ==
  ~strayed =>
    \A a \in Addrs \ lost : \A g \in Goroutines :
      owner[a] = g <=>
        \/ a \in ptrs[g]
        \/ call[g].at # "done" /\ \E f \in DOMAIN call[g].ptr \ call[g].unset : call[g].ptr[f] = a

\* A goroutine that is locked to its thread is told of its own failure: RteErrno
\* reads the thread the call ran on, so the error returned is made of the number
\* this call failed with, not of an older one or of another goroutine's.
\* Functions that return only a nil handle or a bool give no number, and
\* RegisterTelemetryLSC tells nothing.
LockedTold ==
  \A g \in Locked : call[g].at = "done" => call[g].told

\* The same for every goroutine, as mempool.Lookup promises ("Returns mempool or
\* ENOENT error.", mempool/mempool.go:302): a failure is told, with its number.
FailureTold ==
  \A g \in Goroutines : call[g].at = "done" => call[g].told

\* An error of the standard numbers can be compared with syscall.Errno, as the
\* tests do ("assert(mp == nil && err == syscall.EINVAL, err)",
\* mempool/mempool_test.go:71) and LinkMetrics.Collect does for ENOTSUP
\* (app/dpdk-exporter/metrics.go:230).
ErrnoComparable ==
  \A g \in Goroutines :
    /\ call[g].at = "release" /\ ~Asks(call[g])
    /\ call[g].reports \in {"rc", "errno"}
    /\ call[g].err \in Errnos \ RteErrnos
    => call[g].said = [is |-> "syscall.Errno", n |-> call[g].err]
=============================================================================
