------------------------- MODULE PipelineBuildProofs -------------------------
(***************************************************************************)
(* Proofs about CMemory, CCalls and PipelineBuild, for any number of       *)
(* goroutines, OS threads, addresses and error numbers.                    *)
(*                                                                         *)
(* That free is only given what its caller owns is not inductive: it rests *)
(* on where every live block is remembered.  OwnInv ties the blocks of the *)
(* heap to the arguments of calls and to the sessions in both directions,  *)
(* TellInv follows the number of a failure from the C function through     *)
(* rte_errno of a locked thread to the caller.  ViewInv ties what the      *)
(* owner of a pipeline knows to the pipeline, in the middle of a call too. *)
(***************************************************************************)
EXTENDS PipelineBuild, WellFoundedInduction, FiniteSetTheorems, TLAPS

-----------------------------------------------------------------------------
(* The calls. *)

Panics == {"no", "before", "between", "after"}
ArgSet == {a \in [parts : SUBSET Fields, unset : SUBSET Fields, panics : Panics] :
             a.parts \cap a.unset = {}}
Reports == {"rc", "errno", "bare", "nothing"}
CallSet == [builds : {"pipeline", "in", "out", "table", "other"}, reports : Reports,
            eager : BOOLEAN, args : ArgSet]

(* Args describes arguments of which no field is both written and not. *)
LEMMA ArgsShape ==
  ASSUME NEW S \in SUBSET Fields, NEW U \in SUBSET Fields, S \cap U = {}, NEW p \in Panics
  PROVE  Args(S, U, p) \in ArgSet
BY DEF Args, ArgSet

(* Via makes calls of the right shape. *)
LEMMA ViaShape ==
  ASSUME NEW b \in {"pipeline", "in", "out", "table", "other"}, NEW r \in Reports,
         NEW e \in BOOLEAN, NEW A \in SUBSET ArgSet
  PROVE  Via(b, r, e, A) \subseteq CallSet
BY DEF Via, CallSet

(* The arguments of the calls of the bindings. *)
LEMMA ParamsShape ==
  /\ TransformPOD \in ArgSet /\ StubParams \in ArgSet /\ PipelineParams \in ArgSet
  /\ \A b \in BOOLEAN : Source(b) \in ArgSet /\ Sink(b) \in ArgSet
  /\ \A p \in {"no", "after"} : Name(p) \in ArgSet
  /\ LPMParams \subseteq ArgSet /\ HashParams \subseteq ArgSet /\ ACLParams \subseteq ArgSet
  /\ RssKeys \subseteq ArgSet
  /\ Args({}, {}, "no") \in ArgSet /\ Args({"name", "array"}, {}, "no") \in ArgSet
<1> USE ArgsShape DEF Fields, Panics
<1>1. TransformPOD \in ArgSet /\ StubParams \in ArgSet /\ PipelineParams \in ArgSet
  BY DEF TransformPOD, StubParams, PipelineParams
<1>2. \A b \in BOOLEAN : Source(b) \in ArgSet /\ Sink(b) \in ArgSet
  BY DEF Source, Sink
<1>3. \A p \in {"no", "after"} : Name(p) \in ArgSet
  BY DEF Name
<1>4. LPMParams \subseteq ArgSet /\ HashParams \subseteq ArgSet /\ ACLParams \subseteq ArgSet
  BY DEF LPMParams, HashParams, ACLParams, tformTo4, tformTo6, tformToOrdinary, tformToCuckoo
<1>5. RssKeys \subseteq ArgSet
  BY DEF RssKeys
<1>6. Args({}, {}, "no") \in ArgSet /\ Args({"name", "array"}, {}, "no") \in ArgSet
  OBVIOUS
<1>7. QED
  BY <1>1, <1>2, <1>3, <1>4, <1>5, <1>6

(* Every call of the library has the shape the invariant speaks of. *)
LEMMA CallsShape == BuildCalls \cup OtherCalls \subseteq CallSet
<1> USE DEF Reports
<1>1. InParams \subseteq ArgSet /\ OutParams \subseteq ArgSet /\ TableParams \subseteq ArgSet
  BY ParamsShape DEF InParams, OutParams, TableParams, RingRx, RingTx, FdRx, FdTx, EthdevRx,
     EthdevTx, ArrayParams
<1>2. BuildCalls \subseteq CallSet
  <2>1. PipelineCreate \subseteq CallSet
    BY ParamsShape, ViaShape DEF PipelineCreate
  <2>2. PortInCreate \subseteq CallSet
    BY <1>1, ViaShape DEF PortInCreate
  <2>3. PortOutCreate \subseteq CallSet
    BY <1>1, ViaShape DEF PortOutCreate
  <2>4. TableCreate \subseteq CallSet
    BY <1>1, ViaShape DEF TableCreate
  <2>5. QED
    BY <2>1, <2>2, <2>3, <2>4 DEF BuildCalls
<1>3. CreateIn \subseteq CallSet /\ CreateOut \subseteq CallSet /\ TableNew \subseteq CallSet
  BY <1>1, ViaShape DEF CreateIn, CreateOut, TableNew
<1> DEFINE one == {Name("no")}
           two == {Name("no"), Name("after")}
           maybe == {Args({}, {}, "no"), Name("no")}
           pair == {Args({"name", "array"}, {}, "no")}
<1>4. /\ one \subseteq ArgSet /\ two \subseteq ArgSet /\ maybe \subseteq ArgSet
      /\ pair \subseteq ArgSet /\ (one \cup pair) \subseteq ArgSet
      /\ {Args({}, {}, "no")} \subseteq ArgSet
  BY ParamsShape
<1>5. /\ AclCreate \subseteq CallSet /\ AclFindExisting \subseteq CallSet
      /\ LpmCreate \subseteq CallSet /\ Lpm6Create \subseteq CallSet
      /\ LpmFindExisting \subseteq CallSet /\ MemzoneReserve \subseteq CallSet
      /\ MemzoneLookup \subseteq CallSet /\ RingLookup \subseteq CallSet
  BY <1>4, ViaShape DEF AclCreate, AclFindExisting, LpmCreate, Lpm6Create, LpmFindExisting,
     MemzoneReserve, MemzoneLookup, RingLookup
<1>6. /\ MempoolCreateEmpty \subseteq CallSet /\ MempoolLookup \subseteq CallSet
      /\ SetOpsByName \subseteq CallSet /\ GetPortByName \subseteq CallSet
      /\ RegisterTelemetryLSC \subseteq CallSet
  BY <1>4, ViaShape DEF MempoolCreateEmpty, MempoolLookup, SetOpsByName, GetPortByName,
     RegisterTelemetryLSC
<1>7. DevConfigure \subseteq CallSet
  BY ParamsShape, ViaShape DEF DevConfigure
<1>8. /\ RssHashUpdate \subseteq CallSet /\ PrimaryProcAlive \subseteq CallSet
      /\ CreateCache \subseteq CallSet
      /\ ealInit \subseteq CallSet /\ telemetryRegisterCmd \subseteq CallSet
  BY <1>4, ViaShape DEF RssHashUpdate, PrimaryProcAlive, CreateCache, ealInit,
     telemetryRegisterCmd
<1>9. CreateMbufPool \subseteq CallSet
  <2>1. {Name("no"), Args({"name", "array"}, {}, "no")} \subseteq ArgSet
    BY ParamsShape
  <2>2. QED
    BY <2>1, ViaShape DEF CreateMbufPool
<1>10. OtherCalls \subseteq CallSet
  BY <1>3, <1>5, <1>6, <1>7, <1>8, <1>9 DEF OtherCalls
<1>11. QED
  BY <1>2, <1>10

-----------------------------------------------------------------------------
(* The errors a function returns. *)

Errors == {Errno(n) : n \in Errnos \cup {0}} \cup {Failed}

(* Distinct numbers make distinct errors, and a function that only says     *)
(* that it failed does not return nil.                                      *)
LEMMA ErrnoFacts ==
  /\ Nil = Errno(0) /\ Nil \in Errors
  /\ \A n \in Errnos \cup {0} : Errno(n) \in Errors /\ (Errno(n) = Nil <=> n = 0)
  /\ Failed # Nil
  /\ \A r \in Reports : \A e \in Errnos \cup {0} : Reported(r, e) \in Errors
<1>1. \A n : Errno(n).n = n
  BY DEF Errno
<1>2. \A n \in Errnos \cup {0} : Errno(n) \in Errors /\ (Errno(n) = Nil <=> n = 0)
  BY <1>1 DEF Errors, Nil
<1>3. Failed.is = "bare" /\ Nil.is = "nil"
  BY DEF Failed, Nil, Errno
<1>4. \A r \in Reports : \A e \in Errnos \cup {0} : Reported(r, e) \in Errors
  BY <1>2 DEF Reported, Reports, Errors, Nil
<1>5. QED
  BY <1>2, <1>3, <1>4 DEF Nil

(* What is returned at once tells the caller, unless rte_errno is to be asked. *)
LEMMA ReportedTells ==
  ASSUME NEW c, c.reports \in Reports, c.err \in Errnos \cup {0},
         c.said = Reported(c.reports, c.err), c.reports = "errno" => c.err = 0
  PROVE  Told(c)
BY ErrnoFacts DEF Told, Reported, Reports

-----------------------------------------------------------------------------
(* The invariant. *)

Busy(g) == call[g].at # "done"

(* A call in progress, and one that has returned. *)
BusyCall(id) ==
  [at : {"ready", "inC", "ask", "release"},
   builds : {"pipeline", "in", "out", "table", "other"}, reports : Reports,
   eager : BOOLEAN, unset : SUBSET Fields,
   ptr : UNION {[D -> Addrs \cup {NULL}] : D \in SUBSET Fields},
   thread : Threads \cup {NULL}, id : {id},
   err : Errnos \cup {0}, said : Errors]
DoneCall == [at : {"done"}, told : BOOLEAN]

(* What every variable of the heap and of the calls holds. *)
LibTypeOK ==
  /\ owner \in [Addrs -> Goroutines \cup {Nobody}]
  /\ ptrs \in [Goroutines -> SUBSET (Addrs \cup {NULL})]
  /\ lost \in SUBSET Addrs
  /\ wrong \in BOOLEAN
  /\ strayed \in BOOLEAN
  /\ errno \in [Threads -> Errnos \cup {0}]
  /\ call = [g \in Goroutines |-> call[g]]
  /\ \A g \in Goroutines : call[g] \in DoneCall \/ call[g] \in BusyCall(call[g].id)
  /\ \A g \in Goroutines : call[g].at = "inC" => call[g].thread \in Threads
  /\ \A g \in Goroutines : call[g].at = "ask" /\ call[g].eager => DOMAIN call[g].ptr = {}
  /\ \A g \in Goroutines : call[g].at = "ask" => call[g].reports = "errno"

(* The pointers of a call that it has allocated itself. *)
Written(g) == {call[g].ptr[f] : f \in DOMAIN call[g].ptr \ call[g].unset}
Remembered(g) == ptrs[g] \ {NULL}

(* A goroutine owns exactly what its call and its session remember, neither *)
(* twice, and a lost block is never given out again.                        *)
OwnInv ==
  /\ \A g \in Goroutines : Busy(g) =>
       /\ Written(g) \subseteq Addrs \ lost
       /\ Written(g) \cap Remembered(g) = {}
       /\ \A a \in Written(g) : owner[a] = g
  /\ \A g \in Goroutines :
       /\ Remembered(g) \subseteq Addrs \ lost
       /\ \A a \in Remembered(g) : owner[a] = g
  /\ \A g \in Goroutines : \A a \in Addrs \ lost : owner[a] = g =>
       a \in Remembered(g) \/ (Busy(g) /\ a \in Written(g))
  /\ \A a \in lost : owner[a] # Nobody

(* The thread a goroutine is in C on is its own if it is locked to one, and *)
(* no one else's home otherwise.  From the failure on, the number is in     *)
(* rte_errno of the locked thread or already with the caller.               *)
TellInv ==
  \A g \in Goroutines :
    /\ call[g].at = "inC" =>
         IF g \in Locked THEN call[g].thread = HomeOf[g]
         ELSE \A h \in Locked : HomeOf[h] # call[g].thread
    /\ g \in Locked =>
         /\ call[g].at = "done" => call[g].told
         /\ call[g].at = "ask" => errno[HomeOf[g]] = call[g].err
         /\ call[g].at = "release" =>
              IF Asks(call[g]) THEN errno[HomeOf[g]] = call[g].err
              ELSE Told(call[g])

LibInv == LibTypeOK /\ TellInv /\ (wrong => strayed) /\ (~strayed => OwnInv)

(* At first nobody is in a call and nothing is allocated. *)
LEMMA LibInitInv == Init => LibInv
<1> SUFFICES ASSUME Init PROVE LibInv
  OBVIOUS
<1> USE NullAssumption, LockedAssumption DEF Init, MemInit, CallInit
<1>1. LibTypeOK
  BY DEF LibTypeOK, DoneCall
<1>2. TellInv
  BY DEF TellInv
<1>3. OwnInv
  BY DEF OwnInv, Busy, Remembered
<1>4. QED
  BY <1>1, <1>2, <1>3 DEF LibInv

-----------------------------------------------------------------------------
(* What a step of goroutine g does to the calls: those of the others stay. *)

OnlyCall(g) ==
  /\ call' = [h \in Goroutines |-> call'[h]]
  /\ \A h \in Goroutines \ {g} : call'[h] = call[h]

(* EXCEPT on the call of one goroutine. *)
LEMMA CallExcept ==
  ASSUME LibTypeOK, NEW g \in Goroutines, NEW c, call' = [call EXCEPT ![g] = c]
  PROVE  OnlyCall(g) /\ call'[g] = c
BY DEF LibTypeOK, OnlyCall

(* Entering C changes two fields of the call. *)
LEMMA EnterCEffect ==
  ASSUME LibTypeOK, NEW g \in Goroutines, EnterC(g)
  PROVE  /\ OnlyCall(g)
         /\ call[g] \in BusyCall(call[g].id) /\ call[g].at = "ready"
         /\ \E t \in MayRunOn(g) : call'[g] = [call[g] EXCEPT !.at = "inC", !.thread = t]
<1>1. PICK t \in MayRunOn(g) : call' = [call EXCEPT ![g].at = "inC", ![g].thread = t]
  BY DEF EnterC
<1>2. call[g].at = "ready" /\ call[g] \in BusyCall(call[g].id)
  BY DEF EnterC, LibTypeOK, DoneCall
<1>3. QED
  BY <1>1, <1>2 DEF OnlyCall, LibTypeOK

(* A locked goroutine runs on its own thread and nobody else does. *)
LEMMA RunsOnThreads ==
  ASSUME NEW g \in Goroutines
  PROVE  /\ MayRunOn(g) \subseteq Threads
         /\ \A t \in MayRunOn(g) :
              IF g \in Locked THEN t = HomeOf[g] ELSE \A h \in Locked : HomeOf[h] # t
BY LockedAssumption DEF MayRunOn

(* Entering C keeps the invariant. *)
LEMMA EnterCInv ==
  ASSUME LibInv, NEW g \in Goroutines, EnterC(g)
  PROVE  LibInv'
<1> USE DEF LibInv
<1>1. PICK t \in MayRunOn(g) : call'[g] = [call[g] EXCEPT !.at = "inC", !.thread = t]
  BY EnterCEffect
<1>2. OnlyCall(g) /\ call[g] \in BusyCall(call[g].id) /\ call[g].at = "ready"
  BY EnterCEffect
<1>3. UNCHANGED <<owner, ptrs, lost, wrong, errno, strayed>>
  BY DEF EnterC, memVars
<1>4. t \in Threads
  BY RunsOnThreads
<1>5. /\ call'[g] \in BusyCall(call'[g].id) /\ call'[g].at = "inC" /\ call'[g].thread = t
      /\ call'[g].ptr = call[g].ptr /\ call'[g].unset = call[g].unset
  BY <1>1, <1>2, <1>4 DEF BusyCall
<1>6. LibTypeOK'
  BY <1>2, <1>3, <1>4, <1>5 DEF LibTypeOK, OnlyCall
<1>7. TellInv'
  BY <1>2, <1>3, <1>5, RunsOnThreads, LockedAssumption DEF TellInv, OnlyCall
<1>8. \A h \in Goroutines : (Busy(h)' <=> Busy(h)) /\ Written(h)' = Written(h)
  BY <1>2, <1>5 DEF Busy, Written, OnlyCall
<1>9. OwnInv => OwnInv'
  BY <1>3, <1>8 DEF OwnInv, Remembered
<1>10. QED
  BY <1>3, <1>6, <1>7, <1>9

(* Returning from C with an error number sets rte_errno of the thread the *)
(* call runs on only.                                                     *)
LEMMA LeaveCInv ==
  ASSUME LibInv, NEW g \in Goroutines, NEW e \in Errnos \cup {0}, NEW id, LeaveC(g, e, id)
  PROVE  LibInv'
<1> USE DEF LibInv
<1> DEFINE asks == e # 0 /\ call[g].reports = "errno"
           at == IF asks /\ ~call[g].eager THEN "ask" ELSE "release"
           said == Reported(call[g].reports, e)
<1>1. call[g] \in BusyCall(call[g].id) /\ call[g].at = "inC" /\ call[g].thread \in Threads
  BY DEF LeaveC, LibTypeOK, DoneCall
<1>2. /\ OnlyCall(g)
      /\ call'[g] = [call[g] EXCEPT !.at = at, !.thread = NULL, !.err = e, !.id = id,
                                    !.said = said]
  BY <1>1 DEF LeaveC, OnlyCall, LibTypeOK
<1>3. /\ UNCHANGED <<owner, ptrs, lost, wrong, strayed>>
      /\ errno' = IF asks THEN [errno EXCEPT ![call[g].thread] = e] ELSE errno
  BY DEF LeaveC, memVars
<1>4. /\ call'[g].at = at /\ call'[g].err = e /\ call'[g].said = said
      /\ call'[g].id = id
      /\ call'[g].ptr = call[g].ptr /\ call'[g].unset = call[g].unset
      /\ call'[g].reports = call[g].reports /\ call'[g].eager = call[g].eager
  BY <1>1, <1>2 DEF BusyCall
<1>5. at \in {"ready", "inC", "ask", "release"} /\ said \in Errors
  BY <1>1, ErrnoFacts DEF BusyCall
<1> HIDE DEF said
<1>6. call'[g] \in BusyCall(call'[g].id)
  BY <1>1, <1>2, <1>4, <1>5 DEF BusyCall
<1>7. LibTypeOK'
  <2>1. errno' \in [Threads -> Errnos \cup {0}]
    BY <1>1, <1>3 DEF LibTypeOK
  <2>2. /\ call'[g].at # "inC" /\ (call'[g].at = "ask" => ~call'[g].eager)
        /\ call'[g].at = "ask" => call'[g].reports = "errno"
    BY <1>4
  <2>3. QED
    BY <1>2, <1>3, <1>6, <2>1, <2>2 DEF LibTypeOK, OnlyCall
<1>8. TellInv'
  <2>1. ASSUME NEW h \in Goroutines, h # g, h \in Locked
        PROVE  errno'[HomeOf[h]] = errno[HomeOf[h]]
    <3>1. call[g].thread # HomeOf[h]
      BY <1>1, <2>1, LockedAssumption DEF TellInv
    <3>2. QED
      BY <1>3, <3>1, <2>1, <1>1, LockedAssumption DEF LibTypeOK
  <2>2. g \in Locked => (asks => errno'[HomeOf[g]] = e)
    BY <1>1, <1>3, LockedAssumption DEF TellInv, LibTypeOK
  <2>3. Asks(call'[g]) <=> asks /\ call[g].eager
    BY <1>1, <1>4 DEF Asks, BusyCall
  <2>4. ASSUME NEW h \in Goroutines, h # g
        PROVE  /\ call'[h].at = "inC" =>
                    IF h \in Locked THEN call'[h].thread = HomeOf[h]
                    ELSE \A k \in Locked : HomeOf[k] # call'[h].thread
               /\ h \in Locked =>
                    /\ call'[h].at = "done" => call'[h].told
                    /\ call'[h].at = "ask" => errno'[HomeOf[h]] = call'[h].err
                    /\ call'[h].at = "release" =>
                         IF Asks(call'[h]) THEN errno'[HomeOf[h]] = call'[h].err
                         ELSE Told(call'[h])
    BY <1>2, <2>1, <2>4 DEF TellInv, OnlyCall
  <2>5. call'[g].at \in {"ask", "release"}
    BY <1>4
  <2>6. g \in Locked =>
          /\ call'[g].at = "ask" => errno'[HomeOf[g]] = call'[g].err
          /\ call'[g].at = "release" =>
               IF Asks(call'[g]) THEN errno'[HomeOf[g]] = call'[g].err
               ELSE Told(call'[g])
    <3>1. ~asks => Told(call'[g])
      <4>1. call[g].reports \in Reports
        BY <1>1 DEF BusyCall
      <4>2. QED
        BY <1>4, <4>1, ReportedTells DEF said
    <3>2. QED
      BY <1>4, <2>2, <2>3, <3>1
  <2>7. QED
    BY <2>4, <2>5, <2>6 DEF TellInv
<1>9. \A h \in Goroutines : (Busy(h)' <=> Busy(h)) /\ Written(h)' = Written(h)
  <2>1. Busy(g)' /\ Busy(g) /\ Written(g)' = Written(g)
    BY <1>1, <1>4 DEF Busy, Written
  <2>2. \A h \in Goroutines \ {g} : (Busy(h)' <=> Busy(h)) /\ Written(h)' = Written(h)
    BY <1>2 DEF Busy, Written, OnlyCall
  <2>3. QED
    BY <2>1, <2>2
<1>10. OwnInv => OwnInv'
  BY <1>3, <1>9 DEF OwnInv, Remembered
<1>11. QED
  BY <1>3, <1>7, <1>8, <1>10

(* RteErrno tells a locked goroutine its own number. *)
LEMMA ReadErrnoInv ==
  ASSUME LibInv, NEW g \in Goroutines, ReadErrno(g)
  PROVE  LibInv'
<1> USE DEF LibInv
<1>1. call[g] \in BusyCall(call[g].id) /\ call[g].at = "ask"
  BY DEF ReadErrno, LibTypeOK, DoneCall
<1>2. UNCHANGED <<owner, ptrs, lost, wrong, errno, strayed>>
  BY DEF ReadErrno, memVars
<1>3. PICK t \in MayRunOn(g) :
        call' = [call EXCEPT ![g] =
          LET c == [call[g] EXCEPT !.said = Errno(errno[t]), !.at = "release"]
          IN IF c.eager THEN Done(c) ELSE c]
  BY DEF ReadErrno
<1> DEFINE c == [call[g] EXCEPT !.said = Errno(errno[t]), !.at = "release"]
<1>4. OnlyCall(g) /\ call'[g] = IF c.eager THEN Done(c) ELSE c
  BY <1>3, CallExcept
<1>5. t \in Threads /\ errno[t] \in Errnos \cup {0}
  BY RunsOnThreads DEF LibTypeOK
<1>6. /\ c \in BusyCall(c.id) /\ c.at = "release" /\ c.said = Errno(errno[t])
      /\ c.err = call[g].err /\ c.reports = call[g].reports
      /\ c.eager = call[g].eager /\ c.ptr = call[g].ptr /\ c.unset = call[g].unset
  BY <1>1, <1>5, ErrnoFacts DEF BusyCall
<1>7. g \in Locked => Told(c)
  BY <1>1, <1>6, RunsOnThreads DEF TellInv, LibTypeOK, Told
<1> HIDE DEF c
<1>8. CASE c.eager
  <2>1. call'[g] \in DoneCall /\ call'[g].at = "done" /\ (g \in Locked => call'[g].told)
    <3>1. call'[g] = Done(c)
      BY <1>4, <1>8
    <3>2. Done(c).told = Told(c) /\ Done(c).at = "done" /\ Done(c) \in DoneCall
      BY DEF Done, DoneCall, Told
    <3>3. QED
      BY <1>7, <3>1, <3>2
  <2>2. LibTypeOK'
    BY <1>2, <1>4, <2>1 DEF LibTypeOK, OnlyCall
  <2>3. TellInv'
    BY <1>2, <1>4, <2>1 DEF TellInv, OnlyCall
  <2>4. Busy(g) /\ Written(g) = {} /\ ~Busy(g)'
    BY <1>1, <1>6, <1>8, <2>1 DEF LibTypeOK, Busy, Written
  <2>5. \A h \in Goroutines \ {g} : (Busy(h)' <=> Busy(h)) /\ Written(h)' = Written(h)
    BY <1>4 DEF Busy, Written, OnlyCall
  <2>6. OwnInv => OwnInv'
    BY <1>2, <2>4, <2>5 DEF OwnInv, Remembered
  <2>7. QED
    BY <1>2, <2>2, <2>3, <2>6
<1>9. CASE ~c.eager
  <2>1. call'[g] = c
    BY <1>4, <1>9
  <2>2. LibTypeOK'
    BY <1>2, <1>4, <1>6, <2>1 DEF LibTypeOK, OnlyCall
  <2>3. TellInv'
    BY <1>2, <1>4, <1>6, <1>7, <1>9, <2>1 DEF TellInv, OnlyCall, Asks
  <2>4. \A h \in Goroutines : (Busy(h)' <=> Busy(h)) /\ Written(h)' = Written(h)
    <3>1. Busy(g)' /\ Busy(g) /\ Written(g)' = Written(g)
      BY <1>1, <1>6, <2>1 DEF Busy, Written
    <3>2. \A h \in Goroutines \ {g} : (Busy(h)' <=> Busy(h)) /\ Written(h)' = Written(h)
      BY <1>4 DEF Busy, Written, OnlyCall
    <3>3. QED
      BY <3>1, <3>2
  <2>5. OwnInv => OwnInv'
    BY <1>2, <2>4 DEF OwnInv, Remembered
  <2>6. QED
    BY <1>2, <2>2, <2>3, <2>5
<1>10. QED
  BY <1>8, <1>9

(* The deferred free gives back what the call has written, unless a pointer *)
(* that no one wrote is among the arguments.                                *)
LEMMA ReleaseInv ==
  ASSUME LibInv, ~strayed, NEW g \in Goroutines, Release(g)
  PROVE  LibInv'
<1> USE NullAssumption DEF LibInv
<1> DEFINE P == Pointers(call[g])
           c == IF Asks(call[g]) THEN [call[g] EXCEPT !.at = "ask", !.ptr = <<>>]
                ELSE Done(call[g])
<1>1. call[g] \in BusyCall(call[g].id) /\ call[g].at = "release"
  BY DEF Release, LibTypeOK, DoneCall
<1>2. OnlyCall(g) /\ call'[g] = c
  BY CallExcept DEF Release
<1>3. /\ UNCHANGED <<ptrs, lost, errno>>
      /\ owner' = [a \in Addrs |-> IF a \in P THEN Nobody ELSE owner[a]]
      /\ wrong' = (wrong \/ \E a \in P \ {NULL} : owner[a] # g)
      /\ strayed' = (strayed \/ \E f \in call[g].unset : call[g].ptr[f] # NULL)
  BY DEF Release, Free
<1>4. \/ c \in DoneCall /\ c.at = "done" /\ c.told = Told(call[g])
         /\ ~Asks(call[g])
      \/ /\ c \in BusyCall(c.id) /\ c.at = "ask" /\ DOMAIN c.ptr = {} /\ c.err = call[g].err
         /\ c.reports = "errno" /\ Asks(call[g])
  <2>1. CASE Asks(call[g])
    <3>1. << >> \in UNION {[D -> Addrs \cup {NULL}] : D \in SUBSET Fields}
      <4>1. << >> \in [{} -> Addrs \cup {NULL}]
        OBVIOUS
      <4>2. QED
        BY <4>1
    <3>2. c = [call[g] EXCEPT !.at = "ask", !.ptr = <<>>]
      BY <2>1
    <3>3. c \in BusyCall(c.id) /\ c.at = "ask" /\ c.ptr = <<>> /\ c.err = call[g].err
          /\ c.reports = "errno"
      BY <1>1, <2>1, <3>1, <3>2 DEF BusyCall, Asks
    <3>4. QED
      BY <2>1, <3>3
  <2>2. CASE ~Asks(call[g])
    BY <2>2 DEF Done, DoneCall, Told
  <2>3. QED
    BY <2>1, <2>2
<1>5. LibTypeOK'
  <2>1. owner' \in [Addrs -> Goroutines \cup {Nobody}]
    BY <1>3 DEF LibTypeOK
  <2>2. wrong' \in BOOLEAN /\ strayed' \in BOOLEAN
    BY <1>3 DEF LibTypeOK
  <2> HIDE DEF c
  <2>3. /\ call'[g] \in DoneCall \/ call'[g] \in BusyCall(call'[g].id)
        /\ call'[g].at # "inC"
        /\ call'[g].at = "ask" => DOMAIN call'[g].ptr = {} /\ call'[g].reports = "errno"
    BY <1>2, <1>4
  <2>4. QED
    BY <1>2, <1>3, <2>1, <2>2, <2>3 DEF LibTypeOK, OnlyCall
<1>6. TellInv'
  <2> HIDE DEF c
  <2>1. call'[g].at \in {"done", "ask"}
    BY <1>2, <1>4
  <2>2. g \in Locked =>
          /\ call'[g].at = "done" => call'[g].told
          /\ call'[g].at = "ask" => errno'[HomeOf[g]] = call'[g].err
    BY <1>1, <1>2, <1>3, <1>4 DEF TellInv
  <2>3. QED
    BY <1>2, <1>3, <2>1, <2>2 DEF TellInv, OnlyCall
<1>7. ASSUME ~strayed' PROVE ~wrong' /\ OwnInv'
  <2>1. P \ {NULL} \subseteq Written(g) /\ Written(g) \subseteq P
    BY <1>3, <1>7 DEF Pointers, Written
  <2>2. ~wrong'
    BY <1>1, <1>3, <2>1 DEF OwnInv, Busy
  <2>3. Written(g) \subseteq Addrs
    BY <1>1 DEF OwnInv, Busy
  <2>4. \A a \in Addrs : owner'[a] = IF a \in Written(g) THEN Nobody ELSE owner[a]
    BY <1>3, <2>1
  <2>5. \A h \in Goroutines \ {g} : (Busy(h)' <=> Busy(h)) /\ Written(h)' = Written(h)
    BY <1>2 DEF Busy, Written, OnlyCall
  <2>6. ~Busy(g)' \/ Written(g)' = {}
    BY <1>2, <1>4 DEF Busy, Written
  <2>7. \A h \in Goroutines \ {g} :
          /\ Busy(h) => Written(h) \cap Written(g) = {}
          /\ Remembered(h) \cap Written(g) = {}
    BY <1>1 DEF OwnInv, Busy
  <2>8. \A h \in Goroutines : Remembered(h)' = Remembered(h)
    BY <1>3 DEF Remembered
  <2>9. OwnInv'
    <3> USE DEF OwnInv
    <3>1. \A h \in Goroutines : Busy(h)' =>
            /\ Written(h)' \subseteq Addrs \ lost'
            /\ Written(h)' \cap Remembered(h)' = {}
            /\ \A a \in Written(h)' : owner'[a] = h
      BY <1>3, <2>4, <2>5, <2>6, <2>7, <2>8
    <3>2. \A h \in Goroutines :
            /\ Remembered(h)' \subseteq Addrs \ lost'
            /\ \A a \in Remembered(h)' : owner'[a] = h
      BY <1>1, <1>3, <2>4, <2>7, <2>8 DEF Busy
    <3>3. \A h \in Goroutines : \A a \in Addrs \ lost' : owner'[a] = h =>
            a \in Remembered(h)' \/ (Busy(h)' /\ a \in Written(h)')
      BY <1>3, <2>4, <2>5, <2>8
    <3>4. \A a \in lost' : owner'[a] # Nobody
      BY <1>1, <1>3, <2>4 DEF Busy, LibTypeOK
    <3>5. QED
      BY <3>1, <3>2, <3>3, <3>4
  <2>10. QED
    BY <2>2, <2>9
<1>8. QED
  BY <1>5, <1>6, <1>7

(* What is allocated belonged to no one, so to no call and no session. *)
LEMMA UnusedIsFree ==
  ASSUME LibTypeOK, OwnInv, NEW a \in Unused
  PROVE  /\ a \in Addrs \ lost
         /\ \A g \in Goroutines : a \notin Remembered(g) /\ (Busy(g) => a \notin Written(g))
BY NullAssumption DEF Unused, OwnInv

(* The allocations of Transform and CString belong to the caller. *)
LEMMA PrepareInv ==
  ASSUME LibInv, ~strayed, NEW g \in Goroutines, NEW c \in CallSet, Prepare(g, c)
  PROVE  LibInv'
<1> USE NullAssumption DEF LibInv
<1> DEFINE S == c.args.parts
           U == c.args.unset
<1>1. S \in SUBSET Fields /\ U \in SUBSET Fields /\ S \cap U = {}
  BY DEF CallSet, ArgSet
<1>2. PICK p \in [S -> Unused], u \in [U -> Addrs \cup {NULL}] :
        /\ Malloc(g, {p[f] : f \in S})
        /\ call' = [call EXCEPT ![g] =
            [at |-> IF c.args.panics = "no" THEN "ready" ELSE "release",
             builds |-> c.builds, reports |-> c.reports, eager |-> c.eager,
             unset |-> c.args.unset,
             ptr |-> [f \in c.args.parts \cup c.args.unset |->
                        IF f \in c.args.parts THEN p[f] ELSE u[f]],
             thread |-> NULL, id |-> 0, err |-> 0, said |-> Nil]]
  BY DEF Prepare
<1> DEFINE at == IF c.args.panics = "no" THEN "ready" ELSE "release"
           ptr == [f \in S \cup U |-> IF f \in S THEN p[f] ELSE u[f]]
           new == [at |-> at, builds |-> c.builds, reports |-> c.reports, eager |-> c.eager,
                   unset |-> U, ptr |-> ptr, thread |-> NULL, id |-> 0, err |-> 0, said |-> Nil]
           N == {p[f] : f \in S}
<1>3. OnlyCall(g) /\ call'[g] = new
  BY <1>2, CallExcept
<1>4. /\ UNCHANGED <<ptrs, lost, wrong, errno, strayed>>
      /\ call[g].at = "done"
      /\ owner' = [a \in Addrs |-> IF a \in N THEN g ELSE owner[a]]
  BY <1>2 DEF Prepare, Malloc
<1>5. ptr \in UNION {[D -> Addrs \cup {NULL}] : D \in SUBSET Fields}
  <2>1. ptr \in [S \cup U -> Addrs \cup {NULL}]
    BY DEF Unused
  <2>2. S \cup U \in SUBSET Fields
    BY <1>1
  <2>3. QED
    BY <2>1, <2>2
<1>6. /\ new.at \in {"ready", "release"} /\ new.err = 0 /\ new.said = Nil /\ new.ptr = ptr
      /\ new.unset = U /\ new.id = 0
  OBVIOUS
<1>7. new \in BusyCall(new.id)
  <2>1. at \in {"ready", "inC", "ask", "release"}
    OBVIOUS
  <2>2. /\ c.builds \in {"pipeline", "in", "out", "table", "other"}
        /\ c.reports \in Reports /\ c.eager \in BOOLEAN
    BY DEF CallSet
  <2> HIDE DEF at, ptr, S, U
  <2>3. QED
    BY <1>1, <1>5, <2>1, <2>2, ErrnoFacts DEF BusyCall
<1>8. N \subseteq Unused
  OBVIOUS
<1>9. DOMAIN ptr \ U = S /\ \A f \in S : ptr[f] = p[f]
  BY <1>1
<1> HIDE DEF new, ptr, S, U
<1>10. LibTypeOK'
  <2>1. owner' \in [Addrs -> Goroutines \cup {Nobody}]
    BY <1>4 DEF LibTypeOK
  <2>2. QED
    BY <1>3, <1>4, <1>6, <1>7, <2>1 DEF LibTypeOK, OnlyCall
<1>11. TellInv'
  BY <1>3, <1>4, <1>6, ErrnoFacts DEF TellInv, OnlyCall, Asks, Told
<1>12. Written(g)' = N /\ Busy(g)' /\ ~Busy(g)
  BY <1>3, <1>4, <1>6, <1>9 DEF Written, Busy
<1>13. \A h \in Goroutines \ {g} : (Busy(h)' <=> Busy(h)) /\ Written(h)' = Written(h)
  BY <1>3 DEF Busy, Written, OnlyCall
<1>14. \A h \in Goroutines : Remembered(h)' = Remembered(h)
  BY <1>4 DEF Remembered
<1>15. OwnInv'
  <2> HIDE DEF N
  <2>1. N \subseteq Addrs \ lost /\ \A h \in Goroutines : N \cap Remembered(h) = {}
        /\ (Busy(h) => N \cap Written(h) = {})
    BY <1>8, UnusedIsFree
  <2>2. \A h \in Goroutines : Busy(h)' =>
          /\ Written(h)' \subseteq Addrs \ lost'
          /\ Written(h)' \cap Remembered(h)' = {}
          /\ \A a \in Written(h)' : owner'[a] = h
    <3>1. ASSUME NEW h \in Goroutines \ {g}, Busy(h)
          PROVE  \A a \in Written(h) : owner'[a] = h
      BY <1>4, <2>1, <3>1 DEF OwnInv
    <3>2. \A a \in N : owner'[a] = g
      BY <1>4, <2>1
    <3>3. QED
      BY <1>4, <1>12, <1>13, <1>14, <2>1, <3>1, <3>2 DEF OwnInv
  <2>3. \A h \in Goroutines :
          /\ Remembered(h)' \subseteq Addrs \ lost'
          /\ \A a \in Remembered(h)' : owner'[a] = h
    BY <1>4, <1>14, <2>1 DEF OwnInv
  <2>4. \A h \in Goroutines : \A a \in Addrs \ lost' : owner'[a] = h =>
          a \in Remembered(h)' \/ (Busy(h)' /\ a \in Written(h)')
    BY <1>4, <1>12, <1>13, <1>14 DEF OwnInv
  <2>5. \A a \in lost' : owner'[a] # Nobody
    BY <1>4 DEF OwnInv, LibTypeOK
  <2>6. QED
    BY <2>2, <2>3, <2>4, <2>5 DEF OwnInv
<1>16. QED
  BY <1>4, <1>10, <1>11, <1>15

(* A step that leaves the calls and rte_errno alone keeps what is said. *)
LEMMA CallsKept ==
  ASSUME LibInv, UNCHANGED callVars,
         owner' \in [Addrs -> Goroutines \cup {Nobody}],
         ptrs' \in [Goroutines -> SUBSET (Addrs \cup {NULL})],
         lost' \in SUBSET Addrs, wrong' \in BOOLEAN
  PROVE  /\ LibTypeOK' /\ TellInv'
         /\ \A g \in Goroutines : (Busy(g)' <=> Busy(g)) /\ Written(g)' = Written(g)
<1> USE DEF LibInv, callVars
<1>1. LibTypeOK'
  BY DEF LibTypeOK
<1>2. TellInv'
  BY DEF TellInv
<1>3. QED
  BY <1>1, <1>2 DEF Busy, Written

(* A Transform that panics loses the struct it had allocated at most. *)
LEMMA PreparePanicsInv ==
  ASSUME LibInv, ~strayed, NEW g \in Goroutines, NEW c, PreparePanics(g, c)
  PROVE  LibInv'
<1> USE NullAssumption
<1>1. UNCHANGED <<ptrs, wrong>> /\ UNCHANGED callVars
  BY DEF PreparePanics
<1>2. CASE UNCHANGED <<owner, lost>>
  <2>1. /\ LibTypeOK' /\ TellInv'
        /\ \A h \in Goroutines : (Busy(h)' <=> Busy(h)) /\ Written(h)' = Written(h)
    BY <1>1, <1>2, CallsKept DEF LibInv, LibTypeOK
  <2>2. OwnInv'
    BY <1>1, <1>2, <2>1 DEF LibInv, OwnInv, Remembered
  <2>3. QED
    BY <1>1, <2>1, <2>2 DEF LibInv, callVars
<1>3. ASSUME NEW a \in Unused, Malloc(g, {a}), Lose(a)
      PROVE  LibInv'
  <2>1. a \in Addrs \ lost /\ \A h \in Goroutines : a \notin Remembered(h)
        /\ (Busy(h) => a \notin Written(h))
    BY UnusedIsFree DEF LibInv
  <2>2. /\ lost' = lost \cup {a}
        /\ owner' = [b \in Addrs |-> IF b = a THEN g ELSE owner[b]]
    BY <1>3 DEF Malloc, Lose
  <2>3. /\ LibTypeOK' /\ TellInv'
        /\ \A h \in Goroutines : (Busy(h)' <=> Busy(h)) /\ Written(h)' = Written(h)
    BY <1>1, <2>1, <2>2, CallsKept DEF LibInv, LibTypeOK
  <2>4. \A h \in Goroutines : Remembered(h)' = Remembered(h)
    BY <1>1 DEF Remembered
  <2>5. OwnInv'
    BY <2>1, <2>2, <2>3, <2>4 DEF LibInv, OwnInv, LibTypeOK
  <2>6. QED
    BY <1>1, <2>3, <2>5 DEF LibInv, callVars
<1>4. QED
  BY <1>2, <1>3 DEF PreparePanics

-----------------------------------------------------------------------------
(* Sessions. *)

(* Malloc of a session adds a block of its goroutine. *)
LEMMA SessionMallocInv ==
  ASSUME LibInv, ~strayed, NEW g \in Goroutines, SessionMalloc(g), UNCHANGED callVars
  PROVE  LibInv'
<1> USE NullAssumption
<1>1. PICK a \in Unused :
        /\ Malloc(g, {a})
        /\ ptrs' = [ptrs EXCEPT ![g] = @ \cup {a}]
        /\ UNCHANGED <<lost, wrong>>
  BY DEF SessionMalloc
<1>2. a \in Addrs \ lost /\ \A h \in Goroutines : a \notin Remembered(h)
      /\ (Busy(h) => a \notin Written(h))
  BY UnusedIsFree DEF LibInv
<1>3. owner' = [b \in Addrs |-> IF b = a THEN g ELSE owner[b]]
  BY <1>1 DEF Malloc
<1>4. /\ LibTypeOK' /\ TellInv'
      /\ \A h \in Goroutines : (Busy(h)' <=> Busy(h)) /\ Written(h)' = Written(h)
  BY <1>1, <1>2, <1>3, CallsKept DEF LibInv, LibTypeOK
<1>5. /\ Remembered(g)' = Remembered(g) \cup {a}
      /\ \A h \in Goroutines \ {g} : Remembered(h)' = Remembered(h)
  BY <1>1, <1>2 DEF Remembered, LibInv, LibTypeOK
<1>6. OwnInv'
  BY <1>1, <1>2, <1>3, <1>4, <1>5 DEF LibInv, OwnInv, LibTypeOK
<1>7. QED
  BY <1>1, <1>4, <1>6 DEF LibInv, callVars

(* Free and Flush: a session gives back some of what it remembers. *)
LEMMA SessionGivesBack ==
  ASSUME LibInv, ~strayed, NEW g \in Goroutines, NEW S \in SUBSET ptrs[g], Free(g, S),
         ptrs' = [ptrs EXCEPT ![g] = @ \ S], UNCHANGED lost, UNCHANGED callVars
  PROVE  LibInv'
<1> USE NullAssumption
<1>1. /\ owner' = [a \in Addrs |-> IF a \in S THEN Nobody ELSE owner[a]]
      /\ wrong' = (wrong \/ \E a \in S \ {NULL} : owner[a] # g)
  BY DEF Free
<1>2. S \ {NULL} \subseteq Remembered(g)
  BY DEF Remembered
<1>3. \A a \in S \ {NULL} : owner[a] = g
  BY <1>2 DEF LibInv, OwnInv
<1>4. wrong' = wrong
  BY <1>1, <1>3 DEF LibInv, LibTypeOK
<1>5. /\ LibTypeOK' /\ TellInv'
      /\ \A h \in Goroutines : (Busy(h)' <=> Busy(h)) /\ Written(h)' = Written(h)
  BY <1>1, <1>4, CallsKept DEF LibInv, LibTypeOK
<1>6. /\ Remembered(g)' = Remembered(g) \ S
      /\ \A h \in Goroutines \ {g} : Remembered(h)' = Remembered(h)
  BY DEF Remembered, LibInv, LibTypeOK
<1>7. \A h \in Goroutines :
        /\ Busy(h) => Written(h) \cap (S \ {NULL}) = {}
        /\ h # g => Remembered(h) \cap (S \ {NULL}) = {}
  BY <1>2, <1>3 DEF LibInv, OwnInv
<1>8. \A a \in Addrs : a \in S <=> a \in S \ {NULL}
  OBVIOUS
<1>9. OwnInv'
  <2> USE DEF LibInv, OwnInv
  <2>1. \A h \in Goroutines : Busy(h)' =>
          /\ Written(h)' \subseteq Addrs \ lost'
          /\ Written(h)' \cap Remembered(h)' = {}
          /\ \A a \in Written(h)' : owner'[a] = h
    BY <1>1, <1>5, <1>6, <1>7, <1>8
  <2>2. \A h \in Goroutines :
          /\ Remembered(h)' \subseteq Addrs \ lost'
          /\ \A a \in Remembered(h)' : owner'[a] = h
    BY <1>1, <1>6, <1>7, <1>8
  <2>3. \A h \in Goroutines : \A a \in Addrs \ lost' : owner'[a] = h =>
          a \in Remembered(h)' \/ (Busy(h)' /\ a \in Written(h)')
    BY <1>1, <1>5, <1>6
  <2>4. \A a \in lost' : owner'[a] # Nobody
    BY <1>1, <1>2, <1>8 DEF LibTypeOK
  <2>5. QED
    BY <2>1, <2>2, <2>3, <2>4
<1>10. QED
  BY <1>4, <1>5, <1>9 DEF LibInv, callVars

(* Realloc of a session exchanges a block, frees it when the new size is 0, *)
(* or loses it when it fails.                                              *)
LEMMA SessionReallocInv ==
  ASSUME LibInv, ~strayed, NEW g \in Goroutines, ~Busy(g), SessionRealloc(g),
         UNCHANGED callVars
  PROVE  LibInv'
<1> USE NullAssumption
<1>1. PICK a \in ptrs[g] \ {NULL} :
        \/ \E b \in Unused :
             /\ owner' = [owner EXCEPT ![a] = Nobody, ![b] = g]
             /\ ptrs' = [ptrs EXCEPT ![g] = (@ \cup {b}) \ {a}]
             /\ UNCHANGED <<lost, wrong>>
        \/ /\ ptrs' = [ptrs EXCEPT ![g] = (@ \cup {NULL}) \ {a}]
           /\ Lose(a)
           /\ UNCHANGED <<owner, wrong>>
        \/ /\ ptrs' = [ptrs EXCEPT ![g] = (@ \cup {NULL}) \ {a}]
           /\ Free(g, {a})
           /\ UNCHANGED lost
  BY DEF SessionRealloc
<1>2. a \in Remembered(g) /\ a \in Addrs \ lost /\ owner[a] = g
  BY DEF Remembered, LibInv, OwnInv
<1>3. \A h \in Goroutines :
        /\ Busy(h) => a \notin Written(h)
        /\ h # g => a \notin Remembered(h)
  BY <1>2 DEF LibInv, OwnInv
<1>4. ASSUME NEW b \in Unused,
             owner' = [owner EXCEPT ![a] = Nobody, ![b] = g],
             ptrs' = [ptrs EXCEPT ![g] = (@ \cup {b}) \ {a}],
             UNCHANGED <<lost, wrong>>
      PROVE  LibInv'
  <2>1. b \in Addrs \ lost /\ b # a /\ \A h \in Goroutines : b \notin Remembered(h)
        /\ (Busy(h) => b \notin Written(h))
    BY <1>2, UnusedIsFree DEF LibInv
  <2>2. owner' = [x \in Addrs |-> IF x = a THEN Nobody ELSE IF x = b THEN g ELSE owner[x]]
    BY <1>2, <1>4, <2>1 DEF LibInv, LibTypeOK
  <2>3. /\ LibTypeOK' /\ TellInv'
        /\ \A h \in Goroutines : (Busy(h)' <=> Busy(h)) /\ Written(h)' = Written(h)
    BY <1>4, <2>1, <2>2, CallsKept DEF LibInv, LibTypeOK
  <2>4. /\ Remembered(g)' = (Remembered(g) \cup {b}) \ {a}
        /\ \A h \in Goroutines \ {g} : Remembered(h)' = Remembered(h)
    BY <1>4, <2>1 DEF Remembered, LibInv, LibTypeOK
  <2>5. OwnInv'
    BY <1>2, <1>3, <1>4, <2>1, <2>2, <2>3, <2>4 DEF LibInv, OwnInv, LibTypeOK
  <2>6. QED
    BY <1>4, <2>3, <2>5 DEF LibInv, callVars
<1>5. ASSUME ptrs' = [ptrs EXCEPT ![g] = (@ \cup {NULL}) \ {a}], Lose(a),
             UNCHANGED <<owner, wrong>>
      PROVE  LibInv'
  <2>1. lost' = lost \cup {a}
    BY <1>5 DEF Lose
  <2>2. /\ LibTypeOK' /\ TellInv'
        /\ \A h \in Goroutines : (Busy(h)' <=> Busy(h)) /\ Written(h)' = Written(h)
    BY <1>2, <1>5, <2>1, CallsKept DEF LibInv, LibTypeOK
  <2>3. /\ Remembered(g)' = Remembered(g) \ {a}
        /\ \A h \in Goroutines \ {g} : Remembered(h)' = Remembered(h)
    BY <1>5 DEF Remembered, LibInv, LibTypeOK
  <2>4. OwnInv'
    BY <1>2, <1>3, <1>5, <2>1, <2>2, <2>3 DEF LibInv, OwnInv, LibTypeOK
  <2>5. QED
    BY <1>5, <2>2, <2>4 DEF LibInv, callVars
<1>6. ASSUME ptrs' = [ptrs EXCEPT ![g] = (@ \cup {NULL}) \ {a}], Free(g, {a}),
             UNCHANGED lost
      PROVE  LibInv'
  <2>1. /\ owner' = [x \in Addrs |-> IF x = a THEN Nobody ELSE owner[x]]
        /\ wrong' = wrong
    BY <1>2, <1>6 DEF Free, LibInv, LibTypeOK
  <2>2. /\ LibTypeOK' /\ TellInv'
        /\ \A h \in Goroutines : (Busy(h)' <=> Busy(h)) /\ Written(h)' = Written(h)
    BY <1>2, <1>6, <2>1, CallsKept DEF LibInv, LibTypeOK
  <2>3. /\ Remembered(g)' = Remembered(g) \ {a}
        /\ \A h \in Goroutines \ {g} : Remembered(h)' = Remembered(h)
    BY <1>6 DEF Remembered, LibInv, LibTypeOK
  <2>4. OwnInv'
    BY <1>2, <1>3, <1>6, <2>1, <2>2, <2>3 DEF LibInv, OwnInv, LibTypeOK
  <2>5. QED
    BY <2>1, <2>2, <2>4 DEF LibInv, callVars
<1>7. QED
  BY <1>1, <1>4, <1>5, <1>6

(* Every method of a session keeps the invariant. *)
LEMMA SessionInv ==
  ASSUME LibInv, ~strayed, NEW g \in Goroutines, Session(g)
  PROVE  LibInv'
<1>1. ~Busy(g) /\ UNCHANGED callVars
  BY DEF Session, Busy
<1>2. CASE SessionMalloc(g)
  BY <1>1, <1>2, SessionMallocInv
<1>3. CASE SessionFree(g)
  BY <1>1, <1>3, SessionGivesBack DEF SessionFree
<1>4. CASE SessionRealloc(g)
  BY <1>1, <1>4, SessionReallocInv
<1>5. CASE SessionFlush(g)
  <2>1. ptrs' = [ptrs EXCEPT ![g] = @ \ ptrs[g]]
    BY <1>5 DEF SessionFlush
  <2>2. QED
    BY <1>1, <1>5, <2>1, SessionGivesBack DEF SessionFlush
<1>6. QED
  BY <1>2, <1>3, <1>4, <1>5 DEF Session

-----------------------------------------------------------------------------
(* Theorems. *)

(* One step of the system is one step of the library's use by a goroutine. *)
LEMMA NextInv ==
  ASSUME LibInv, [Next]_vars
  PROVE  LibInv'
<1> USE BuilderAssumption
<1>1. ASSUME UNCHANGED InLib PROVE LibInv'
  BY <1>1 DEF InLib, memVars, callVars, LibInv, LibTypeOK, TellInv, OwnInv, Busy, Written,
     Remembered
<1>2. ASSUME ~strayed, BuilderStep PROVE LibInv'
  <2>1. ASSUME NEW c \in BuildCalls, Build(c) PROVE LibInv'
    BY <1>2, <2>1, CallsShape, PrepareInv, PreparePanicsInv DEF Build
  <2>2. CASE EnterC(Builder)
    BY <2>2, EnterCInv
  <2>3. CASE BuildLeaveC
    <3>1. \E id : LeaveC(Builder, 0, id)
      BY <2>3 DEF BuildLeaveC, Appended
    <3>2. QED
      BY <3>1, LeaveCInv
  <2>4. CASE BuildReturn
    BY <1>2, <2>4, ReleaseInv DEF BuildReturn
  <2>5. CASE Use
    <3>1. UNCHANGED InLib
      BY <2>5 DEF Use, Using, Check, Run, FreePipeline, Enable, Disable, ConnectToTable,
         StatsRead, TableEntryAdd, TableEntryDelete
    <3>2. QED
      BY <3>1, <1>1
  <2>6. QED
    BY <1>2, <2>1, <2>2, <2>3, <2>4, <2>5 DEF BuilderStep
<1>3. ASSUME ~strayed, NEW g \in Goroutines, Others(g) PROVE LibInv'
  <2>1. ASSUME NEW c \in OtherCalls, Prepare(g, c) \/ PreparePanics(g, c) PROVE LibInv'
    BY <1>3, <2>1, CallsShape, PrepareInv, PreparePanicsInv
  <2>2. QED
    BY <1>3, <2>1, EnterCInv, LeaveCInv, ReadErrnoInv, ReleaseInv, SessionInv DEF Others
<1>4. ASSUME NEW g \in Goroutines, Fails(g) PROVE LibInv'
  BY <1>4, LeaveCInv DEF Fails
<1>5. CASE UNCHANGED vars
  BY <1>1, <1>5 DEF vars, InLib
<1>6. QED
  BY <1>2, <1>3, <1>4, <1>5 DEF Next

(* The invariant of C memory, calls and error numbers holds for any   *)
(* goroutines, threads and addresses, however their calls interleave. *)
THEOREM LibInvariant == Spec => []LibInv
BY LibInitInv, NextInv, PTL DEF Spec

(* No destructor, deferred free, Free or Flush of a session ever passes to  *)
(* free what its goroutine does not own, whatever the calls interleave      *)
(* with; the unwritten file_name is the one exception.                      *)
THEOREM FreesOnlyOwned == Spec => []FreesOwned
<1>1. LibInv => FreesOwned
  BY DEF LibInv, FreesOwned
<1>2. QED
  BY <1>1, LibInvariant, PTL

(* Arguments stay allocated, and the caller's own, for as long as C looks   *)
(* at them.                                                                 *)
THEOREM ArgumentsLive == Spec => []CReadsLive
<1>1. LibInv => CReadsLive
  BY DEF LibInv, CReadsLive, OwnInv, Busy, Written, Pointers
<1>2. QED
  BY <1>1, LibInvariant, PTL

(* Outside of the two places that lose a block, every live block is one     *)
(* that a call in progress or a session will give back.                     *)
THEOREM NoOtherLeaks == Spec => []NothingLeaks
<1>1. LibInv => NothingLeaks
  BY NullAssumption DEF LibInv, NothingLeaks, OwnInv, Busy, Written, Remembered
<1>2. QED
  BY <1>1, LibInvariant, PTL

(* A goroutine that is locked to its thread is told of its own failure,     *)
(* whatever the calls on other threads do meanwhile: the error RteErrno     *)
(* makes is of its own number, and a function that gives no number says     *)
(* that it failed.                                                          *)
THEOREM LockedAreTold == Spec => []LockedTold
<1>1. LibInv => LockedTold
  BY LockedAssumption DEF LibInv, LockedTold, TellInv
<1>2. QED
  BY <1>1, LibInvariant, PTL

-----------------------------------------------------------------------------
(* Sums of sequences. *)

(* Induction over the natural numbers, for a set in place of a predicate. *)
LEMMA SetInduction ==
  ASSUME NEW S, 0 \in S, \A k \in Nat : k \in S => k + 1 \in S
  PROVE  Nat \subseteq S
<1> DEFINE T == Nat \ S
<1>1. SUFFICES ASSUME T # {} PROVE FALSE
  OBVIOUS
<1>2. PICK x \in T : \A y \in T : ~ (<<y, x>> \in OpToRel(<, Nat))
  BY <1>1, WFMin, NatLessThanWellFounded
<1>3. \A y \in T : ~ (y < x)
  BY <1>2 DEF OpToRel
<1>4. x # 0 /\ x - 1 \in Nat
  OBVIOUS
<1>5. x - 1 \in S
  BY <1>3, <1>4
<1>6. QED
  BY <1>4, <1>5

(* The sums of the first elements of s, up to l of them. *)
Upto(l, s, f) == f = [n \in 0..l |-> IF n = 0 THEN 0 ELSE f[n - 1] + s[n]]

(* The recursion of Total has a solution for every length. *)
LEMMA UptoExists ==
  ASSUME NEW s
  PROVE  \A l \in Nat : \E f : Upto(l, s, f)
<1> DEFINE S == {l \in Nat : \E f : Upto(l, s, f)}
<1>1. 0 \in S
  <2>1. Upto(0, s, [n \in 0..0 |-> 0])
    BY DEF Upto
  <2>2. QED
    BY <2>1
<1>2. ASSUME NEW l \in Nat, l \in S PROVE l + 1 \in S
  <2>1. PICK f : Upto(l, s, f)
    BY <1>2
  <2> DEFINE g == [n \in 0..(l + 1) |-> IF n = l + 1 THEN f[l] + s[l + 1] ELSE f[n]]
  <2>2. ASSUME NEW n \in 0..(l + 1)
        PROVE  g[n] = IF n = 0 THEN 0 ELSE g[n - 1] + s[n]
    <3>1. CASE n = l + 1
      BY <3>1
    <3>2. CASE n \in 0..l
      <4>1. g[n] = f[n] /\ (n # 0 => g[n - 1] = f[n - 1])
        BY <3>2
      <4>2. f[n] = IF n = 0 THEN 0 ELSE f[n - 1] + s[n]
        BY <2>1, <3>2 DEF Upto
      <4>3. QED
        BY <4>1, <4>2
    <3>3. QED
      BY <3>1, <3>2
  <2>3. Upto(l + 1, s, g)
    <3>1. g = [n \in 0..(l + 1) |-> g[n]]
      OBVIOUS
    <3> HIDE DEF g
    <3>2. QED
      BY <2>2, <3>1 DEF Upto
  <2>4. QED
    BY <2>3
<1>3. Nat \subseteq S
  <2> HIDE DEF S
  <2>1. QED
    BY <1>1, <1>2, SetInduction
<1>4. QED
  BY <1>3

(* What Total adds up. *)
LEMMA TotalSums ==
  ASSUME NEW s \in Seq(Nat)
  PROVE  \E f \in [0..Len(s) -> Nat] :
           /\ f[0] = 0 /\ \A n \in 1..Len(s) : f[n] = f[n - 1] + s[n]
           /\ Total(s) = f[Len(s)]
<1> DEFINE f == CHOOSE f : Upto(Len(s), s, f)
<1>1. Upto(Len(s), s, f)
  <2>1. Len(s) \in Nat
    OBVIOUS
  <2>2. \E g : Upto(Len(s), s, g)
    BY <2>1, UptoExists
  <2>3. QED
    BY <2>2
<1>2. Total(s) = f[Len(s)]
  BY DEF Total, Upto
<1> HIDE DEF f
<1>3. /\ DOMAIN f = 0..Len(s) /\ f[0] = 0 /\ \A n \in 1..Len(s) : f[n] = f[n - 1] + s[n]
      /\ f = [n \in 0..Len(s) |-> f[n]]
  BY <1>1 DEF Upto
<1> DEFINE S == {n \in Nat : n <= Len(s) => f[n] \in Nat}
<1>4. 0 \in S
  BY <1>3
<1>5. ASSUME NEW n \in Nat, n \in S PROVE n + 1 \in S
  <2>1. CASE n + 1 <= Len(s)
    <3>1. f[n] \in Nat /\ n + 1 \in 1..Len(s) /\ s[n + 1] \in Nat
      BY <1>5, <2>1
    <3>2. f[n + 1] = f[n] + s[n + 1]
      BY <1>3, <3>1
    <3>3. QED
      BY <3>1, <3>2
  <2>2. CASE ~(n + 1 <= Len(s))
    BY <2>2
  <2>3. QED
    BY <2>1, <2>2
<1>6. Nat \subseteq S
  <2> HIDE DEF S
  <2>1. QED
    BY <1>4, <1>5, SetInduction
<1>7. \A n \in 0..Len(s) : f[n] \in Nat
  BY <1>6
<1>8. QED
  BY <1>2, <1>3, <1>7

(* A sequence that grows by one number. *)
LEMMA TotalAppend ==
  ASSUME NEW s \in Seq(Nat), NEW u \in Seq(Nat), Len(u) = Len(s) + 1,
         \A n \in 1..Len(s) : u[n] = s[n]
  PROVE  Total(u) = Total(s) + u[Len(u)]
<1>1. PICK f \in [0..Len(s) -> Nat] :
        /\ f[0] = 0 /\ \A n \in 1..Len(s) : f[n] = f[n - 1] + s[n]
        /\ Total(s) = f[Len(s)]
  BY TotalSums
<1>2. PICK g \in [0..Len(u) -> Nat] :
        /\ g[0] = 0 /\ \A n \in 1..Len(u) : g[n] = g[n - 1] + u[n]
        /\ Total(u) = g[Len(u)]
  BY TotalSums
<1> DEFINE S == {n \in Nat : n <= Len(s) => g[n] = f[n]}
<1>3. 0 \in S
  BY <1>1, <1>2
<1>4. ASSUME NEW n \in Nat, n \in S PROVE n + 1 \in S
  <2>1. CASE n + 1 <= Len(s)
    <3>1. g[n] = f[n] /\ n + 1 \in 1..Len(s) /\ n + 1 \in 1..Len(u) /\ (n + 1) - 1 = n
      BY <1>4, <2>1
    <3>2. f[n + 1] = f[n] + s[n + 1] /\ g[n + 1] = g[n] + u[n + 1]
      BY <1>1, <1>2, <3>1
    <3>3. QED
      BY <3>1, <3>2
  <2>2. CASE ~(n + 1 <= Len(s))
    BY <2>2
  <2>3. QED
    BY <2>1, <2>2
<1>5. Nat \subseteq S
  <2> HIDE DEF S
  <2>1. QED
    BY <1>3, <1>4, SetInduction
<1>6. g[Len(s)] = f[Len(s)]
  BY <1>5
<1>7. Len(u) \in 1..Len(u) /\ Len(u) - 1 = Len(s)
  OBVIOUS
<1>8. g[Len(u)] = g[Len(u) - 1] + u[Len(u)]
  BY <1>2, <1>7
<1>9. QED
  BY <1>1, <1>2, <1>6, <1>7, <1>8

(* Adding the same to both sides. *)
LEMMA BothSides ==
  ASSUME NEW a \in Nat, NEW b \in Nat, NEW x \in Nat, NEW y \in Nat, NEW z \in Nat, a + x = b + y
  PROVE  (a + z) + x = (b + z) + y
OBVIOUS

(* One number of a sequence changes. *)
LEMMA TotalChange ==
  ASSUME NEW s \in Seq(Nat), NEW u \in Seq(Nat), Len(u) = Len(s),
         NEW i \in 1..Len(s), \A n \in 1..Len(s) : n # i => u[n] = s[n]
  PROVE  Total(u) + s[i] = Total(s) + u[i]
<1>1. PICK f \in [0..Len(s) -> Nat] :
        /\ f[0] = 0 /\ \A n \in 1..Len(s) : f[n] = f[n - 1] + s[n]
        /\ Total(s) = f[Len(s)]
  BY TotalSums
<1>2. PICK g \in [0..Len(s) -> Nat] :
        /\ g[0] = 0 /\ \A n \in 1..Len(s) : g[n] = g[n - 1] + u[n]
        /\ Total(u) = g[Len(s)]
  BY TotalSums
<1> DEFINE S == {n \in Nat : n <= Len(s) =>
                   IF n < i THEN g[n] = f[n] ELSE g[n] + s[i] = f[n] + u[i]}
<1>3. 0 \in S
  BY <1>1, <1>2
<1>4. ASSUME NEW n \in Nat, n \in S PROVE n + 1 \in S
  <2>1. CASE n + 1 <= Len(s)
    <3>1. n + 1 \in 1..Len(s) /\ (n + 1) - 1 = n /\ n \in 0..Len(s)
      BY <2>1
    <3>2. f[n + 1] = f[n] + s[n + 1] /\ g[n + 1] = g[n] + u[n + 1]
      BY <1>1, <1>2, <3>1
    <3>3. IF n < i THEN g[n] = f[n] ELSE g[n] + s[i] = f[n] + u[i]
      BY <1>4, <2>1
    <3>4. /\ f[n] \in Nat /\ g[n] \in Nat /\ s[i] \in Nat /\ u[i] \in Nat
          /\ s[n + 1] \in Nat /\ u[n + 1] \in Nat
      <4>1. f[n] \in Nat /\ g[n] \in Nat
        BY <3>1
      <4>2. n + 1 \in 1..Len(u) /\ i \in 1..Len(u)
        BY <3>1
      <4>3. s[i] \in Nat /\ u[i] \in Nat
        BY <4>2
      <4>4. s[n + 1] \in Nat /\ u[n + 1] \in Nat
        BY <3>1, <4>2
      <4>5. QED
        BY <4>1, <4>3, <4>4
    <3>5. n + 1 # i => u[n + 1] = s[n + 1]
      BY <3>1
    <3>6. IF n + 1 < i THEN g[n + 1] = f[n + 1] ELSE g[n + 1] + s[i] = f[n + 1] + u[i]
      <4>1. CASE n + 1 = i
        <5>1. g[n] = f[n] /\ f[n + 1] = f[n] + s[i] /\ g[n + 1] = f[n] + u[i] /\ ~(n + 1 < i)
          BY <3>2, <3>3, <4>1
        <5>2. g[n + 1] + s[i] = f[n + 1] + u[i]
          BY <3>4, <5>1
        <5>3. QED
          BY <5>1, <5>2
      <4>2. CASE n + 1 < i
        BY <3>2, <3>3, <3>5, <4>2
      <4>3. CASE i <= n
        <5>1. /\ g[n] + s[i] = f[n] + u[i] /\ g[n + 1] = g[n] + s[n + 1] /\ ~(n + 1 < i)
              /\ f[n + 1] = f[n] + s[n + 1]
          BY <3>2, <3>3, <3>5, <4>3
        <5>2. PICK a \in Nat, b \in Nat, x \in Nat, y \in Nat, z \in Nat :
                a = g[n] /\ b = f[n] /\ x = s[i] /\ y = u[i] /\ z = s[n + 1]
          BY <3>4
        <5>3. a + x = b + y
          BY <5>1, <5>2
        <5>4. (a + z) + x = (b + z) + y
          BY <5>3, BothSides
        <5>5. QED
          BY <5>1, <5>2, <5>4
      <4>4. QED
        BY <4>1, <4>2, <4>3
    <3>7. QED
      BY <3>6
  <2>2. CASE ~(n + 1 <= Len(s))
    BY <2>2
  <2>3. QED
    BY <2>1, <2>2
<1>5. Nat \subseteq S
  <2> HIDE DEF S
  <2>1. QED
    BY <1>3, <1>4, SetInduction
<1>6. Len(s) \in S /\ Len(s) \in Nat /\ ~(Len(s) < i)
  <2> HIDE DEF S
  <2>1. QED
    BY <1>5
<1>7. g[Len(s)] + s[i] = f[Len(s)] + u[i]
  BY <1>6
<1>8. QED
  BY <1>1, <1>2, <1>7

(* The numbers at the places in D grow by one. *)
LEMMA TotalGrow ==
  ASSUME NEW s \in Seq(Nat), NEW u \in Seq(Nat), Len(u) = Len(s), NEW D \in SUBSET (1..Len(s)),
         \A n \in 1..Len(s) : u[n] = IF n \in D THEN s[n] + 1 ELSE s[n]
  PROVE  Total(u) = Total(s) + Cardinality(D)
<1>1. PICK f \in [0..Len(s) -> Nat] :
        /\ f[0] = 0 /\ \A n \in 1..Len(s) : f[n] = f[n - 1] + s[n]
        /\ Total(s) = f[Len(s)]
  BY TotalSums
<1>2. PICK g \in [0..Len(s) -> Nat] :
        /\ g[0] = 0 /\ \A n \in 1..Len(s) : g[n] = g[n - 1] + u[n]
        /\ Total(u) = g[Len(s)]
  BY TotalSums
<1> DEFINE C(n) == Cardinality(D \cap (1..n))
           S == {n \in Nat : n <= Len(s) => g[n] = f[n] + C(n)}
<1>3. \A n \in Nat : IsFiniteSet(D \cap (1..n)) /\ C(n) \in Nat
  <2>1. \A n \in Nat : IsFiniteSet(1..n)
    BY FS_Interval
  <2>2. \A n \in Nat : IsFiniteSet(D \cap (1..n))
    BY <2>1, FS_Subset
  <2>3. QED
    BY <2>2, FS_CardinalityType
<1>4. C(0) = 0
  <2>1. D \cap (1..0) = {}
    OBVIOUS
  <2>2. QED
    BY <2>1, FS_EmptySet
<1>5. ASSUME NEW n \in Nat PROVE C(n + 1) = IF n + 1 \in D THEN C(n) + 1 ELSE C(n)
  <2>1. n + 1 \notin D \cap (1..n)
    OBVIOUS
  <2>2. D \cap (1..(n + 1)) = IF n + 1 \in D THEN (D \cap (1..n)) \cup {n + 1} ELSE D \cap (1..n)
    OBVIOUS
  <2>3. Cardinality((D \cap (1..n)) \cup {n + 1}) = C(n) + 1
    BY <1>3, <2>1, FS_AddElement
  <2>4. QED
    BY <2>2, <2>3
<1> HIDE DEF C
<1>6. 0 \in S
  BY <1>1, <1>2, <1>4
<1>7. ASSUME NEW n \in Nat, n \in S PROVE n + 1 \in S
  <2>1. CASE n + 1 <= Len(s)
    <3>1. n + 1 \in 1..Len(s) /\ (n + 1) - 1 = n /\ n \in 0..Len(s)
      BY <2>1
    <3>2. f[n + 1] = f[n] + s[n + 1] /\ g[n + 1] = g[n] + u[n + 1]
      BY <1>1, <1>2, <3>1
    <3>3. g[n] = f[n] + C(n) /\ f[n] \in Nat /\ C(n) \in Nat /\ s[n + 1] \in Nat
      <4>1. g[n] = f[n] + C(n)
        BY <1>7, <2>1
      <4>2. f[n] \in Nat
        BY <3>1
      <4>4. s[n + 1] \in Nat
        BY <3>1
      <4>3. QED
        BY <1>3, <4>1, <4>2, <4>4
    <3>4. u[n + 1] = IF n + 1 \in D THEN s[n + 1] + 1 ELSE s[n + 1]
      BY <3>1
    <3>5. g[n + 1] = f[n + 1] + C(n + 1)
      <4>1. C(n + 1) = IF n + 1 \in D THEN C(n) + 1 ELSE C(n)
        BY <1>5
      <4>2. CASE n + 1 \in D
        <5>1. C(n + 1) = C(n) + 1 /\ u[n + 1] = s[n + 1] + 1
          BY <3>4, <4>1, <4>2
        <5>2. PICK a \in Nat, z \in Nat, c \in Nat : a = f[n] /\ z = s[n + 1] /\ c = C(n)
          BY <3>3
        <5>3. (a + c) + (z + 1) = (a + z) + (c + 1)
          OBVIOUS
        <5>4. QED
          BY <3>2, <3>3, <5>1, <5>2, <5>3
      <4>3. CASE n + 1 \notin D
        <5>1. C(n + 1) = C(n) /\ u[n + 1] = s[n + 1]
          BY <3>4, <4>1, <4>3
        <5>2. QED
          BY <3>2, <3>3, <5>1
      <4>4. QED
        BY <4>2, <4>3
    <3>6. QED
      BY <3>5
  <2>2. CASE ~(n + 1 <= Len(s))
    BY <2>2
  <2>3. QED
    BY <2>1, <2>2
<1>8. Nat \subseteq S
  <2> HIDE DEF S
  <2>1. QED
    BY <1>6, <1>7, SetInduction
<1>9. g[Len(s)] = f[Len(s)] + C(Len(s))
  BY <1>8
<1>10. D \cap (1..Len(s)) = D
  OBVIOUS
<1>11. QED
  BY <1>1, <1>2, <1>9, <1>10 DEF C

-----------------------------------------------------------------------------
(* What the owner of a pipeline knows of it. *)

Sizes(q) == [t \in DOMAIN q |-> Cardinality(q[t])]
Reads(q) == [i \in DOMAIN q |-> q[i].n]
PortSet == [table : SUBSET Nat, on : BOOLEAN, n : Nat]
FiniteSubsets == {T \in SUBSET Keys : IsFiniteSet(T)}

(* The types of the pipeline and of what its owner knows. *)
ViewTypeOK ==
  /\ pl \in [live : BOOLEAN, ins : Seq(PortSet), outs : Seq({"out"}), tables : Seq(FiniteSubsets)]
  /\ view \in [live : BOOLEAN, ins : Seq(Nat), outs : Seq(Nat), tables : Seq(Nat),
               entries : Nat, packets : Nat, checked : BOOLEAN]
  /\ ran \in Nat

(* The builder's call has added a b and not returned its id yet. *)
Adding(b) == /\ call[Builder].at = "release"
             /\ call[Builder].said = Nil
             /\ call[Builder].builds = b

(* The ids v are those of the list p, but for the one on its way.           *)
Matches(b, v, p) ==
  /\ \A i \in 1..Len(v) : v[i] = i - 1
  /\ IF Adding(b) THEN Len(p) = Len(v) + 1 /\ call[Builder].id = Len(v) ELSE Len(p) = Len(v)

IdsInv == /\ Matches("in", view.ins, pl.ins)
          /\ Matches("out", view.outs, pl.outs)
          /\ Matches("table", view.tables, pl.tables)

(* The builder is in one of the four creating functions, which return the   *)
(* result of C or a nil handle, and Create is the one that is called        *)
(* without a pipeline.                                                      *)
BuilderInv ==
  Busy(Builder) =>
    /\ call[Builder].at \in {"ready", "inC", "release"}
    /\ call[Builder].reports \in {"rc", "bare"}
    /\ call[Builder].builds \in {"pipeline", "in", "out", "table"}
    /\ (call[Builder].builds = "pipeline") = ~view.live

(* Without a pipeline there is nothing to know. *)
NoneInv ==
  ~view.live =>
    /\ view.ins = <<>> /\ view.outs = <<>> /\ view.tables = <<>>
    /\ pl.ins = <<>> /\ pl.outs = <<>> /\ pl.tables = <<>>
    /\ view.entries = 0 /\ view.packets = 0 /\ ran = 0

CountInv == view.entries = Total(Sizes(pl.tables)) /\ view.packets + Total(Reads(pl.ins)) = ran

ViewInv == ViewTypeOK /\ IdsInv /\ BuilderInv /\ NoneInv /\ CountInv

(* Nothing adds up to nothing. *)
LEMMA TotalEmpty == Total(<<>>) = 0
<1>1. <<>> \in Seq(Nat) /\ Len(<<>>) = 0
  OBVIOUS
<1>2. PICK f \in [0..0 -> Nat] : f[0] = 0 /\ Total(<<>>) = f[0]
  BY <1>1, TotalSums
<1>3. QED
  BY <1>2

(* A sum of numbers is a number. *)
LEMMA TotalNat ==
  ASSUME NEW s \in Seq(Nat)
  PROVE  Total(s) \in Nat
<1>1. PICK f \in [0..Len(s) -> Nat] : Total(s) = f[Len(s)]
  BY TotalSums
<1>2. Len(s) \in 0..Len(s)
  OBVIOUS
<1>3. QED
  BY <1>1, <1>2

(* The counters of a list of ports and the sizes of a list of tables. *)
LEMMA ReadsSeq ==
  ASSUME NEW q \in Seq(PortSet)
  PROVE  /\ Reads(q) \in Seq(Nat) /\ Len(Reads(q)) = Len(q)
         /\ \A i \in 1..Len(q) : Reads(q)[i] = q[i].n
<1>1. \A i \in 1..Len(q) : q[i].n \in Nat
  <2>1. \A i \in 1..Len(q) : q[i] \in PortSet
    OBVIOUS
  <2>2. QED
    BY <2>1 DEF PortSet
<1>2. DOMAIN q = 1..Len(q) /\ Len(q) \in Nat
  OBVIOUS
<1>3. QED
  BY <1>1, <1>2 DEF Reads

(* The same for tables. *)
LEMMA SizesSeq ==
  ASSUME NEW q \in Seq(FiniteSubsets)
  PROVE  /\ Sizes(q) \in Seq(Nat) /\ Len(Sizes(q)) = Len(q)
         /\ \A i \in 1..Len(q) : Sizes(q)[i] = Cardinality(q[i])
<1>1. \A i \in 1..Len(q) : Cardinality(q[i]) \in Nat
  <2>1. \A i \in 1..Len(q) : IsFiniteSet(q[i])
    BY DEF FiniteSubsets
  <2>2. QED
    BY <2>1, FS_CardinalityType
<1>2. DOMAIN q = 1..Len(q) /\ Len(q) \in Nat
  OBVIOUS
<1>3. QED
  BY <1>1, <1>2 DEF Sizes

(* A port that is added has read nothing, a table that is added is empty. *)
LEMMA CountsAppend ==
  /\ \A q \in Seq(PortSet), x \in PortSet :
       x.n = 0 => Append(q, x) \in Seq(PortSet) /\ Total(Reads(Append(q, x))) = Total(Reads(q))
  /\ \A q \in Seq(FiniteSubsets) :
       Append(q, {}) \in Seq(FiniteSubsets) /\ Total(Sizes(Append(q, {}))) = Total(Sizes(q))
<1>1. ASSUME NEW s \in Seq(Nat), NEW u \in Seq(Nat), Len(u) = Len(s) + 1, u[Len(u)] = 0,
             \A n \in 1..Len(s) : u[n] = s[n]
      PROVE  Total(u) = Total(s)
  <2>1. Total(u) = Total(s) + 0
    BY <1>1, TotalAppend
  <2>2. QED
    BY <2>1, TotalNat
<1>2. ASSUME NEW q \in Seq(PortSet), NEW x \in PortSet, x.n = 0
      PROVE  Append(q, x) \in Seq(PortSet) /\ Total(Reads(Append(q, x))) = Total(Reads(q))
  <2>1. /\ Append(q, x) \in Seq(PortSet) /\ Len(Append(q, x)) = Len(q) + 1
        /\ Append(q, x)[Len(q) + 1] = x
        /\ \A i \in 1..Len(q) : Append(q, x)[i] = q[i]
    OBVIOUS
  <2>2. PICK r \in Seq(PortSet) : r = Append(q, x)
    BY <2>1
  <2>3. Len(q) \in Nat /\ Len(r) = Len(q) + 1 /\ r[Len(r)] = x
        /\ \A i \in 1..Len(q) : i \in 1..Len(r) /\ r[i] = q[i]
    BY <2>1, <2>2
  <2>4. /\ Reads(q) \in Seq(Nat) /\ Len(Reads(q)) = Len(q)
        /\ \A i \in 1..Len(q) : Reads(q)[i] = q[i].n
        /\ Reads(r) \in Seq(Nat) /\ Len(Reads(r)) = Len(r)
        /\ \A i \in 1..Len(r) : Reads(r)[i] = r[i].n
    BY ReadsSeq
  <2>5. Len(r) \in 1..Len(r)
    BY <2>3
  <2>6. Total(Reads(r)) = Total(Reads(q))
    <3>1. /\ Len(Reads(r)) = Len(Reads(q)) + 1 /\ Reads(r)[Len(Reads(r))] = 0
          /\ \A i \in 1..Len(Reads(q)) : Reads(r)[i] = Reads(q)[i]
      BY <1>2, <2>3, <2>4, <2>5
    <3>2. QED
      BY <1>1, <2>4, <3>1
  <2>7. QED
    BY <2>2, <2>6
<1>3. ASSUME NEW q \in Seq(FiniteSubsets)
      PROVE  Append(q, {}) \in Seq(FiniteSubsets) /\ Total(Sizes(Append(q, {}))) = Total(Sizes(q))
  <2>1. {} \in FiniteSubsets /\ Cardinality({}) = 0
    BY FS_EmptySet DEF FiniteSubsets
  <2>2. /\ Append(q, {}) \in Seq(FiniteSubsets) /\ Len(Append(q, {})) = Len(q) + 1
        /\ Append(q, {})[Len(q) + 1] = {}
        /\ \A i \in 1..Len(q) : Append(q, {})[i] = q[i]
    BY <2>1
  <2>3. PICK r \in Seq(FiniteSubsets) : r = Append(q, {})
    BY <2>2
  <2>4. Len(q) \in Nat /\ Len(r) = Len(q) + 1 /\ r[Len(r)] = {}
        /\ \A i \in 1..Len(q) : i \in 1..Len(r) /\ r[i] = q[i]
    BY <2>2, <2>3
  <2>5. /\ Sizes(q) \in Seq(Nat) /\ Len(Sizes(q)) = Len(q)
        /\ \A i \in 1..Len(q) : Sizes(q)[i] = Cardinality(q[i])
        /\ Sizes(r) \in Seq(Nat) /\ Len(Sizes(r)) = Len(r)
        /\ \A i \in 1..Len(r) : Sizes(r)[i] = Cardinality(r[i])
    BY SizesSeq
  <2>6. Len(r) \in 1..Len(r)
    BY <2>4
  <2>7. Total(Sizes(r)) = Total(Sizes(q))
    <3>1. /\ Len(Sizes(r)) = Len(Sizes(q)) + 1 /\ Sizes(r)[Len(Sizes(r))] = 0
          /\ \A i \in 1..Len(Sizes(q)) : Sizes(r)[i] = Sizes(q)[i]
      BY <2>1, <2>4, <2>5, <2>6
    <3>2. QED
      BY <1>1, <2>5, <3>1
  <2>8. QED
    BY <2>3, <2>7
<1>4. QED
  BY <1>2, <1>3

(* Before the first call there is no pipeline. *)
LEMMA ViewInitInv == Init => ViewInv
<1> SUFFICES ASSUME Init PROVE ViewInv
  OBVIOUS
<1> USE BuilderAssumption DEF Init, CallInit, NoPipeline, NoView
<1>1. ViewTypeOK
  BY DEF ViewTypeOK
<1>2. IdsInv
  BY DEF IdsInv, Matches, Adding
<1>3. BuilderInv /\ NoneInv
  BY DEF BuilderInv, Busy, NoneInv
<1>4. Sizes(pl.tables) = <<>> /\ Reads(pl.ins) = <<>>
  BY DEF Sizes, Reads
<1>5. CountInv
  BY <1>4, TotalEmpty DEF CountInv
<1>6. QED
  BY <1>1, <1>2, <1>3, <1>5 DEF ViewInv

(* Steps that leave the pipeline, the owner's knowledge and the builder's   *)
(* call alone.                                                              *)
LEMMA ViewFrame ==
  ASSUME ViewInv, UNCHANGED <<pl, view, ran>>, call'[Builder] = call[Builder]
  PROVE  ViewInv'
BY DEF ViewInv, ViewTypeOK, IdsInv, Matches, Adding, BuilderInv, Busy, NoneInv, CountInv

(* Steps of the builder's call before the library has answered, or when it  *)
(* has refused.                                                             *)
LEMMA ViewCall ==
  ASSUME ViewInv, UNCHANGED <<pl, view, ran>>, BuilderInv',
         \A b \in {"in", "out", "table"} : ~Adding(b) /\ ~Adding(b)'
  PROVE  ViewInv'
<1>1. IdsInv'
  BY DEF ViewInv, IdsInv, Matches
<1>2. QED
  BY <1>1 DEF ViewInv, ViewTypeOK, NoneInv, CountInv

(* The functions that build a pipeline do not ask for rte_errno. *)
LEMMA BuildShape ==
  ASSUME NEW c \in BuildCalls
  PROVE  /\ c.builds \in {"pipeline", "in", "out", "table"} /\ c.reports \in {"rc", "bare"}
         /\ c.args.panics \in {"no", "before", "between"}
<1>1. \A a \in InParams \cup OutParams \cup TableParams \cup {PipelineParams} :
        a.panics \in {"no", "before", "between"}
  BY DEF InParams, OutParams, TableParams, PipelineParams, RingRx, RingTx, FdRx, FdTx, EthdevRx,
     EthdevTx, ArrayParams, StubParams, TransformPOD, Source, Sink, LPMParams, HashParams,
     ACLParams, tformTo4, tformTo6, tformToOrdinary, tformToCuckoo, Args
<1>2. QED
  BY <1>1 DEF BuildCalls, PipelineCreate, PortInCreate, PortOutCreate, TableCreate, Via

(* No step of another goroutine touches the builder's call. *)
LEMMA OthersKeepCall ==
  ASSUME LibTypeOK, NEW g \in Goroutines, g # Builder, Others(g) \/ Fails(g)
  PROVE  call'[Builder] = call[Builder]
<1>1. Builder \in DOMAIN call
  BY BuilderAssumption DEF LibTypeOK
<1>2. ASSUME NEW e, NEW id, LeaveC(g, e, id) PROVE call'[Builder] = call[Builder]
  BY <1>1, <1>2 DEF LeaveC
<1>3. ASSUME NEW c, Prepare(g, c) \/ PreparePanics(g, c) PROVE call'[Builder] = call[Builder]
  BY <1>1, <1>3 DEF Prepare, PreparePanics, callVars
<1>4. ASSUME EnterC(g) \/ ReadErrno(g) PROVE call'[Builder] = call[Builder]
  BY <1>1, <1>4 DEF EnterC, ReadErrno
<1>5. ASSUME Release(g) \/ Session(g) PROVE call'[Builder] = call[Builder]
  BY <1>1, <1>5 DEF Release, Session, callVars
<1>6. QED
  BY <1>2, <1>3, <1>4, <1>5 DEF Others, Fails

(* The builder comes back from C and knows whether it failed. *)
LEMMA LeaveCBuilder ==
  ASSUME LibTypeOK, BuilderInv, NEW e \in Errnos \cup {0}, NEW id, LeaveC(Builder, e, id)
  PROVE  /\ call'[Builder].at = "release"
         /\ (call'[Builder].said = Nil <=> e = 0) /\ call'[Builder].id = id
         /\ call'[Builder].builds = call[Builder].builds
         /\ call'[Builder].reports = call[Builder].reports
<1> DEFINE said == Reported(call[Builder].reports, e)
<1>1. /\ call[Builder].at = "inC" /\ call[Builder].reports \in {"rc", "bare"}
      /\ call[Builder] \in BusyCall(call[Builder].id)
  BY BuilderAssumption DEF LeaveC, BuilderInv, Busy, LibTypeOK, DoneCall
<1>2. call' = [call EXCEPT ![Builder].at = "release", ![Builder].thread = NULL,
                           ![Builder].err = e, ![Builder].id = id, ![Builder].said = said]
  BY <1>1 DEF LeaveC
<1>3. call'[Builder] = [call[Builder] EXCEPT !.at = "release", !.thread = NULL, !.err = e,
                                             !.id = id, !.said = said]
  BY <1>2, BuilderAssumption DEF LibTypeOK
<1>4. said = Nil <=> e = 0
  BY <1>1, ErrnoFacts DEF Reported
<1> HIDE DEF said
<1>5. QED
  BY <1>1, <1>3, <1>4 DEF BusyCall

(* Before C is entered, and when it fails, nothing is added. *)
LEMMA ViewBegin ==
  ASSUME LibTypeOK, ViewInv,
         \/ \E c \in BuildCalls : Build(c)
         \/ EnterC(Builder) /\ UNCHANGED <<pl, view, ran>>
         \/ Fails(Builder)
  PROVE  ViewInv'
<1> USE BuilderAssumption
<1>1. ASSUME NEW c \in BuildCalls, Build(c) PROVE ViewInv'
  <2>1. c.builds \in {"pipeline", "in", "out", "table"} /\ c.reports \in {"rc", "bare"}
        /\ c.args.panics \in {"no", "before", "between"}
    BY BuildShape
  <2>2. UNCHANGED <<pl, view, ran>> /\ (c.builds = "pipeline") = ~view.live
    BY <1>1 DEF Build
  <2>3. CASE PreparePanics(Builder, c)
    BY <2>2, <2>3, ViewFrame DEF PreparePanics, callVars
  <2>4. CASE Prepare(Builder, c)
    <3>1. c.args.panics = "no"
      BY <2>1, <2>4 DEF Prepare
    <3>2. call'[Builder].at = "ready" /\ call'[Builder].builds = c.builds
          /\ call'[Builder].reports \in {"rc", "bare"}
      <4>1. PICK p \in [c.args.parts -> Unused], u \in [c.args.unset -> Addrs \cup {NULL}] :
              call' = [call EXCEPT ![Builder] =
                [at |-> IF c.args.panics = "no" THEN "ready" ELSE "release",
                 builds |-> c.builds, reports |-> c.reports, eager |-> c.eager,
                 unset |-> c.args.unset,
                 ptr |-> [f \in c.args.parts \cup c.args.unset |->
                            IF f \in c.args.parts THEN p[f] ELSE u[f]],
                 thread |-> NULL, id |-> 0, err |-> 0, said |-> Nil]]
        BY <2>4 DEF Prepare
      <4>2. QED
        BY <2>1, <3>1, <4>1, CallExcept
    <3>3. call[Builder].at = "done"
      BY <2>4 DEF Prepare
    <3>4. BuilderInv'
      BY <2>1, <2>2, <3>2 DEF BuilderInv
    <3>5. \A b \in {"in", "out", "table"} : ~Adding(b) /\ ~Adding(b)'
      BY <3>2, <3>3 DEF Adding
    <3>6. QED
      BY <2>2, <3>4, <3>5, ViewCall
  <2>5. QED
    BY <1>1, <2>3, <2>4 DEF Build
<1>2. ASSUME EnterC(Builder), UNCHANGED <<pl, view, ran>> PROVE ViewInv'
  <2>1. PICK t \in MayRunOn(Builder) :
          call'[Builder] = [call[Builder] EXCEPT !.at = "inC", !.thread = t]
    BY <1>2, EnterCEffect
  <2>2. call[Builder] \in BusyCall(call[Builder].id) /\ call[Builder].at = "ready"
    BY <1>2, EnterCEffect
  <2>3. /\ call'[Builder].at = "inC" /\ call'[Builder].builds = call[Builder].builds
        /\ call'[Builder].reports = call[Builder].reports
    BY <2>1, <2>2 DEF BusyCall
  <2>4. BuilderInv'
    BY <1>2, <2>2, <2>3 DEF ViewInv, BuilderInv, Busy
  <2>5. \A b \in {"in", "out", "table"} : ~Adding(b) /\ ~Adding(b)'
    BY <2>2, <2>3 DEF Adding
  <2>6. QED
    BY <1>2, <2>4, <2>5, ViewCall
<1>3. ASSUME Fails(Builder) PROVE ViewInv'
  <2>1. PICK e \in Errnos : LeaveC(Builder, e, 0)
    BY <1>3 DEF Fails
  <2>2. call[Builder].at = "inC" /\ e # 0
    BY <2>1, LockedAssumption DEF LeaveC
  <2>3. UNCHANGED <<pl, view, ran>>
    BY <1>3 DEF Fails
  <2>4. /\ call'[Builder].at = "release" /\ call'[Builder].said # Nil
        /\ call'[Builder].builds = call[Builder].builds
        /\ call'[Builder].reports = call[Builder].reports
    BY <2>1, <2>2, LeaveCBuilder DEF ViewInv
  <2>5. BuilderInv'
    BY <2>2, <2>3, <2>4 DEF ViewInv, BuilderInv, Busy
  <2>6. \A b \in {"in", "out", "table"} : ~Adding(b) /\ ~Adding(b)'
    BY <2>2, <2>4 DEF Adding
  <2>7. QED
    BY <2>3, <2>5, <2>6, ViewCall
<1>4. QED
  BY <1>1, <1>2, <1>3

(* An id on its way, told of nothing else. *)
LEMMA AddingOne ==
  ASSUME ViewInv, NEW b \in {"in", "out", "table"}, call[Builder].builds = b,
         call[Builder].at = "inC", call'[Builder].at = "release", call'[Builder].said = Nil,
         call'[Builder].builds = b, call'[Builder].reports \in {"rc", "bare"}, UNCHANGED view
  PROVE  /\ \A a \in {"in", "out", "table"} : ~Adding(a) /\ (Adding(a)' <=> a = b)
         /\ BuilderInv' /\ NoneInv'
<1>1. view.live
  BY DEF ViewInv, BuilderInv, Busy
<1>2. QED
  BY <1>1 DEF Adding, BuilderInv, Busy, NoneInv

(* C appends to the list the call names. *)
LEMMA ViewLeaveC ==
  ASSUME LibTypeOK, ViewInv, BuildLeaveC
  PROVE  ViewInv'
<1> USE DEF ViewInv
<1>1. /\ call[Builder].at = "inC" /\ call[Builder].reports \in {"rc", "bare"}
      /\ UNCHANGED <<view, ran>>
      /\ call[Builder].builds \in {"pipeline", "in", "out", "table"}
  BY DEF BuildLeaveC, BuilderInv, Busy
<1>2. CASE call[Builder].builds = "pipeline"
  <2>1. LeaveC(Builder, 0, 0) /\ pl' = [NoPipeline EXCEPT !.live = TRUE]
    BY <1>2 DEF BuildLeaveC
  <2>2. /\ call'[Builder].at = "release" /\ call'[Builder].builds = "pipeline"
        /\ call'[Builder].reports \in {"rc", "bare"}
    BY <1>1, <1>2, <2>1, LeaveCBuilder
  <2>3. /\ ~view.live
        /\ view.ins = <<>> /\ view.outs = <<>> /\ view.tables = <<>>
        /\ pl.ins = <<>> /\ pl.outs = <<>> /\ pl.tables = <<>>
        /\ view.entries = 0 /\ view.packets = 0 /\ ran = 0
    BY <1>1, <1>2 DEF BuilderInv, Busy, NoneInv
  <2>4. /\ pl' \in [live : BOOLEAN, ins : Seq(PortSet), outs : Seq({"out"}),
                    tables : Seq(FiniteSubsets)]
        /\ pl'.ins = <<>> /\ pl'.outs = <<>> /\ pl'.tables = <<>>
    <3>1. pl' = [live |-> TRUE, ins |-> <<>>, outs |-> <<>>, tables |-> <<>>]
      BY <2>1 DEF NoPipeline
    <3>2. <<>> \in Seq(PortSet) /\ <<>> \in Seq({"out"}) /\ <<>> \in Seq(FiniteSubsets)
      OBVIOUS
    <3>3. QED
      BY <3>1, <3>2
  <2>5. ViewTypeOK' /\ NoneInv' /\ CountInv'
    BY <1>1, <2>3, <2>4 DEF ViewTypeOK, NoneInv, CountInv
  <2>6. IdsInv'
    BY <1>1, <2>2, <2>3, <2>4 DEF IdsInv, Matches, Adding
  <2>7. BuilderInv'
    BY <1>1, <2>2, <2>3 DEF BuilderInv
  <2>8. QED
    BY <2>5, <2>6, <2>7
<1>3. CASE call[Builder].builds = "in"
  <2> DEFINE new == [table |-> {}, on |-> FALSE, n |-> 0]
  <2>1. LeaveC(Builder, 0, Len(pl.ins)) /\ pl' = [pl EXCEPT !.ins = Append(@, new)]
    BY <1>3 DEF BuildLeaveC, Appended
  <2>2. /\ call'[Builder].at = "release" /\ call'[Builder].said = Nil
        /\ call'[Builder].id = Len(pl.ins) /\ call'[Builder].builds = "in"
        /\ call'[Builder].reports \in {"rc", "bare"}
    BY <1>1, <1>3, <2>1, LeaveCBuilder
  <2>3. pl.ins \in Seq(PortSet) /\ new \in PortSet
    BY DEF ViewTypeOK, PortSet
  <2>4. pl'.ins = Append(pl.ins, new) /\ pl'.outs = pl.outs /\ pl'.tables = pl.tables
    BY <2>1 DEF ViewTypeOK
  <2>5. pl'.ins \in Seq(PortSet) /\ Total(Reads(pl'.ins)) = Total(Reads(pl.ins))
        /\ Len(pl'.ins) = Len(pl.ins) + 1
    BY <2>3, <2>4, CountsAppend
  <2>6. ViewTypeOK'
    BY <1>1, <2>1, <2>4, <2>5 DEF ViewTypeOK
  <2>7. /\ \A a \in {"in", "out", "table"} : ~Adding(a) /\ (Adding(a)' <=> a = "in")
        /\ BuilderInv' /\ NoneInv'
    BY <1>1, <1>3, <2>2, AddingOne
  <2>8. IdsInv'
    BY <1>1, <2>2, <2>4, <2>5, <2>7 DEF IdsInv, Matches
  <2>9. CountInv'
    BY <1>1, <2>4, <2>5 DEF CountInv
  <2>10. QED
    BY <2>6, <2>7, <2>8, <2>9
<1>4. CASE call[Builder].builds = "out"
  <2>1. LeaveC(Builder, 0, Len(pl.outs)) /\ pl' = [pl EXCEPT !.outs = Append(@, "out")]
    BY <1>4 DEF BuildLeaveC, Appended
  <2>2. /\ call'[Builder].at = "release" /\ call'[Builder].said = Nil
        /\ call'[Builder].id = Len(pl.outs) /\ call'[Builder].builds = "out"
        /\ call'[Builder].reports \in {"rc", "bare"}
    BY <1>1, <1>4, <2>1, LeaveCBuilder
  <2>3. pl'.outs = Append(pl.outs, "out") /\ pl'.ins = pl.ins /\ pl'.tables = pl.tables
    BY <2>1 DEF ViewTypeOK
  <2>4. pl.outs \in Seq({"out"})
    BY DEF ViewTypeOK
  <2>5. pl'.outs \in Seq({"out"}) /\ Len(pl'.outs) = Len(pl.outs) + 1
    BY <2>3, <2>4
  <2>6. ViewTypeOK'
    BY <1>1, <2>1, <2>3, <2>5 DEF ViewTypeOK
  <2>7. /\ \A a \in {"in", "out", "table"} : ~Adding(a) /\ (Adding(a)' <=> a = "out")
        /\ BuilderInv' /\ NoneInv'
    BY <1>1, <1>4, <2>2, AddingOne
  <2>8. IdsInv'
    BY <1>1, <2>2, <2>3, <2>5, <2>7 DEF IdsInv, Matches
  <2>9. CountInv'
    BY <1>1, <2>3 DEF CountInv
  <2>10. QED
    BY <2>6, <2>7, <2>8, <2>9
<1>5. CASE call[Builder].builds = "table"
  <2>1. LeaveC(Builder, 0, Len(pl.tables)) /\ pl' = [pl EXCEPT !.tables = Append(@, {})]
    BY <1>5 DEF BuildLeaveC, Appended
  <2>2. /\ call'[Builder].at = "release" /\ call'[Builder].said = Nil
        /\ call'[Builder].id = Len(pl.tables) /\ call'[Builder].builds = "table"
        /\ call'[Builder].reports \in {"rc", "bare"}
    BY <1>1, <1>5, <2>1, LeaveCBuilder
  <2>3. pl.tables \in Seq(FiniteSubsets)
    BY DEF ViewTypeOK
  <2>4. pl'.tables = Append(pl.tables, {}) /\ pl'.ins = pl.ins /\ pl'.outs = pl.outs
    BY <2>1 DEF ViewTypeOK
  <2>5. pl'.tables \in Seq(FiniteSubsets) /\ Total(Sizes(pl'.tables)) = Total(Sizes(pl.tables))
        /\ Len(pl'.tables) = Len(pl.tables) + 1
    BY <2>3, <2>4, CountsAppend
  <2>6. ViewTypeOK'
    BY <1>1, <2>1, <2>4, <2>5 DEF ViewTypeOK
  <2>7. /\ \A a \in {"in", "out", "table"} : ~Adding(a) /\ (Adding(a)' <=> a = "table")
        /\ BuilderInv' /\ NoneInv'
    BY <1>1, <1>5, <2>2, AddingOne
  <2>8. IdsInv'
    BY <1>1, <2>2, <2>4, <2>5, <2>7 DEF IdsInv, Matches
  <2>9. CountInv'
    BY <1>1, <2>4, <2>5 DEF CountInv
  <2>10. QED
    BY <2>6, <2>7, <2>8, <2>9
<1>6. QED
  BY <1>1, <1>2, <1>3, <1>4, <1>5

(* An id that is returned extends the ids of its list. *)
LEMMA MatchesAppend ==
  ASSUME NEW v \in Seq(Nat), NEW x, x = Len(v), \A i \in 1..Len(v) : v[i] = i - 1
  PROVE  /\ Append(v, x) \in Seq(Nat) /\ Len(Append(v, x)) = Len(v) + 1
         /\ \A i \in 1..Len(Append(v, x)) : Append(v, x)[i] = i - 1
<1>1. Len(v) \in Nat
  OBVIOUS
<1>2. /\ Append(v, x) \in Seq(Nat) /\ Len(Append(v, x)) = Len(v) + 1
      /\ Append(v, x)[Len(v) + 1] = x
      /\ \A i \in 1..Len(v) : Append(v, x)[i] = v[i]
  BY <1>1
<1>3. ASSUME NEW i \in 1..(Len(v) + 1) PROVE Append(v, x)[i] = i - 1
  <2>1. CASE i = Len(v) + 1
    BY <1>1, <1>2, <2>1
  <2>2. CASE i # Len(v) + 1
    BY <1>1, <1>2, <2>2
  <2>3. QED
    BY <2>1, <2>2
<1>4. QED
  BY <1>2, <1>3

(* The function returns: the owner learns of what was added, or of nothing. *)
LEMMA ViewReturn ==
  ASSUME LibTypeOK, ViewInv, BuildReturn
  PROVE  ViewInv'
<1> USE DEF ViewInv
<1> DEFINE c == call[Builder]
<1>1. /\ c.at = "release" /\ c.reports \in {"rc", "bare"} /\ UNCHANGED <<pl, ran>>
      /\ view' = Returned(c)
      /\ c.builds \in {"pipeline", "in", "out", "table"}
      /\ (c.builds = "pipeline") = ~view.live
  BY DEF BuildReturn, Release, BuilderInv, Busy
<1>2. call' = [call EXCEPT ![Builder] = Done(c)]
  BY <1>1 DEF BuildReturn, Release, Asks
<1>3. call'[Builder].at = "done"
  <2>1. call'[Builder] = Done(c)
    BY <1>2, BuilderAssumption, CallExcept
  <2>2. QED
    BY <2>1 DEF Done
<1>4. BuilderInv' /\ \A b \in {"in", "out", "table"} : ~Adding(b)'
  BY <1>3 DEF BuilderInv, Busy, Adding
<1>5. CASE c.builds = "pipeline"
  <2>1. view' = [view EXCEPT !.live = c.said = Nil]
    BY <1>1, <1>5 DEF Returned
  <2>2. /\ view' \in [live : BOOLEAN, ins : Seq(Nat), outs : Seq(Nat), tables : Seq(Nat),
                      entries : Nat, packets : Nat, checked : BOOLEAN]
        /\ view'.ins = view.ins /\ view'.outs = view.outs /\ view'.tables = view.tables
        /\ view'.entries = view.entries /\ view'.packets = view.packets
    BY <2>1 DEF ViewTypeOK
  <2>3. \A b \in {"in", "out", "table"} : ~Adding(b)
    BY <1>5 DEF Adding
  <2>4. ViewTypeOK' /\ NoneInv' /\ CountInv'
    BY <1>1, <1>5, <2>2 DEF ViewTypeOK, NoneInv, CountInv
  <2>5. IdsInv'
    BY <1>1, <1>4, <2>2, <2>3 DEF IdsInv, Matches
  <2>6. QED
    BY <1>4, <2>4, <2>5
<1>6. CASE c.builds # "pipeline" /\ c.said # Nil
  <2>1. UNCHANGED view
    BY <1>1, <1>6 DEF Returned
  <2>2. \A b \in {"in", "out", "table"} : ~Adding(b)
    BY <1>6 DEF Adding
  <2>3. QED
    BY <1>1, <1>4, <2>1, <2>2, ViewCall
<1>7. CASE c.builds = "in" /\ c.said = Nil
  <2>1. view' = [view EXCEPT !.ins = Append(@, c.id), !.checked = FALSE]
    BY <1>1, <1>7 DEF Returned, ListOf
  <2>2. view.ins \in Seq(Nat) /\ c.id = Len(view.ins) /\ Len(pl.ins) = Len(view.ins) + 1
        /\ \A i \in 1..Len(view.ins) : view.ins[i] = i - 1
    BY <1>1, <1>7 DEF ViewTypeOK, IdsInv, Matches, Adding
  <2>3. /\ Append(view.ins, c.id) \in Seq(Nat)
        /\ Len(Append(view.ins, c.id)) = Len(view.ins) + 1
        /\ \A i \in 1..Len(Append(view.ins, c.id)) : Append(view.ins, c.id)[i] = i - 1
    BY <2>2, MatchesAppend
  <2>4. /\ view' \in [live : BOOLEAN, ins : Seq(Nat), outs : Seq(Nat), tables : Seq(Nat),
                      entries : Nat, packets : Nat, checked : BOOLEAN]
        /\ view'.ins = Append(view.ins, c.id) /\ view'.outs = view.outs
        /\ view'.tables = view.tables /\ view'.live = view.live
        /\ view'.entries = view.entries /\ view'.packets = view.packets
    BY <2>1, <2>3 DEF ViewTypeOK
  <2>5. ViewTypeOK' /\ NoneInv' /\ CountInv'
    BY <1>1, <1>7, <2>4 DEF ViewTypeOK, NoneInv, CountInv
  <2>6. IdsInv'
    <3>1. ~Adding("out") /\ ~Adding("table")
      BY <1>7 DEF Adding
    <3>2. Matches("in", view.ins, pl.ins)'
      BY <1>1, <1>4, <2>2, <2>3, <2>4 DEF Matches
    <3>3. Matches("out", view.outs, pl.outs)' /\ Matches("table", view.tables, pl.tables)'
      <4>1. /\ Len(pl.outs) = Len(view.outs) /\ Len(pl.tables) = Len(view.tables)
            /\ \A i \in 1..Len(view.outs) : view.outs[i] = i - 1
            /\ \A i \in 1..Len(view.tables) : view.tables[i] = i - 1
        BY <3>1 DEF IdsInv, Matches
      <4>2. pl'.outs = pl.outs /\ pl'.tables = pl.tables
        BY <1>1
      <4>3. QED
        BY <1>4, <2>4, <4>1, <4>2 DEF Matches
    <3>4. QED
      BY <3>2, <3>3 DEF IdsInv
  <2>7. QED
    BY <1>4, <2>5, <2>6
<1>8. CASE c.builds = "out" /\ c.said = Nil
  <2>1. view' = [view EXCEPT !.outs = Append(@, c.id), !.checked = FALSE]
    BY <1>1, <1>8 DEF Returned, ListOf
  <2>2. view.outs \in Seq(Nat) /\ c.id = Len(view.outs) /\ Len(pl.outs) = Len(view.outs) + 1
        /\ \A i \in 1..Len(view.outs) : view.outs[i] = i - 1
    BY <1>1, <1>8 DEF ViewTypeOK, IdsInv, Matches, Adding
  <2>3. /\ Append(view.outs, c.id) \in Seq(Nat)
        /\ Len(Append(view.outs, c.id)) = Len(view.outs) + 1
        /\ \A i \in 1..Len(Append(view.outs, c.id)) : Append(view.outs, c.id)[i] = i - 1
    BY <2>2, MatchesAppend
  <2>4. /\ view' \in [live : BOOLEAN, ins : Seq(Nat), outs : Seq(Nat), tables : Seq(Nat),
                      entries : Nat, packets : Nat, checked : BOOLEAN]
        /\ view'.outs = Append(view.outs, c.id) /\ view'.ins = view.ins
        /\ view'.tables = view.tables /\ view'.live = view.live
        /\ view'.entries = view.entries /\ view'.packets = view.packets
    BY <2>1, <2>3 DEF ViewTypeOK
  <2>5. ViewTypeOK' /\ NoneInv' /\ CountInv'
    BY <1>1, <1>8, <2>4 DEF ViewTypeOK, NoneInv, CountInv
  <2>6. IdsInv'
    BY <1>1, <1>4, <1>8, <2>2, <2>3, <2>4 DEF IdsInv, Matches, Adding
  <2>7. QED
    BY <1>4, <2>5, <2>6
<1>9. CASE c.builds = "table" /\ c.said = Nil
  <2>1. view' = [view EXCEPT !.tables = Append(@, c.id), !.checked = FALSE]
    BY <1>1, <1>9 DEF Returned, ListOf
  <2>2. /\ view.tables \in Seq(Nat) /\ c.id = Len(view.tables)
        /\ Len(pl.tables) = Len(view.tables) + 1
        /\ \A i \in 1..Len(view.tables) : view.tables[i] = i - 1
    BY <1>1, <1>9 DEF ViewTypeOK, IdsInv, Matches, Adding
  <2>3. /\ Append(view.tables, c.id) \in Seq(Nat)
        /\ Len(Append(view.tables, c.id)) = Len(view.tables) + 1
        /\ \A i \in 1..Len(Append(view.tables, c.id)) : Append(view.tables, c.id)[i] = i - 1
    BY <2>2, MatchesAppend
  <2>4. /\ view' \in [live : BOOLEAN, ins : Seq(Nat), outs : Seq(Nat), tables : Seq(Nat),
                      entries : Nat, packets : Nat, checked : BOOLEAN]
        /\ view'.tables = Append(view.tables, c.id) /\ view'.ins = view.ins
        /\ view'.outs = view.outs /\ view'.live = view.live
        /\ view'.entries = view.entries /\ view'.packets = view.packets
    BY <2>1, <2>3 DEF ViewTypeOK
  <2>5. ViewTypeOK' /\ NoneInv' /\ CountInv'
    BY <1>1, <1>9, <2>4 DEF ViewTypeOK, NoneInv, CountInv
  <2>6. IdsInv'
    BY <1>1, <1>4, <1>9, <2>2, <2>3, <2>4 DEF IdsInv, Matches, Adding
  <2>7. QED
    BY <1>4, <2>5, <2>6
<1>10. QED
  BY <1>1, <1>5, <1>6, <1>7, <1>8, <1>9

-----------------------------------------------------------------------------
(* Using the pipeline. *)

(* Between two calls nothing is on its way: a step that keeps the lists as  *)
(* long as they are only has to keep the counts right.                      *)
LEMMA ViewUse ==
  ASSUME ViewInv, AtRest, view.live, UNCHANGED call, ViewTypeOK', CountInv',
         view'.live = view.live,
         view'.ins = view.ins, view'.outs = view.outs, view'.tables = view.tables,
         Len(pl'.ins) = Len(pl.ins), Len(pl'.outs) = Len(pl.outs),
         Len(pl'.tables) = Len(pl.tables)
  PROVE  ViewInv'
<1>1. BuilderInv' /\ NoneInv' /\ \A b \in {"in", "out", "table"} : ~Adding(b) /\ ~Adding(b)'
  BY DEF AtRest, BuilderInv, Busy, NoneInv, Adding
<1>2. IdsInv'
  BY <1>1 DEF ViewInv, IdsInv, Matches
<1>3. QED
  BY <1>1, <1>2 DEF ViewInv

(* A port of a list is replaced: what it has read counts anew. *)
LEMMA PortChange ==
  ASSUME NEW q \in Seq(PortSet), NEW i \in 1..Len(q), NEW x \in PortSet
  PROVE  /\ [q EXCEPT ![i] = x] \in Seq(PortSet) /\ Len([q EXCEPT ![i] = x]) = Len(q)
         /\ Total(Reads([q EXCEPT ![i] = x])) + q[i].n = Total(Reads(q)) + x.n
<1>1. /\ [q EXCEPT ![i] = x] \in Seq(PortSet) /\ Len([q EXCEPT ![i] = x]) = Len(q)
      /\ \A j \in 1..Len(q) : [q EXCEPT ![i] = x][j] = IF j = i THEN x ELSE q[j]
  OBVIOUS
<1>2. PICK r \in Seq(PortSet) : r = [q EXCEPT ![i] = x]
  BY <1>1
<1>3. Len(r) = Len(q) /\ \A j \in 1..Len(q) : r[j] = IF j = i THEN x ELSE q[j]
  BY <1>1, <1>2
<1>4. /\ Reads(q) \in Seq(Nat) /\ Len(Reads(q)) = Len(q)
      /\ \A j \in 1..Len(q) : Reads(q)[j] = q[j].n
      /\ Reads(r) \in Seq(Nat) /\ Len(Reads(r)) = Len(r)
      /\ \A j \in 1..Len(r) : Reads(r)[j] = r[j].n
  BY ReadsSeq
<1>5. /\ Len(Reads(r)) = Len(Reads(q)) /\ i \in 1..Len(Reads(q))
      /\ Reads(q)[i] = q[i].n /\ Reads(r)[i] = x.n
      /\ \A j \in 1..Len(Reads(q)) : j # i => Reads(r)[j] = Reads(q)[j]
  BY <1>3, <1>4
<1>6. Total(Reads(r)) + Reads(q)[i] = Total(Reads(q)) + Reads(r)[i]
  BY <1>4, <1>5, TotalChange
<1>7. QED
  BY <1>1, <1>2, <1>5, <1>6

(* A table of a list is replaced. *)
LEMMA TableChange ==
  ASSUME NEW q \in Seq(FiniteSubsets), NEW i \in 1..Len(q), NEW x \in FiniteSubsets
  PROVE  /\ [q EXCEPT ![i] = x] \in Seq(FiniteSubsets) /\ Len([q EXCEPT ![i] = x]) = Len(q)
         /\ Total(Sizes([q EXCEPT ![i] = x])) + Cardinality(q[i])
              = Total(Sizes(q)) + Cardinality(x)
<1>1. /\ [q EXCEPT ![i] = x] \in Seq(FiniteSubsets) /\ Len([q EXCEPT ![i] = x]) = Len(q)
      /\ \A j \in 1..Len(q) : [q EXCEPT ![i] = x][j] = IF j = i THEN x ELSE q[j]
  OBVIOUS
<1>2. PICK r \in Seq(FiniteSubsets) : r = [q EXCEPT ![i] = x]
  BY <1>1
<1>3. Len(r) = Len(q) /\ \A j \in 1..Len(q) : r[j] = IF j = i THEN x ELSE q[j]
  BY <1>1, <1>2
<1>4. /\ Sizes(q) \in Seq(Nat) /\ Len(Sizes(q)) = Len(q)
      /\ \A j \in 1..Len(q) : Sizes(q)[j] = Cardinality(q[j])
      /\ Sizes(r) \in Seq(Nat) /\ Len(Sizes(r)) = Len(r)
      /\ \A j \in 1..Len(r) : Sizes(r)[j] = Cardinality(r[j])
  BY SizesSeq
<1>5. /\ Len(Sizes(r)) = Len(Sizes(q)) /\ i \in 1..Len(Sizes(q))
      /\ Sizes(q)[i] = Cardinality(q[i]) /\ Sizes(r)[i] = Cardinality(x)
      /\ \A j \in 1..Len(Sizes(q)) : j # i => Sizes(r)[j] = Sizes(q)[j]
  BY <1>3, <1>4
<1>6. Total(Sizes(r)) + Sizes(q)[i] = Total(Sizes(q)) + Sizes(r)[i]
  BY <1>4, <1>5, TotalChange
<1>7. QED
  BY <1>1, <1>2, <1>5, <1>6

(* A table holds no more entries than all of them together. *)
LEMMA TotalBounds ==
  ASSUME NEW q \in Seq(FiniteSubsets), NEW i \in 1..Len(q)
  PROVE  Total(Sizes(q)) >= Cardinality(q[i])
<1>1. {} \in FiniteSubsets /\ Cardinality({}) = 0
  BY FS_EmptySet DEF FiniteSubsets
<1>2. PICK r \in Seq(FiniteSubsets) : r = [q EXCEPT ![i] = {}]
  BY <1>1, TableChange
<1>3. Total(Sizes(r)) + Cardinality(q[i]) = Total(Sizes(q)) + 0
  BY <1>1, <1>2, TableChange
<1>4. Sizes(q) \in Seq(Nat) /\ Sizes(r) \in Seq(Nat)
  BY SizesSeq
<1>5. IsFiniteSet(q[i])
  BY DEF FiniteSubsets
<1>6. PICK a \in Nat, b \in Nat, c \in Nat :
        a = Total(Sizes(r)) /\ b = Total(Sizes(q)) /\ c = Cardinality(q[i])
  BY <1>4, <1>5, TotalNat, FS_CardinalityType
<1>7. a + c = b
  BY <1>3, <1>6
<1>8. QED
  BY <1>6, <1>7

(* The ports at the places in D read once more. *)
LEMMA ReadsGrow ==
  ASSUME NEW q \in Seq(PortSet), NEW r \in Seq(PortSet), Len(r) = Len(q),
         NEW D \in SUBSET (1..Len(q)),
         \A i \in 1..Len(q) : r[i].n = IF i \in D THEN q[i].n + 1 ELSE q[i].n
  PROVE  Total(Reads(r)) = Total(Reads(q)) + Cardinality(D)
<1>1. /\ Reads(q) \in Seq(Nat) /\ Len(Reads(q)) = Len(q)
      /\ \A j \in 1..Len(q) : Reads(q)[j] = q[j].n
      /\ Reads(r) \in Seq(Nat) /\ Len(Reads(r)) = Len(r)
      /\ \A j \in 1..Len(r) : Reads(r)[j] = r[j].n
  BY ReadsSeq
<1>2. PICK s \in Seq(Nat), u \in Seq(Nat) : s = Reads(q) /\ u = Reads(r)
  BY <1>1
<1>3. Len(s) = Len(q) /\ Len(u) = Len(q)
  BY <1>1, <1>2
<1>4. ASSUME NEW n \in 1..Len(s) PROVE u[n] = IF n \in D THEN s[n] + 1 ELSE s[n]
  <2>1. n \in 1..Len(q) /\ u[n] = r[n].n /\ s[n] = q[n].n
    BY <1>1, <1>2, <1>3
  <2>2. QED
    BY <2>1
<1>5. Total(u) = Total(s) + Cardinality(D)
  BY <1>3, <1>4, TotalGrow
<1>6. QED
  BY <1>2, <1>5

(* Every enabled port of a list reads once more. *)
LEMMA PortsRun ==
  ASSUME NEW q \in Seq(PortSet), NEW D, D = {i \in DOMAIN q : q[i].on},
         NEW r, r = [i \in DOMAIN q |-> IF i \in D THEN [q[i] EXCEPT !.n = @ + 1] ELSE q[i]]
  PROVE  /\ r \in Seq(PortSet) /\ Len(r) = Len(q) /\ Cardinality(D) \in Nat
         /\ Total(Reads(r)) = Total(Reads(q)) + Cardinality(D)
<1>1. /\ DOMAIN q = 1..Len(q) /\ Len(q) \in Nat /\ \A i \in 1..Len(q) : q[i] \in PortSet
      /\ D \in SUBSET (1..Len(q))
  OBVIOUS
<1>2. \A p \in PortSet : /\ p.n \in Nat /\ [p EXCEPT !.n = @ + 1] \in PortSet
                         /\ [p EXCEPT !.n = @ + 1].n = p.n + 1
  BY DEF PortSet
<1>3. \A i \in 1..Len(q) : r[i] = IF i \in D THEN [q[i] EXCEPT !.n = @ + 1] ELSE q[i]
  BY <1>1
<1>4. \A i \in 1..Len(q) : r[i] \in PortSet /\ r[i].n = IF i \in D THEN q[i].n + 1 ELSE q[i].n
  BY <1>1, <1>2, <1>3
<1>5. r \in Seq(PortSet) /\ Len(r) = Len(q)
  BY <1>1, <1>4
<1>6. Total(Reads(r)) = Total(Reads(q)) + Cardinality(D)
  BY <1>1, <1>4, <1>5, ReadsGrow
<1>7. Cardinality(D) \in Nat
  <2>1. IsFiniteSet(1..Len(q))
    BY <1>1, FS_Interval
  <2>2. IsFiniteSet(D)
    BY <1>1, <2>1, FS_Subset
  <2>3. QED
    BY <2>2, FS_CardinalityType
<1>8. QED
  BY <1>5, <1>6, <1>7

(* An input port is connected, enabled or disabled, or its counter cleared. *)
LEMMA ViewPort ==
  ASSUME ViewInv, NEW i \in DOMAIN view.ins,
         \/ Enable(i) \/ Disable(i)
         \/ \E t \in DOMAIN view.tables : ConnectToTable(i, t)
         \/ \E clear \in BOOLEAN : StatsRead(i, clear)
  PROVE  ViewInv'
<1> USE DEF ViewInv
<1>1. /\ AtRest /\ view.live /\ UNCHANGED call /\ UNCHANGED ran
      /\ view \in [live : BOOLEAN, ins : Seq(Nat), outs : Seq(Nat), tables : Seq(Nat),
                   entries : Nat, packets : Nat, checked : BOOLEAN]
      /\ pl \in [live : BOOLEAN, ins : Seq(PortSet), outs : Seq({"out"}),
                 tables : Seq(FiniteSubsets)]
  BY DEF Enable, Disable, ConnectToTable, StatsRead, Using, InLib, callVars, ViewTypeOK
<1>2. i \in 1..Len(pl.ins)
  <2>1. ~Adding("in")
    BY <1>1 DEF AtRest, Adding
  <2>2. DOMAIN view.ins = 1..Len(view.ins)
    BY <1>1
  <2>3. QED
    BY <2>1, <2>2 DEF IdsInv, Matches
<1>3. pl.ins[i] \in PortSet
  BY <1>1, <1>2
<1>4. ASSUME NEW x \in PortSet, pl' = [pl EXCEPT !.ins[i] = x]
      PROVE  /\ pl' \in [live : BOOLEAN, ins : Seq(PortSet), outs : Seq({"out"}),
                         tables : Seq(FiniteSubsets)]
             /\ Len(pl'.ins) = Len(pl.ins) /\ pl'.outs = pl.outs /\ pl'.tables = pl.tables
             /\ Total(Reads(pl'.ins)) + pl.ins[i].n = Total(Reads(pl.ins)) + x.n
  <2>1. pl'.ins = [pl.ins EXCEPT ![i] = x] /\ pl'.outs = pl.outs /\ pl'.tables = pl.tables
    BY <1>1, <1>4
  <2>2. /\ pl'.ins \in Seq(PortSet) /\ Len(pl'.ins) = Len(pl.ins)
        /\ Total(Reads(pl'.ins)) + pl.ins[i].n = Total(Reads(pl.ins)) + x.n
    <3>1. PICK q \in Seq(PortSet) : q = pl.ins /\ i \in 1..Len(q)
      BY <1>1, <1>2
    <3>2. /\ [q EXCEPT ![i] = x] \in Seq(PortSet) /\ Len([q EXCEPT ![i] = x]) = Len(q)
          /\ Total(Reads([q EXCEPT ![i] = x])) + q[i].n = Total(Reads(q)) + x.n
      BY <1>4, <3>1, PortChange
    <3>3. QED
      BY <2>1, <3>1, <3>2
  <2>3. QED
    BY <1>1, <1>4, <2>1, <2>2
<1>5. /\ Total(Reads(pl.ins)) \in Nat /\ pl.ins[i].n \in Nat
      /\ view.packets \in Nat
  <2>1. Reads(pl.ins) \in Seq(Nat)
    BY <1>1, ReadsSeq
  <2>2. QED
    BY <1>1, <1>3, <2>1, TotalNat DEF PortSet
<1>6. ASSUME NEW x \in PortSet, x.n = pl.ins[i].n, pl' = [pl EXCEPT !.ins[i] = x],
             UNCHANGED view
      PROVE  ViewInv'
  <2>1. /\ pl' \in [live : BOOLEAN, ins : Seq(PortSet), outs : Seq({"out"}),
                    tables : Seq(FiniteSubsets)]
        /\ Len(pl'.ins) = Len(pl.ins) /\ pl'.outs = pl.outs /\ pl'.tables = pl.tables
        /\ Total(Reads(pl'.ins)) + x.n = Total(Reads(pl.ins)) + x.n
    BY <1>4, <1>6
  <2>2. Total(Reads(pl'.ins)) = Total(Reads(pl.ins))
    <3>1. Reads(pl'.ins) \in Seq(Nat)
      BY <2>1, ReadsSeq
    <3>2. Total(Reads(pl'.ins)) \in Nat
      BY <3>1, TotalNat
    <3>3. QED
      BY <1>5, <1>6, <2>1, <3>2
  <2>3. ViewTypeOK' /\ CountInv'
    BY <1>1, <1>6, <2>1, <2>2 DEF ViewTypeOK, CountInv
  <2>4. QED
    BY <1>1, <1>6, <2>1, <2>3, ViewUse
<1>7. CASE Enable(i) \/ Disable(i)
  <2>1. PICK b \in BOOLEAN : pl' = [pl EXCEPT !.ins[i] = [@ EXCEPT !.on = b]] /\ UNCHANGED view
    BY <1>7 DEF Enable, Disable
  <2>2. PICK x \in PortSet : x = [pl.ins[i] EXCEPT !.on = b] /\ x.n = pl.ins[i].n
    <3>1. \A p \in PortSet : [p EXCEPT !.on = b] \in PortSet /\ [p EXCEPT !.on = b].n = p.n
      BY DEF PortSet
    <3>2. QED
      BY <1>3, <3>1
  <2>3. pl' = [pl EXCEPT !.ins[i] = x]
    BY <2>1, <2>2
  <2>4. QED
    BY <1>6, <2>1, <2>2, <2>3
<1>8. ASSUME NEW t \in DOMAIN view.tables, ConnectToTable(i, t) PROVE ViewInv'
  <2>1. pl' = [pl EXCEPT !.ins[i] = [@ EXCEPT !.table = {t}]] /\ UNCHANGED view
    BY <1>8 DEF ConnectToTable
  <2>2. {t} \in SUBSET Nat
    BY <1>1
  <2>3. PICK x \in PortSet : x = [pl.ins[i] EXCEPT !.table = {t}] /\ x.n = pl.ins[i].n
    BY <1>3, <2>2 DEF PortSet
  <2>4. pl' = [pl EXCEPT !.ins[i] = x]
    BY <2>1, <2>3
  <2>5. QED
    BY <1>6, <2>1, <2>3, <2>4
<1>9. ASSUME StatsRead(i, FALSE) PROVE ViewInv'
  <2>1. UNCHANGED <<pl, view, ran>> /\ UNCHANGED call
    BY <1>1, <1>9 DEF StatsRead
  <2>2. QED
    BY <2>1, ViewFrame
<1>10. ASSUME StatsRead(i, TRUE) PROVE ViewInv'
  <2>1. /\ pl' = [pl EXCEPT !.ins[i] = [@ EXCEPT !.n = 0]]
        /\ view' = [view EXCEPT !.packets = @ + pl.ins[i].n]
    BY <1>10 DEF StatsRead
  <2>2. PICK x \in PortSet : x = [pl.ins[i] EXCEPT !.n = 0] /\ x.n = 0
    <3>1. \A p \in PortSet : [p EXCEPT !.n = 0] \in PortSet /\ [p EXCEPT !.n = 0].n = 0
      BY DEF PortSet
    <3>2. QED
      BY <1>3, <3>1
  <2>3. pl' = [pl EXCEPT !.ins[i] = x]
    BY <2>1, <2>2
  <2>4. /\ pl' \in [live : BOOLEAN, ins : Seq(PortSet), outs : Seq({"out"}),
                    tables : Seq(FiniteSubsets)]
        /\ Len(pl'.ins) = Len(pl.ins) /\ pl'.outs = pl.outs /\ pl'.tables = pl.tables
        /\ Total(Reads(pl'.ins)) + pl.ins[i].n = Total(Reads(pl.ins)) + 0
    BY <1>4, <2>2, <2>3
  <2>5. /\ view' \in [live : BOOLEAN, ins : Seq(Nat), outs : Seq(Nat), tables : Seq(Nat),
                      entries : Nat, packets : Nat, checked : BOOLEAN]
        /\ view'.packets = view.packets + pl.ins[i].n /\ view'.entries = view.entries
        /\ view'.live = view.live
        /\ view'.ins = view.ins /\ view'.outs = view.outs /\ view'.tables = view.tables
    <3>1. PICK n \in Nat : n = pl.ins[i].n
      BY <1>5
    <3>2. view' = [view EXCEPT !.packets = view.packets + n] /\ view.packets + n \in Nat
      BY <1>5, <2>1, <3>1
    <3>3. QED
      BY <1>1, <3>1, <3>2
  <2>6. view'.packets + Total(Reads(pl'.ins)) = view.packets + Total(Reads(pl.ins))
    <3>1. Reads(pl'.ins) \in Seq(Nat)
      BY <2>4, ReadsSeq
    <3>2. Total(Reads(pl'.ins)) \in Nat
      BY <3>1, TotalNat
    <3>3. PICK a \in Nat, b \in Nat, n \in Nat, p \in Nat :
            /\ a = Total(Reads(pl'.ins)) /\ b = Total(Reads(pl.ins)) /\ n = pl.ins[i].n
            /\ p = view.packets
      BY <1>5, <3>2
    <3>4. a + n = b + 0
      BY <2>4, <3>3
    <3>5. (p + n) + a = p + b
      BY <3>4
    <3>6. QED
      BY <2>5, <3>3, <3>5
  <2>7. ViewTypeOK' /\ CountInv'
    BY <1>1, <2>4, <2>5, <2>6 DEF ViewTypeOK, CountInv
  <2>8. QED
    BY <1>1, <2>4, <2>5, <2>7, ViewUse
<1>11. QED
  BY <1>7, <1>8, <1>9, <1>10

(* An entry is added to a table or deleted from it. *)
LEMMA ViewTable ==
  ASSUME ViewInv, NEW t \in DOMAIN view.tables, NEW k \in Keys,
         TableEntryAdd(t, k) \/ TableEntryDelete(t, k)
  PROVE  ViewInv'
<1> USE DEF ViewInv
<1>1. /\ AtRest /\ view.live /\ UNCHANGED call /\ UNCHANGED ran
      /\ view \in [live : BOOLEAN, ins : Seq(Nat), outs : Seq(Nat), tables : Seq(Nat),
                   entries : Nat, packets : Nat, checked : BOOLEAN]
      /\ pl \in [live : BOOLEAN, ins : Seq(PortSet), outs : Seq({"out"}),
                 tables : Seq(FiniteSubsets)]
  BY DEF TableEntryAdd, TableEntryDelete, Using, InLib, callVars, ViewTypeOK
<1>2. PICK q \in Seq(FiniteSubsets) : q = pl.tables /\ t \in 1..Len(q)
  <2>1. ~Adding("table")
    BY <1>1 DEF AtRest, Adding
  <2>2. DOMAIN view.tables = 1..Len(view.tables)
    BY <1>1
  <2>3. QED
    BY <1>1, <2>1, <2>2 DEF IdsInv, Matches
<1>3. PICK T \in FiniteSubsets : T = q[t]
  BY <1>2
<1>4. /\ IsFiniteSet(T) /\ Cardinality(T) \in Nat
      /\ T \cup {k} \in FiniteSubsets /\ T \ {k} \in FiniteSubsets
      /\ Cardinality(T \cup {k}) = IF k \in T THEN Cardinality(T) ELSE Cardinality(T) + 1
      /\ Cardinality(T \ {k}) = IF k \in T THEN Cardinality(T) - 1 ELSE Cardinality(T)
  <2>1. IsFiniteSet(T) /\ T \in SUBSET Keys
    BY DEF FiniteSubsets
  <2>2. /\ IsFiniteSet(T \cup {k}) /\ IsFiniteSet(T \ {k}) /\ Cardinality(T) \in Nat
        /\ Cardinality(T \cup {k}) = IF k \in T THEN Cardinality(T) ELSE Cardinality(T) + 1
        /\ Cardinality(T \ {k}) = IF k \in T THEN Cardinality(T) - 1 ELSE Cardinality(T)
    BY <2>1, FS_AddElement, FS_RemoveElement, FS_CardinalityType
  <2>3. T \cup {k} \in SUBSET Keys /\ T \ {k} \in SUBSET Keys
    BY <2>1
  <2>4. QED
    BY <2>1, <2>2, <2>3 DEF FiniteSubsets
<1>5. PICK c \in Nat, n \in Nat, e \in Nat :
        c = Cardinality(T) /\ n = Total(Sizes(q)) /\ e = view.entries /\ e = n
  <2>1. Sizes(q) \in Seq(Nat)
    BY SizesSeq
  <2>2. Total(Sizes(q)) \in Nat
    BY <2>1, TotalNat
  <2>3. QED
    BY <1>1, <1>2, <1>4, <2>2 DEF CountInv
<1>6. ASSUME NEW x \in FiniteSubsets, pl' = [pl EXCEPT !.tables[t] = x], NEW d \in Nat,
             Cardinality(x) \in Nat, view' = [view EXCEPT !.entries = d],
             d + c = e + Cardinality(x)
      PROVE  ViewInv'
  <2>1. /\ [q EXCEPT ![t] = x] \in Seq(FiniteSubsets) /\ Len([q EXCEPT ![t] = x]) = Len(q)
        /\ Total(Sizes([q EXCEPT ![t] = x])) + Cardinality(q[t])
             = Total(Sizes(q)) + Cardinality(x)
    BY <1>2, <1>6, TableChange
  <2>2. PICK r \in Seq(FiniteSubsets) : r = [q EXCEPT ![t] = x]
    BY <2>1
  <2>3. pl'.tables = r /\ pl'.ins = pl.ins /\ pl'.outs = pl.outs
        /\ pl' \in [live : BOOLEAN, ins : Seq(PortSet), outs : Seq({"out"}),
                    tables : Seq(FiniteSubsets)]
    BY <1>1, <1>2, <1>6, <2>2
  <2>4. /\ view' \in [live : BOOLEAN, ins : Seq(Nat), outs : Seq(Nat), tables : Seq(Nat),
                      entries : Nat, packets : Nat, checked : BOOLEAN]
        /\ view'.entries = d /\ view'.packets = view.packets /\ view'.live = view.live
        /\ view'.ins = view.ins /\ view'.outs = view.outs /\ view'.tables = view.tables
    BY <1>1, <1>6
  <2>5. Total(Sizes(r)) = d
    <3>1. Sizes(r) \in Seq(Nat)
      BY SizesSeq
    <3>2. PICK m \in Nat, y \in Nat : m = Total(Sizes(r)) /\ y = Cardinality(x)
      BY <1>6, <3>1, TotalNat
    <3>3. m + c = n + y
      BY <1>3, <1>5, <2>1, <2>2, <3>2
    <3>4. d + c = e + y
      BY <1>6, <3>2
    <3>5. e = n
      BY <1>5
    <3>6. m = d
      BY <3>3, <3>4, <3>5
    <3>7. QED
      BY <3>2, <3>6
  <2>6. ViewTypeOK' /\ CountInv'
    BY <1>1, <2>3, <2>4, <2>5 DEF ViewTypeOK, CountInv
  <2>7. Len(pl'.tables) = Len(pl.tables)
    BY <1>2, <2>1, <2>2, <2>3
  <2>8. QED
    BY <1>1, <2>3, <2>4, <2>6, <2>7, ViewUse
<1>7. CASE TableEntryAdd(t, k)
  <2>1. /\ pl' = [pl EXCEPT !.tables[t] = T \cup {k}]
        /\ view' = [view EXCEPT !.entries = e + IF k \in T THEN 0 ELSE 1]
    BY <1>2, <1>3, <1>5, <1>7 DEF TableEntryAdd
  <2>2. PICK d \in Nat : d = e + IF k \in T THEN 0 ELSE 1
    OBVIOUS
  <2>3. d + c = e + Cardinality(T \cup {k}) /\ Cardinality(T \cup {k}) \in Nat
    BY <1>4, <1>5, <2>2
  <2>4. QED
    BY <1>4, <1>6, <2>1, <2>2, <2>3
<1>8. CASE TableEntryDelete(t, k)
  <2>1. /\ pl' = [pl EXCEPT !.tables[t] = T \ {k}]
        /\ view' = [view EXCEPT !.entries = e - IF k \in T THEN 1 ELSE 0]
    BY <1>2, <1>3, <1>5, <1>8 DEF TableEntryDelete
  <2>2. Cardinality(T \ {k}) \in Nat
    BY <1>4, FS_CardinalityType DEF FiniteSubsets
  <2>3. k \in T => e >= 1
    <3>1. SUFFICES ASSUME k \in T PROVE e >= 1
      OBVIOUS
    <3>2. c >= 1
      BY <1>4, <1>5, <2>2, <3>1
    <3>3. n >= c
      BY <1>2, <1>3, <1>5, TotalBounds
    <3>4. QED
      BY <1>5, <3>2, <3>3
  <2>4. PICK d \in Nat : d = e - IF k \in T THEN 1 ELSE 0
    BY <2>3
  <2>5. d + c = e + Cardinality(T \ {k})
    BY <1>4, <1>5, <2>4
  <2>6. QED
    BY <1>4, <1>6, <2>1, <2>2, <2>4, <2>5
<1>9. QED
  BY <1>7, <1>8

(* Check looks, Run reads the enabled ports, Free forgets everything. *)
LEMMA ViewWhole ==
  ASSUME ViewInv, Check \/ Run \/ FreePipeline
  PROVE  ViewInv'
<1> USE DEF ViewInv
<1>1. /\ AtRest /\ view.live /\ UNCHANGED call
      /\ view \in [live : BOOLEAN, ins : Seq(Nat), outs : Seq(Nat), tables : Seq(Nat),
                   entries : Nat, packets : Nat, checked : BOOLEAN]
      /\ pl \in [live : BOOLEAN, ins : Seq(PortSet), outs : Seq({"out"}),
                 tables : Seq(FiniteSubsets)]
  BY DEF Check, Run, FreePipeline, Using, InLib, callVars, ViewTypeOK
<1>2. CASE Check
  <2>1. view' = [view EXCEPT !.checked = Consistent] /\ UNCHANGED <<pl, ran>>
    BY <1>2 DEF Check
  <2>2. PICK b \in BOOLEAN : b = Consistent
    BY DEF Consistent
  <2>3. /\ view' \in [live : BOOLEAN, ins : Seq(Nat), outs : Seq(Nat), tables : Seq(Nat),
                      entries : Nat, packets : Nat, checked : BOOLEAN]
        /\ view'.entries = view.entries /\ view'.packets = view.packets
        /\ view'.live = view.live
        /\ view'.ins = view.ins /\ view'.outs = view.outs /\ view'.tables = view.tables
    BY <1>1, <2>1, <2>2
  <2>4. ViewTypeOK' /\ CountInv'
    BY <2>1, <2>3 DEF ViewTypeOK, CountInv
  <2>5. QED
    BY <1>1, <2>1, <2>3, <2>4, ViewUse
<1>3. CASE Run
  <2> DEFINE on == {i \in DOMAIN pl.ins : pl.ins[i].on}
             more == [i \in DOMAIN pl.ins |->
                        IF i \in on THEN [pl.ins[i] EXCEPT !.n = @ + 1] ELSE pl.ins[i]]
  <2>1. ran' = ran + Cardinality(on) /\ pl' = [pl EXCEPT !.ins = more] /\ UNCHANGED view
    BY <1>3 DEF Run
  <2>2. pl'.ins = more /\ pl'.outs = pl.outs /\ pl'.tables = pl.tables
    BY <1>1, <2>1
  <2>3. /\ more \in Seq(PortSet) /\ Len(more) = Len(pl.ins) /\ Cardinality(on) \in Nat
        /\ Total(Reads(more)) = Total(Reads(pl.ins)) + Cardinality(on)
    BY <1>1, PortsRun
  <2> HIDE DEF on, more
  <2>4. pl' \in [live : BOOLEAN, ins : Seq(PortSet), outs : Seq({"out"}),
                 tables : Seq(FiniteSubsets)]
    BY <1>1, <2>1, <2>3
  <2>5. Reads(pl.ins) \in Seq(Nat)
    BY <1>1, ReadsSeq
  <2>6. PICK a \in Nat, n \in Nat, p \in Nat :
          a = Total(Reads(pl.ins)) /\ n = Cardinality(on) /\ p = view.packets
    BY <1>1, <2>3, <2>5, TotalNat
  <2>7. ran \in Nat /\ p + a = ran
    BY <2>6 DEF ViewTypeOK, CountInv
  <2>8. p + (a + n) = ran + n
    BY <2>7
  <2>9. ViewTypeOK'
    BY <1>1, <2>1, <2>4, <2>6, <2>7 DEF ViewTypeOK
  <2>10. CountInv'
    BY <2>1, <2>2, <2>3, <2>6, <2>8 DEF CountInv
  <2>11. QED
    BY <1>1, <2>1, <2>2, <2>3, <2>9, <2>10, ViewUse
<1>4. CASE FreePipeline
  <2>1. pl' = NoPipeline /\ view' = NoView /\ ran' = 0
    BY <1>4 DEF FreePipeline
  <2>2. <<>> \in Seq(PortSet) /\ <<>> \in Seq({"out"}) /\ <<>> \in Seq(FiniteSubsets)
        /\ <<>> \in Seq(Nat)
    OBVIOUS
  <2>3. ViewTypeOK'
    BY <2>1, <2>2 DEF ViewTypeOK, NoPipeline, NoView
  <2>4. /\ pl'.ins = <<>> /\ pl'.outs = <<>> /\ pl'.tables = <<>>
        /\ view'.ins = <<>> /\ view'.outs = <<>> /\ view'.tables = <<>>
        /\ view'.entries = 0 /\ view'.packets = 0
    BY <2>1 DEF NoPipeline, NoView
  <2>5. Sizes(<<>>) = <<>> /\ Reads(<<>>) = <<>>
    BY DEF Sizes, Reads
  <2>6. NoneInv' /\ CountInv'
    BY <2>1, <2>4, <2>5, TotalEmpty DEF NoneInv, CountInv
  <2>7. IdsInv' /\ BuilderInv'
    BY <1>1, <2>4 DEF IdsInv, Matches, Adding, BuilderInv, Busy, AtRest
  <2>8. QED
    BY <2>3, <2>6, <2>7
<1>5. QED
  BY <1>2, <1>3, <1>4

(* Every step keeps the owner's picture in step with the pipeline. *)
LEMMA ViewNextInv ==
  ASSUME LibInv, ViewInv, [Next]_vars
  PROVE  ViewInv'
<1>1. LibTypeOK
  BY DEF LibInv
<1>2. CASE BuilderStep
  <2>1. CASE Use
    BY <2>1, ViewWhole, ViewPort, ViewTable DEF Use
  <2>2. QED
    BY <1>1, <1>2, <2>1, ViewBegin, ViewLeaveC, ViewReturn DEF BuilderStep
<1>3. ASSUME NEW g \in Goroutines \ {Builder}, Others(g) \/ Fails(g) PROVE ViewInv'
  <2>1. call'[Builder] = call[Builder]
    BY <1>1, <1>3, OthersKeepCall
  <2>2. UNCHANGED <<pl, view, ran>>
    BY <1>3 DEF Others, Fails
  <2>3. QED
    BY <2>1, <2>2, ViewFrame
<1>4. CASE Fails(Builder)
  BY <1>1, <1>4, ViewBegin
<1>5. CASE UNCHANGED vars
  BY <1>5, ViewFrame DEF vars, callVars
<1>6. QED
  BY <1>2, <1>3, <1>4, <1>5 DEF Next

(* Between two calls the owner of a pipeline knows the ids of its ports and *)
(* tables, how many entries its tables hold and how many packets were read, *)
(* whatever failed before and whatever the other goroutines call meanwhile. *)
THEOREM OwnerKnows == Spec => []ViewRight
<1>1. ViewInv => ViewRight
  <2> SUFFICES ASSUME ViewInv, AtRest
               PROVE  /\ \A list \in {"ins", "outs", "tables"} :
                           view[list] = [i \in DOMAIN pl[list] |-> i - 1]
                      /\ view.entries = Total(Sizes(pl.tables))
                      /\ view.packets + Total(Reads(pl.ins)) = ran
    BY DEF ViewRight, Sizes, Reads
  <2>1. \A b \in {"in", "out", "table"} : ~Adding(b)
    BY DEF AtRest, Adding
  <2>2. /\ view.ins \in Seq(Nat) /\ view.outs \in Seq(Nat) /\ view.tables \in Seq(Nat)
        /\ pl.ins \in Seq(PortSet) /\ pl.outs \in Seq({"out"})
        /\ pl.tables \in Seq(FiniteSubsets)
    BY DEF ViewInv, ViewTypeOK
  <2>3. ASSUME NEW v \in Seq(Nat), NEW S, NEW p \in Seq(S), Len(p) = Len(v),
               \A i \in 1..Len(v) : v[i] = i - 1
        PROVE  v = [i \in DOMAIN p |-> i - 1]
    BY <2>3
  <2>4. view.ins = [i \in DOMAIN pl.ins |-> i - 1]
    <3>1. Len(pl.ins) = Len(view.ins) /\ \A i \in 1..Len(view.ins) : view.ins[i] = i - 1
      BY <2>1 DEF ViewInv, IdsInv, Matches
    <3>2. QED
      BY <2>2, <2>3, <3>1
  <2>5. view.outs = [i \in DOMAIN pl.outs |-> i - 1]
    <3>1. Len(pl.outs) = Len(view.outs) /\ \A i \in 1..Len(view.outs) : view.outs[i] = i - 1
      BY <2>1 DEF ViewInv, IdsInv, Matches
    <3>2. QED
      BY <2>2, <2>3, <3>1
  <2>6. view.tables = [i \in DOMAIN pl.tables |-> i - 1]
    <3>1. Len(pl.tables) = Len(view.tables) /\ \A i \in 1..Len(view.tables) : view.tables[i] = i - 1
      BY <2>1 DEF ViewInv, IdsInv, Matches
    <3>2. QED
      BY <2>2, <2>3, <3>1
  <2>7. QED
    BY <2>4, <2>5, <2>6 DEF ViewInv, CountInv
<1>2. Init => LibInv /\ ViewInv
  BY LibInitInv, ViewInitInv
<1>3. LibInv /\ ViewInv /\ [Next]_vars => LibInv' /\ ViewInv'
  BY NextInv, ViewNextInv
<1>4. QED
  BY <1>1, <1>2, <1>3, PTL DEF Spec

=============================================================================
