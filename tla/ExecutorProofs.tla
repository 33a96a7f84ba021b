--------------------------- MODULE ExecutorProofs ---------------------------
(***************************************************************************)
(* Proofs about Executor, for any number of callers, lcores and calls and  *)
(* any channel capacities.                                                 *)
(*                                                                         *)
(* QuietAfterStop and ReportNeverBlocks are not inductive: that a result   *)
(* received by StopLcores means that its lcore is done depends on where    *)
(* every job of the call is.  IInv follows a job from the todo set of its  *)
(* call through the queue and the listener to the result channel, and says *)
(* that these places never hold an lcore of the call twice.  InitComplete  *)
(* rests on what the WaitGroup counts.                                     *)
(***************************************************************************)
EXTENDS Executor, FiniteSetTheorems, TLAPS

(* There is a positive, finite number of lcores. *)
LEMMA LcoresCard == Cardinality(Lcores) \in Nat /\ Cardinality(Lcores) # 0
<1>1. Cardinality(Lcores) \in Nat
  BY ExecutorAssumption, FS_CardinalityType
<1>2. Cardinality(Lcores) # 0
  BY ExecutorAssumption, FS_EmptySet
<1>3. QED
  BY <1>1, <1>2

-----------------------------------------------------------------------------
(* Frame lemmas: what a step that leaves a part of the state alone keeps. *)

SameCall(d) ==
  /\ pc'[d] = pc[d] /\ ret'[d] = ret[d] /\ fn'[d] = fn[d] /\ calls'[d] = calls[d]
  /\ span'[d] = span[d] /\ from'[d] = from[d] /\ todo'[d] = todo[d]
  /\ left'[d] = left[d] /\ sync'[d] = sync[d]

(* A call whose state is untouched stays consistent. *)
LEMMA CallFrame ==
  ASSUME CallInv, NEW d \in Callers, SameCall(d)
  PROVE  CallOK(d)'
BY DEF CallInv, CallOK, InCall, SameCall

(* A step that changes no queue, gives no lcore a new job and leaves the   *)
(* calls in progress alone keeps every job tied to its call.               *)
LEMMA JobFrame ==
  ASSUME LcoreTypeOK, ListenerInv, JobInv, ch' = ch,
         \A l \in Lcores : Busy(l)' => Busy(l) /\ cur'[l] = cur[l],
         \A d \in Callers : InCall(d) => SameCall(d)
  PROVE  JobInv'
<1> SUFFICES ASSUME NEW l \in Lcores PROVE LcoreJobsOK(l)'
  BY DEF JobInv
<1>1. LcoreJobsOK(l)
  BY DEF JobInv
<1>2. ASSUME NEW j \in lcoreJob, JobOK(l, j) PROVE JobOK(l, j)'
  <2>1. j.c \in Callers
    BY DEF lcoreJob
  <2>2. CASE j.ret # "sync"
    BY <1>2, <2>2 DEF JobOK
  <2>3. CASE j.ret = "sync"
    BY <1>2, <2>1, <2>3 DEF JobOK, SameCall, InCall
  <2>4. QED
    BY <2>2, <2>3
<1>3. ch[l] \in Seq(lcoreJob)
  BY DEF LcoreTypeOK
<1>4. \A i \in 1..Len(ch[l]) : ch[l][i] \in lcoreJob
  BY <1>3
<1>5. \A i \in 1..Len(ch[l]) : JobOK(l, ch[l][i])'
  BY <1>1, <1>2, <1>4 DEF LcoreJobsOK
<1>6. Busy(l)' => JobOK(l, cur[l])'
  BY <1>1, <1>2 DEF LcoreJobsOK, ListenerInv
<1>7. QED
  BY <1>1, <1>5, <1>6 DEF LcoreJobsOK, JobOK

(* Lcores that answered a StopLcores call stay quiet when quiet lcores     *)
(* stay quiet.                                                             *)
LEMMA StopFrame ==
  ASSUME CallInv, StopInv, ChanTypeOK,
         \A l \in Lcores : Quiet(l) => Quiet(l)',
         NEW d \in Callers, SameCall(d)
  PROVE  StopOK(d)'
<1>1. StopOK(d) /\ CallOK(d)
  BY DEF StopInv, CallInv
<1>2. QED
  BY <1>1 DEF StopOK, CallOK, InCall, SameCall

SameInit(d) ==
  /\ ipc'[d] = ipc[d] /\ wg'[d] = wg[d] /\ ierr'[d] = ierr[d] /\ initOK'[d] = initOK[d]
  /\ pc'[d] = "initwait" <=> pc[d] = "initwait"

SameListeners ==
  \A l \in Lcores : /\ lpc'[l] = "off" <=> lpc[l] = "off"
                    /\ lpc'[l] = "launched" <=> lpc[l] = "launched"

(* A step that moves no listener in or out of its start-up leaves the      *)
(* launched and the listening lcores as they are.                          *)
LEMMA ListenersFrame ==
  ASSUME SameListeners
  PROVE  Launched' = Launched /\ \A l \in Lcores : Listening(l)' <=> Listening(l)
BY DEF SameListeners, Launched, Listening

(* The WaitGroup of an Init call stays right when neither its goroutine    *)
(* nor the listeners move.                                                 *)
LEMMA InitCallFrame ==
  ASSUME InitInv, SameListeners, launcher' = launcher, eal # "none" => eal' # "none",
         NEW d \in Callers, SameInit(d)
  PROVE  InitCallOK(d)'
BY ListenersFrame DEF InitInv, InitCallOK, SameInit

(* A step that touches no Init call and no listener's start-up keeps the   *)
(* initialisation invariant.                                               *)
LEMMA InitFrame ==
  ASSUME InitInv, InitTypeOK, SameListeners, launcher' = launcher, already' = already,
         ctxs' = ctxs, eal # "none" => eal' # "none",
         \A d \in Callers : SameInit(d)
  PROVE  InitInv'
<1>1. \A d \in Callers : InitCallOK(d)'
  BY InitCallFrame
<1>2. (Launched # {} => /\ launcher \in Callers
                        /\ ipc[launcher] = "main" /\ pc[launcher] = "initwait")'
  BY ListenersFrame DEF InitInv, SameInit
<1>3. (already => \A l \in Lcores : Listening(l))'
  BY ListenersFrame DEF InitInv
<1>4. QED
  BY <1>1, <1>2, <1>3 DEF InitInv, SameInit, SameListeners

(* A step of Init or Cleanup, which changes no lcore, no queue and no call *)
(* in progress, keeps the other parts of the invariant.                    *)
LEMMA CallsFrame ==
  ASSUME IInv, UNCHANGED lcoreVars, ch' = ch, stopRet' = stopRet,
         eal' = "down" => eal = "down" \/ stopRet # {},
         \A d \in Callers : \/ SameCall(d)
                            \/ /\ pc[d] \in {"idle", "initwait"}
                               /\ pc'[d] \in {"idle", "initwait"}
  PROVE  ListenerInv' /\ JobInv' /\ CallInv' /\ StopInv'
<1> USE DEF IInv, TypeOK
<1>1. ListenerInv'
  BY DEF ListenerInv, lcoreVars, Busy
<1>2. JobInv'
  BY JobFrame DEF lcoreVars, Busy, InCall
<1>3. CallInv'
  <2> SUFFICES ASSUME NEW d \in Callers PROVE CallOK(d)'
    BY DEF CallInv
  <2>1. CASE SameCall(d)
    BY <2>1, CallFrame
  <2>2. CASE pc'[d] \in {"idle", "initwait"}
    BY <2>2 DEF CallOK, InCall
  <2>3. QED
    BY <2>1, <2>2
<1>4. StopInv'
  <2>1. \A l \in Lcores : Quiet(l)' <=> Quiet(l)
    BY DEF Quiet, lcoreVars
  <2>2. ASSUME NEW d \in Callers PROVE StopOK(d)'
    <3>1. CASE SameCall(d)
      BY <2>1, <3>1, StopFrame
    <3>2. CASE pc'[d] \in {"idle", "initwait"}
      BY <3>2 DEF StopOK, InCall
    <3>3. QED
      BY <3>1, <3>2
  <2>3. QED
    BY <2>1, <2>2 DEF StopInv
<1>5. QED
  BY <1>1, <1>2, <1>3, <1>4

-----------------------------------------------------------------------------
(* One lemma per action of the callers and of the goroutines of Init. *)

(* Init up to wg.Wait() sets its WaitGroup to one for the goroutine it     *)
(* starts.                                                                 *)
LEMMA SpawnInitInv ==
  ASSUME IInv, NEW c \in Callers, pc[c] = "idle", SpawnInit(c), UNCHANGED lcoreVars,
         initOK' = initOK, launcher' = launcher, already' = already, eal' = eal, ctxs' = ctxs
  PROVE  InitInv'
<1> USE DEF IInv, TypeOK
<1>1. ipc[c] # "ealInit" /\ ipc[c] # "ealLaunch"
  BY DEF InitInv, InitCallOK
<1>2. SameListeners /\ \A d \in Callers : d # c => SameInit(d)
  BY DEF SameListeners, SameInit, SpawnInit, lcoreVars
<1>3. \A d \in Callers : d # c => InitCallOK(d)'
  BY <1>2, InitCallFrame
<1>4. InitCallOK(c)'
  BY <1>2, ListenersFrame DEF InitInv, InitCallOK, SpawnInit, InitTypeOK, CallTypeOK
<1>5. Launched # {} => launcher # c
  BY DEF InitInv
<1>6. QED
  BY <1>1, <1>2, <1>3, <1>4, <1>5, ListenersFrame
  DEF InitInv, SpawnInit, lcoreVars, InitTypeOK, CallTypeOK

(* A call of Init keeps the invariant. *)
LEMMA CallInitStep ==
  ASSUME IInv, NEW c \in Callers, CallInit(c)
  PROVE  IInv'
<1> USE DEF IInv, TypeOK
<1>1. CallTypeOK'
  BY ExecutorAssumption DEF CallTypeOK, CallInit, StartCall, SpawnInit
<1>2. ChanTypeOK' /\ LcoreTypeOK'
  BY DEF ChanTypeOK, LcoreTypeOK, CallInit, chanVars, lcoreVars
<1>3. InitTypeOK'
  BY DEF InitTypeOK, CallInit, SpawnInit
<1>4. InitInv'
  BY SpawnInitInv DEF CallInit, StartCall
<1>5. \A d \in Callers : \/ SameCall(d)
                         \/ pc[d] = "idle" /\ pc'[d] = "initwait"
  BY DEF CallInit, StartCall, SpawnInit, SameCall, chanVars, CallTypeOK
<1>6. QED
  BY <1>1, <1>2, <1>3, <1>4, <1>5, CallsFrame DEF CallInit

(* InitOnce keeps the invariant, whether EAL is already initialised or     *)
(* not.                                                                    *)
LEMMA InitOnceStep ==
  ASSUME IInv, NEW c \in Callers, InitOnce(c)
  PROVE  IInv'
<1> USE DEF IInv, TypeOK
<1>1. CallTypeOK'
  BY ExecutorAssumption DEF CallTypeOK, InitOnce, StartCall, SpawnInit
<1>2. ChanTypeOK' /\ LcoreTypeOK'
  BY DEF ChanTypeOK, LcoreTypeOK, InitOnce, chanVars, lcoreVars
<1>3. InitTypeOK'
  <2>1. CASE ~already
    <3>1. mutex' = c /\ SpawnInit(c) /\ UNCHANGED <<initOK, launcher, already, eal, ctxs, crashed>>
      BY <2>1 DEF InitOnce
    <3>2. QED
      BY <3>1 DEF InitTypeOK, SpawnInit
  <2>2. CASE already
    BY <2>2 DEF InitTypeOK, InitOnce
  <2>3. QED
    BY <2>1, <2>2
<1>4. InitInv'
  <2>1. CASE ~already
    BY <2>1, SpawnInitInv DEF InitOnce, StartCall
  <2>2. CASE already
    <3>1. /\ pc' = pc /\ wg' = wg /\ ierr' = ierr /\ ipc' = ipc /\ lpc' = lpc
          /\ launcher' = launcher /\ already' = already /\ eal' = eal /\ ctxs' = ctxs
          /\ initOK' = [initOK EXCEPT ![c] = TRUE]
      BY <2>2 DEF InitOnce, lcoreVars
    <3>2. \A l \in Lcores : Listening(l)
      BY <2>2 DEF InitInv
    <3>3. Launched' = Launched /\ \A l \in Lcores : Listening(l)' <=> Listening(l)
      BY <3>1 DEF Launched, Listening
    <3>4. \A d \in Callers : InitCallOK(d)'
      BY <3>1, <3>2, <3>3 DEF InitInv, InitCallOK
    <3>5. QED
      BY <3>1, <3>3, <3>4 DEF InitInv
  <2>3. QED
    BY <2>1, <2>2
<1>5. \A d \in Callers : \/ SameCall(d)
                         \/ pc[d] = "idle" /\ pc'[d] \in {"idle", "initwait"}
  BY DEF InitOnce, StartCall, SpawnInit, SameCall, chanVars, CallTypeOK
<1>6. QED
  BY <1>1, <1>2, <1>3, <1>4, <1>5, CallsFrame DEF InitOnce

(* When rte_eal_init fails the goroutine records the error before it       *)
(* releases wg.Wait().                                                     *)
LEMMA EalInitFailStep ==
  ASSUME IInv, NEW c \in Callers, EalInitFail(c)
  PROVE  IInv'
<1> USE DEF IInv, TypeOK
<1>1. CallTypeOK' /\ ChanTypeOK' /\ LcoreTypeOK'
  BY DEF CallTypeOK, ChanTypeOK, LcoreTypeOK, EalInitFail, callVars, chanVars, lcoreVars
<1>2. wg[c] = 1 /\ pc[c] = "initwait"
  BY DEF InitInv, InitCallOK, EalInitFail
<1>3. InitTypeOK'
  BY <1>2 DEF InitTypeOK, EalInitFail
<1>4. InitInv'
  <2>1. SameListeners /\ \A d \in Callers : d # c => SameInit(d)
    BY DEF SameListeners, SameInit, EalInitFail, lcoreVars, callVars
  <2>2. \A d \in Callers : d # c => InitCallOK(d)'
    BY <2>1, InitCallFrame DEF EalInitFail
  <2>3. InitCallOK(c)'
    BY <1>2, <2>1, ListenersFrame
    DEF InitInv, InitCallOK, EalInitFail, InitTypeOK, CallTypeOK, callVars
  <2>4. Launched # {} => launcher # c
    BY DEF InitInv, EalInitFail
  <2>5. QED
    BY <2>1, <2>2, <2>3, <2>4, ListenersFrame
    DEF InitInv, EalInitFail, lcoreVars, callVars, InitTypeOK, CallTypeOK
<1>5. \A d \in Callers : SameCall(d)
  BY DEF EalInitFail, SameCall, callVars, chanVars
<1>6. QED
  BY <1>1, <1>3, <1>4, <1>5, CallsFrame DEF EalInitFail

(* When rte_eal_init succeeds the WaitGroup is raised to the number of     *)
(* lcores before any of them can signal; as EAL comes up once, nobody else *)
(* launches.                                                               *)
LEMMA EalInitOKStep ==
  ASSUME IInv, NEW c \in Callers, EalInitOK(c)
  PROVE  IInv'
<1> USE DEF IInv, TypeOK
<1>1. CallTypeOK' /\ ChanTypeOK' /\ LcoreTypeOK'
  BY DEF CallTypeOK, ChanTypeOK, LcoreTypeOK, EalInitOK, callVars, chanVars, lcoreVars
<1>2. wg[c] = 1 /\ pc[c] = "initwait" /\ launcher = None
      /\ \A d \in Callers : ipc[d] # "ealLaunch"
  BY DEF InitInv, InitCallOK, EalInitOK
<1>3. wg'[c] = Cardinality(Lcores)
  BY <1>2, LcoresCard DEF EalInitOK, InitTypeOK
<1>4. InitTypeOK'
  BY <1>2, LcoresCard DEF InitTypeOK, EalInitOK
<1>5. InitInv'
  <2>1. SameListeners /\ \A d \in Callers : d # c => SameInit(d)
    BY DEF SameListeners, SameInit, EalInitOK, lcoreVars, callVars
  <2>2. \A d \in Callers : d # c => InitCallOK(d)'
    BY <2>1, InitCallFrame DEF EalInitOK
  <2>3. InitCallOK(c)'
    BY <1>2, <1>3, <2>1, ListenersFrame
    DEF InitInv, InitCallOK, EalInitOK, InitTypeOK, CallTypeOK, callVars
  <2>4. Launched # {} => launcher # c
    BY DEF InitInv, EalInitOK
  <2>5. QED
    BY <1>2, <2>1, <2>2, <2>3, <2>4, ListenersFrame
    DEF InitInv, EalInitOK, lcoreVars, callVars, InitTypeOK, CallTypeOK
<1>6. \A d \in Callers : SameCall(d)
  BY DEF EalInitOK, SameCall, callVars, chanVars
<1>7. QED
  BY <1>1, <1>4, <1>5, <1>6, CallsFrame DEF EalInitOK

(* ealLaunch gives every lcore an empty queue and leaves as many listeners *)
(* to start as the WaitGroup counts.                                       *)
LEMMA ealLaunchStep ==
  ASSUME IInv, NEW c \in Callers, ealLaunch(c)
  PROVE  IInv'
<1> USE DEF IInv, TypeOK
<1>1. /\ wg[c] = Cardinality(Lcores) /\ pc[c] = "initwait" /\ eal # "none"
      /\ launcher = None /\ ctxs = {} /\ \A l \in Lcores : lpc[l] = "off"
      /\ \A d \in Callers : d # c => ipc[d] \notin {"ealLaunch", "main"}
  BY ExecutorAssumption DEF InitInv, InitCallOK, ealLaunch
<1>2. CallTypeOK' /\ ChanTypeOK'
  BY DEF CallTypeOK, ChanTypeOK, ealLaunch, callVars, chanVars
<1>3. InitTypeOK'
  BY DEF InitTypeOK, ealLaunch
<1>4. LcoreTypeOK'
  BY ExecutorAssumption DEF LcoreTypeOK, ealLaunch
<1>5. Launched' = Lcores
  BY DEF Launched, ealLaunch
<1>6. InitInv'
  <2>1. ASSUME NEW d \in Callers, d # c PROVE InitCallOK(d)'
    <3>1. ~initOK[d]
      BY <1>1, ExecutorAssumption DEF InitInv, InitCallOK, Listening
    <3>2. QED
      BY <1>1, <2>1, <3>1 DEF InitInv, InitCallOK, ealLaunch, callVars
  <2>2. InitCallOK(c)'
    <3>1. ~initOK[c]
      BY <1>1, ExecutorAssumption DEF InitInv, InitCallOK, Listening
    <3>2. QED
      BY <1>1, <1>5, <3>1 DEF InitInv, InitCallOK, ealLaunch, callVars, InitTypeOK
  <2>3. ~already
    BY <1>1, ExecutorAssumption DEF InitInv, Listening
  <2>4. QED
    BY <1>1, <1>5, <2>1, <2>2, <2>3, ExecutorAssumption
    DEF InitInv, ealLaunch, callVars, InitTypeOK
<1>7. ListenerInv' /\ JobInv'
  BY DEF ListenerInv, JobInv, LcoreJobsOK, ealLaunch, Busy
<1>8. \A d \in Callers : SameCall(d)
  BY DEF ealLaunch, SameCall, callVars, chanVars
<1>9. CallInv'
  BY <1>8, CallFrame DEF CallInv
<1>10. StopInv'
  <2>1. \A l \in Lcores : ~Quiet(l)
    BY <1>1 DEF Quiet
  <2>2. \A d \in Callers : StopOK(d)'
    BY <1>8, <2>1, StopFrame
  <2>3. QED
    BY <2>1, <2>2, ExecutorAssumption DEF StopInv, ealLaunch
<1>11. QED
  BY <1>2, <1>3, <1>4, <1>6, <1>7, <1>9, <1>10

(* When wg.Wait() of a successful Init is released no lcore is left that   *)
(* was launched and has not started.                                       *)
LEMMA InitReturnStep ==
  ASSUME IInv, NEW c \in Callers, InitReturn(c)
  PROVE  IInv'
<1> USE DEF IInv, TypeOK
<1>1. CallTypeOK' /\ ChanTypeOK' /\ LcoreTypeOK'
  BY DEF CallTypeOK, ChanTypeOK, LcoreTypeOK, InitReturn, chanVars, lcoreVars
<1>2. InitTypeOK'
  BY DEF InitTypeOK, InitReturn
<1>3. ipc[c] \in {"none", "main"}
  BY LcoresCard DEF InitInv, InitCallOK, InitReturn, InitTypeOK
<1>4. ~ierr[c] => launcher = c /\ Launched = {} /\ \A l \in Lcores : Listening(l)
  <2> SUFFICES ASSUME ~ierr[c]
               PROVE  launcher = c /\ Launched = {} /\ \A l \in Lcores : Listening(l)
    OBVIOUS
  <2>1. ipc[c] = "main"
    BY <1>3 DEF InitInv, InitCallOK, InitReturn
  <2>2. launcher = c /\ Cardinality(Launched) = 0
    BY <2>1 DEF InitInv, InitCallOK, InitReturn
  <2>3. Launched \subseteq Lcores
    BY DEF Launched
  <2>4. Launched = {}
    BY <2>2, <2>3, ExecutorAssumption, FS_Subset, FS_EmptySet
  <2>5. \A l \in Lcores : lpc[l] # "off"
    BY <2>2, ExecutorAssumption DEF InitInv
  <2>6. QED
    BY <2>2, <2>4, <2>5 DEF Launched, Listening
<1>5. Launched # {} => launcher # c
  <2>1. ASSUME launcher = c, Launched # {} PROVE FALSE
    <3>1. ipc[c] = "main"
      BY <2>1 DEF InitInv
    <3>2. Cardinality(Launched) = 0
      BY <3>1 DEF InitInv, InitCallOK, InitReturn
    <3>3. Launched \subseteq Lcores
      BY DEF Launched
    <3>4. QED
      BY <2>1, <3>2, <3>3, ExecutorAssumption, FS_Subset, FS_EmptySet
  <2>2. QED
    BY <2>1
<1>6. InitInv'
  <2>1. SameListeners /\ \A d \in Callers : d # c => SameInit(d)
    BY DEF SameListeners, SameInit, InitReturn, lcoreVars, InitTypeOK
  <2>2. \A d \in Callers : d # c => InitCallOK(d)'
    BY <2>1, InitCallFrame DEF InitReturn
  <2>3. InitCallOK(c)'
    BY <1>3, <1>4, <2>1, ListenersFrame
    DEF InitInv, InitCallOK, InitReturn, InitTypeOK, CallTypeOK
  <2>4. already' => already \/ ~ierr[c]
    BY DEF InitReturn, InitTypeOK
  <2>5. (already => \A l \in Lcores : Listening(l))'
    BY <1>4, <2>1, <2>4, ListenersFrame DEF InitInv
  <2>6. (Launched # {} => /\ launcher \in Callers
                          /\ ipc[launcher] = "main" /\ pc[launcher] = "initwait")'
    BY <1>5, <2>1, ListenersFrame DEF InitInv, InitReturn, InitTypeOK, CallTypeOK
  <2>7. QED
    BY <2>2, <2>3, <2>5, <2>6 DEF InitInv, InitReturn, lcoreVars
<1>7. \A d \in Callers : \/ SameCall(d)
                         \/ pc[d] = "initwait" /\ pc'[d] = "idle"
  BY DEF InitReturn, SameCall, chanVars, CallTypeOK
<1>8. QED
  BY <1>1, <1>2, <1>6, <1>7, CallsFrame DEF InitReturn

(* Draining a caller's own channel disturbs no call of the package. *)
LEMMA DrainAsyncStep ==
  ASSUME IInv, NEW c \in Callers, DrainAsync(c)
  PROVE  IInv'
<1> USE DEF IInv, TypeOK
<1>1. CallTypeOK' /\ InitTypeOK' /\ LcoreTypeOK'
  BY DEF CallTypeOK, InitTypeOK, LcoreTypeOK, DrainAsync, callVars, initVars, lcoreVars
<1>2. ChanTypeOK'
  BY DEF ChanTypeOK, DrainAsync
<1>3. InitInv'
  BY InitFrame DEF DrainAsync, callVars, initVars, lcoreVars, SameInit, SameListeners
<1>4. \A d \in Callers : SameCall(d)
  BY DEF DrainAsync, SameCall, callVars
<1>5. QED
  BY <1>1, <1>2, <1>3, <1>4, CallsFrame DEF DrainAsync

(* Cleanup keeps the invariant when it follows StopLcores. *)
LEMMA CleanupStep ==
  ASSUME IInv, NEW c \in Callers, Cleanup(c)
  PROVE  IInv'
<1> USE DEF IInv, TypeOK
<1>1. ChanTypeOK' /\ InitTypeOK' /\ LcoreTypeOK'
  BY DEF ChanTypeOK, InitTypeOK, LcoreTypeOK, Cleanup, chanVars, initVars, lcoreVars
<1>2. CallTypeOK'
  BY ExecutorAssumption DEF CallTypeOK, Cleanup, StartCall
<1>3. InitInv'
  BY InitFrame DEF Cleanup, initVars, lcoreVars, SameInit, SameListeners
<1>4. \A d \in Callers : \/ SameCall(d)
                         \/ pc[d] = "idle" /\ pc'[d] = "idle"
  BY DEF Cleanup, StartCall, SameCall, chanVars, CallTypeOK
<1>5. QED
  BY <1>1, <1>2, <1>3, <1>4, CallsFrame DEF Cleanup

(* Entering a call that is consistent by itself keeps the invariant: no    *)
(* job refers to the call of an idle caller.                               *)
LEMMA SubmitFrame ==
  ASSUME IInv, NEW c \in Callers, pc[c] = "idle", pc'[c] # "initwait",
         UNCHANGED <<initVars, lcoreVars, stopRet, eal, ctxs, ch>>,
         \A d \in Callers : d # c => SameCall(d),
         CallOK(c)', StopOK(c)'
  PROVE  InitInv' /\ ListenerInv' /\ JobInv' /\ CallInv' /\ StopInv'
<1> USE DEF IInv, TypeOK
<1>1. InitInv'
  BY InitFrame DEF initVars, lcoreVars, SameInit, SameListeners, SameCall
<1>2. ListenerInv'
  BY DEF ListenerInv, lcoreVars, Busy
<1>3. JobInv'
  BY JobFrame DEF lcoreVars, Busy, InCall
<1>4. CallInv'
  BY CallFrame DEF CallInv
<1>5. StopInv'
  <2>1. \A l \in Lcores : Quiet(l)' <=> Quiet(l)
    BY DEF Quiet, lcoreVars
  <2>2. \A d \in Callers : StopOK(d)'
    BY <2>1, StopFrame
  <2>3. QED
    BY <2>1, <2>2 DEF StopInv
<1>6. QED
  BY <1>1, <1>2, <1>3, <1>4, <1>5

(* Entering ExecOnLcore keeps the invariant, for known and unknown lcores. *)
LEMMA ExecOnLcoreStep ==
  ASSUME IInv, NEW c \in Callers, NEW l \in Lcores \cup {BadLcore}, NEW f \in Fns,
         ExecOnLcore(c, l, f)
  PROVE  IInv'
<1> USE DEF IInv, TypeOK
<1>1. Cardinality({l}) = 1
  BY FS_Singleton
<1>2. calls'[c] \in 0..MaxCalls
  BY ExecutorAssumption DEF ExecOnLcore, StartCall, CallTypeOK
<1>3. CallTypeOK'
  BY <1>1, ExecutorAssumption DEF CallTypeOK, InitTypeOK, ExecOnLcore, Submit, StartCall
<1>4. ChanTypeOK'
  BY <1>2 DEF ChanTypeOK, ExecOnLcore, Result
<1>5. InitTypeOK' /\ LcoreTypeOK'
  BY DEF InitTypeOK, LcoreTypeOK, ExecOnLcore, Submit, initVars, lcoreVars
<1>6. \A d \in Callers : d # c => SameCall(d)
  BY DEF ExecOnLcore, Submit, StartCall, SameCall, CallTypeOK, ChanTypeOK
<1>7. pc[c] = "idle" /\ pc'[c] # "initwait"
  BY DEF ExecOnLcore, StartCall, CallTypeOK
<1>8. /\ span'[c] = {l} /\ from'[c] = {} /\ left'[c] = 1 /\ fn'[c] = f /\ ret'[c] = "sync"
      /\ \/ pc'[c] = "send" /\ todo'[c] = {l} /\ sync'[c] = {} /\ l \in Lcores
         \/ pc'[c] = "wait" /\ todo'[c] = {} /\ \A m \in sync'[c] : m.l = l
  BY <1>1 DEF ExecOnLcore, Submit, CallTypeOK, ChanTypeOK, InitTypeOK
<1>9. \A m1, m2 \in sync'[c] : m1 = m2
  BY DEF ExecOnLcore, ChanTypeOK
<1>10. {l} \ {} = {l}
  OBVIOUS
<1>11. CallOK(c)'
  BY <1>1, <1>8, <1>9, <1>10, ExecutorAssumption DEF CallOK, InCall
<1>12. StopOK(c)'
  BY <1>8, ExecutorAssumption DEF StopOK
<1>13. QED
  BY <1>3, <1>4, <1>5, <1>6, <1>7, <1>11, <1>12, SubmitFrame DEF ExecOnLcore, Submit

(* ExecOnLcoreAsync keeps the invariant: its jobs never refer to a channel *)
(* the package made.                                                       *)
LEMMA ExecOnLcoreAsyncStep ==
  ASSUME IInv, NEW c \in Callers, NEW l \in Lcores \cup {BadLcore}, NEW f \in Fns,
         NEW r \in {"async", "nil"}, ExecOnLcoreAsync(c, l, f, r)
  PROVE  IInv'
<1> USE DEF IInv, TypeOK
<1>1. calls'[c] \in 0..MaxCalls
  BY ExecutorAssumption DEF ExecOnLcoreAsync, StartCall, CallTypeOK
<1>2. CallTypeOK'
  BY ExecutorAssumption
  DEF CallTypeOK, InitTypeOK, ExecOnLcoreAsync, Submit, StartCall
<1>3. ChanTypeOK'
  BY <1>1 DEF ChanTypeOK, ExecOnLcoreAsync, Result
<1>4. InitTypeOK' /\ LcoreTypeOK'
  BY DEF InitTypeOK, LcoreTypeOK, ExecOnLcoreAsync, Submit, initVars, lcoreVars
<1>5. \A d \in Callers : d # c => SameCall(d)
  BY DEF ExecOnLcoreAsync, Submit, StartCall, SameCall, CallTypeOK, ChanTypeOK
<1>6. /\ pc[c] = "idle" /\ span'[c] = {l} /\ ret'[c] = r /\ fn'[c] = f
      /\ \/ pc'[c] = "send" /\ todo'[c] = {l} /\ l \in Lcores
         \/ pc'[c] = "idle"
  BY DEF ExecOnLcoreAsync, Submit, StartCall, CallTypeOK, InitTypeOK
<1>7. CallOK(c)' /\ StopOK(c)'
  BY <1>6, ExecutorAssumption DEF CallOK, StopOK, InCall
<1>8. QED
  BY <1>2, <1>3, <1>4, <1>5, <1>6, <1>7, SubmitFrame DEF ExecOnLcoreAsync, Submit

(* Entering StopLcores keeps the invariant. *)
LEMMA StopLcoresStep ==
  ASSUME IInv, NEW c \in Callers, StopLcores(c)
  PROVE  IInv'
<1> USE DEF IInv, TypeOK
<1>1. CallTypeOK'
  BY LcoresCard, ExecutorAssumption DEF CallTypeOK, StopLcores, Submit, StartCall
<1>2. ChanTypeOK'
  BY DEF ChanTypeOK, StopLcores
<1>3. InitTypeOK' /\ LcoreTypeOK'
  BY DEF InitTypeOK, LcoreTypeOK, StopLcores, Submit, initVars, lcoreVars
<1>4. \A d \in Callers : d # c => SameCall(d)
  BY DEF StopLcores, Submit, StartCall, SameCall
<1>5. /\ pc[c] = "idle" /\ pc'[c] = "send" /\ span'[c] = Lcores /\ from'[c] = {}
      /\ todo'[c] = Lcores /\ sync'[c] = {} /\ fn'[c] = "stop" /\ ret'[c] = "sync"
      /\ left'[c] = Cardinality(Lcores)
  BY DEF StopLcores, Submit, StartCall, CallTypeOK, ChanTypeOK
<1>6. Lcores \ {} = Lcores
  OBVIOUS
<1>7. CallOK(c)' /\ StopOK(c)'
  BY <1>5, <1>6, ExecutorAssumption DEF CallOK, StopOK, InCall
<1>8. QED
  BY <1>1, <1>2, <1>3, <1>4, <1>5, <1>7, SubmitFrame DEF StopLcores, Submit

(* Sending a job adds to the queue of its lcore the only job that lcore    *)
(* has of this call.                                                       *)
LEMMA SendJobStep ==
  ASSUME IInv, NEW c \in Callers, SendJob(c)
  PROVE  IInv'
<1> USE DEF IInv, TypeOK
<1>1. PICK l \in todo[c] :
        /\ Len(ch[l]) < lcoreJobsBuffer
        /\ ch' = [ch EXCEPT ![l] = Append(@, [c |-> c, n |-> calls[c], l |-> l,
                                              fn |-> fn[c], ret |-> ret[c]])]
        /\ todo' = [todo EXCEPT ![c] = @ \ {l}]
        /\ pc' = [pc EXCEPT ![c] = IF todo[c] # {l} THEN "send"
                                   ELSE IF ret[c] = "sync" THEN "wait" ELSE "idle"]
  BY DEF SendJob
<1>2. /\ pc[c] = "send" /\ CallOK(c) /\ l \in Lcores
      /\ UNCHANGED <<calls, fn, ret, span, left, from, res, sync, initVars, lcoreVars,
                     stopRet, eal, ctxs, crashed, async>>
  BY DEF SendJob, CallInv, CallTypeOK, chanVars
<1> DEFINE j == [c |-> c, n |-> calls[c], l |-> l, fn |-> fn[c], ret |-> ret[c]]
<1>3. j \in lcoreJob
  BY <1>2 DEF lcoreJob, CallTypeOK, CallOK
<1>4. CallTypeOK'
  BY <1>1, <1>2 DEF CallTypeOK
<1>5. ChanTypeOK' /\ InitTypeOK'
  BY <1>2 DEF ChanTypeOK, InitTypeOK, initVars
<1>6. LcoreTypeOK'
  <2>1. ch'[l] = Append(ch[l], j) /\ ch[l] \in Seq(lcoreJob) /\ \A k \in Lcores : k # l => ch'[k] = ch[k]
    BY <1>1, <1>2 DEF LcoreTypeOK
  <2>2. ch'[l] \in Seq(lcoreJob) /\ Len(ch'[l]) = Len(ch[l]) + 1 /\ Len(ch[l]) \in Nat
    BY <1>3, <2>1
  <2>3. ch' \in [Lcores -> Seq(lcoreJob)]
    BY <1>1, <2>1, <2>2 DEF LcoreTypeOK
  <2>4. \A k \in Lcores : Len(ch'[k]) <= lcoreJobsBuffer
    BY <1>1, <2>1, <2>2, ExecutorAssumption DEF LcoreTypeOK
  <2>5. QED
    BY <1>2, <2>3, <2>4 DEF LcoreTypeOK, lcoreVars
<1>7. InitInv'
  BY <1>1, <1>2, InitFrame DEF initVars, lcoreVars, SameInit, SameListeners, CallTypeOK
<1>8. ListenerInv'
  BY <1>2 DEF ListenerInv, lcoreVars, Busy
<1>9. \A d \in Callers : d # c => SameCall(d)
  BY <1>1, <1>2 DEF SameCall
<1>10. /\ InCall(c) <=> InCall(c)'
       /\ todo'[c] = todo[c] \ {l}
       /\ pc'[c] = "send" => todo[c] # {l}
       /\ pc'[c] = "wait" => todo[c] = {l} /\ ret[c] = "sync"
  BY <1>1, <1>2 DEF InCall, CallTypeOK
<1>11. JobInv'
  <2>1. ASSUME NEW k \in Lcores, NEW jb \in lcoreJob, JobOK(k, jb) PROVE JobOK(k, jb)'
    <3>1. jb.c \in Callers
      BY DEF lcoreJob
    <3>2. CASE jb.c # c
      BY <1>9, <2>1, <3>1, <3>2 DEF JobOK, SameCall, InCall
    <3>3. CASE jb.c = c
      BY <1>2, <1>10, <2>1, <3>3 DEF JobOK
    <3>4. QED
      BY <3>2, <3>3
  <2>2. ASSUME NEW k \in Lcores, k # l PROVE LcoreJobsOK(k)'
    <3>1. ch'[k] = ch[k] /\ ch[k] \in Seq(lcoreJob) /\ LcoreJobsOK(k)
          /\ cur'[k] = cur[k] /\ (Busy(k)' <=> Busy(k))
      BY <1>1, <1>2, <2>2 DEF LcoreTypeOK, lcoreVars, Busy, JobInv
    <3>2. \A i \in 1..Len(ch[k]) : JobOK(k, ch[k][i])'
      BY <2>1, <3>1 DEF LcoreJobsOK
    <3>3. Busy(k) => JobOK(k, cur[k])'
      BY <2>1, <3>1 DEF LcoreJobsOK, ListenerInv
    <3>4. QED
      BY <3>1, <3>2, <3>3 DEF LcoreJobsOK, JobOK
  <2>3. LcoreJobsOK(l)'
    <3>1. /\ ch'[l] = Append(ch[l], j) /\ ch[l] \in Seq(lcoreJob) /\ LcoreJobsOK(l)
          /\ cur'[l] = cur[l] /\ (Busy(l)' <=> Busy(l))
      BY <1>1, <1>2 DEF LcoreTypeOK, lcoreVars, Busy, JobInv
    <3>2. /\ Len(ch'[l]) = Len(ch[l]) + 1 /\ Len(ch[l]) \in Nat
          /\ ch'[l][Len(ch[l]) + 1] = j
          /\ \A i \in 1..Len(ch[l]) : ch'[l][i] = ch[l][i] /\ ch[l][i] \in lcoreJob
      BY <1>3, <3>1
    <3>3. ASSUME NEW jb, JobOK(l, jb), jb.ret = "sync" PROVE jb.c # c
      BY <3>3 DEF JobOK
    <3>5. ASSUME NEW i \in 1..Len(ch'[l]) PROVE JobOK(l, ch[l][i])'
      <4>1. CASE i = Len(ch[l]) + 1
        <5>1. PICK jb \in lcoreJob : jb = j
          BY <1>3
        <5>2. JobOK(l, jb)' /\ ch'[l][i] = jb
          BY <1>2, <1>10, <3>2, <4>1, <5>1 DEF JobOK, CallOK, InCall
        <5>3. QED
          BY <5>2 DEF JobOK
      <4>2. CASE i # Len(ch[l]) + 1
        <5>1. i \in 1..Len(ch[l])
          BY <3>2, <4>2
        <5>2. PICK jb \in lcoreJob : jb = ch[l][i]
          BY <3>2, <5>1
        <5>3. JobOK(l, jb)
          BY <3>1, <5>1, <5>2 DEF LcoreJobsOK
        <5>4. JobOK(l, jb)' /\ ch'[l][i] = jb
          BY <1>2, <2>1, <3>2, <5>1, <5>2, <5>3
        <5>5. QED
          BY <5>4 DEF JobOK
      <4>3. QED
        BY <4>1, <4>2
    <3>7. ASSUME Busy(l)' PROVE JobOK(l, cur[l])'
      <4>1. PICK jb \in lcoreJob : jb = cur[l]
        BY <1>2, <3>1, <3>7 DEF ListenerInv
      <4>2. JobOK(l, jb)' /\ cur'[l] = jb
        BY <1>2, <2>1, <3>1, <3>7, <4>1 DEF LcoreJobsOK
      <4>3. QED
        BY <4>2 DEF JobOK
    <3>8. \A i \in 1..Len(ch[l]) : ch[l][i].ret = "sync" => ch[l][i].c # c
      BY <3>1, <3>3 DEF LcoreJobsOK
    <3>9. Busy(l) /\ cur[l].ret = "sync" => cur[l].c # c
      BY <3>1, <3>3 DEF LcoreJobsOK
    <3>10. \A i, k \in 1..Len(ch'[l]) :
             ch'[l][i].ret = "sync" /\ ch'[l][k].ret = "sync" /\ ch'[l][i].c = ch'[l][k].c => i = k
      BY <3>1, <3>2, <3>8 DEF LcoreJobsOK
    <3>11. Busy(l) /\ cur[l].ret = "sync" =>
             \A i \in 1..Len(ch'[l]) : ch'[l][i].ret = "sync" => ch'[l][i].c # cur[l].c
      BY <3>1, <3>2, <3>9 DEF LcoreJobsOK
    <3>12. QED
      BY <3>1, <3>5, <3>7, <3>10, <3>11 DEF LcoreJobsOK
  <2>4. QED
    BY <2>2, <2>3 DEF JobInv
<1>12. CallInv'
  <2>1. CallOK(c)'
    BY <1>1, <1>2, <1>10 DEF CallOK
  <2>2. QED
    BY <1>9, <2>1, CallFrame DEF CallInv
<1>13. StopInv'
  <2>1. \A k \in Lcores : Quiet(k)' <=> Quiet(k)
    BY <1>2 DEF Quiet, lcoreVars
  <2>2. StopOK(c)'
    BY <1>2, <1>10, <2>1 DEF StopOK, StopInv, CallOK
  <2>3. \A d \in Callers : StopOK(d)'
    BY <1>9, <2>1, <2>2, StopFrame
  <2>4. QED
    BY <1>2, <2>1, <2>3 DEF StopInv
<1>14. QED
  BY <1>4, <1>5, <1>6, <1>7, <1>8, <1>11, <1>12, <1>13

(* Receiving a result moves its lcore to the ones heard from; when         *)
(* StopLcores has heard from all of them, all are quiet.                   *)
LEMMA ReceiveResultStep ==
  ASSUME IInv, NEW c \in Callers, ReceiveResult(c)
  PROVE  IInv'
<1> USE DEF IInv, TypeOK
<1>1. PICK m \in sync[c] :
        /\ sync' = [sync EXCEPT ![c] = @ \ {m}]
        /\ res' = [res EXCEPT ![c] = m.err]
        /\ from' = [from EXCEPT ![c] = @ \cup {m.l}]
  BY DEF ReceiveResult
<1>2. /\ pc[c] = "wait" /\ CallOK(c) /\ InCall(c) /\ StopOK(c) /\ m \in Result
      /\ left' = [left EXCEPT ![c] = @ - 1]
      /\ UNCHANGED <<calls, fn, ret, span, todo, async, initVars, lcoreVars, eal, ctxs,
                     ch, crashed>>
  BY DEF ReceiveResult, CallInv, CallOK, StopInv, InCall, ChanTypeOK
<1>3. m.l \in span[c] /\ m.l \notin from[c] /\ todo[c] = {} /\ ret[c] = "sync"
      /\ from[c] \subseteq span[c] /\ left[c] = Cardinality(span[c] \ from[c])
      /\ span[c] \subseteq Lcores \cup {BadLcore}
  BY <1>2 DEF CallOK, CallTypeOK
<1>4. /\ IsFiniteSet(span[c] \ from[c])
      /\ Cardinality(span[c] \ from'[c]) = left[c] - 1
      /\ left[c] \in Nat \ {0}
      /\ left[c] = 1 => span[c] \ from[c] = {m.l}
  <2>1. IsFiniteSet(Lcores \cup {BadLcore})
    BY ExecutorAssumption, FS_AddElement
  <2>2. IsFiniteSet(span[c] \ from[c])
    BY <1>3, <2>1, FS_Subset
  <2>3. span[c] \ from'[c] = (span[c] \ from[c]) \ {m.l}
    BY <1>1 DEF CallTypeOK
  <2>4. /\ Cardinality((span[c] \ from[c]) \ {m.l}) = left[c] - 1
        /\ IsFiniteSet((span[c] \ from[c]) \ {m.l})
    <3>1. m.l \in span[c] \ from[c]
      BY <1>3
    <3>2. Cardinality((span[c] \ from[c]) \ {m.l}) = Cardinality(span[c] \ from[c]) - 1
      BY <2>2, <3>1, FS_RemoveElement, Zenon
    <3>3. IsFiniteSet((span[c] \ from[c]) \ {m.l})
      BY <2>2, FS_RemoveElement, Zenon
    <3>4. QED
      BY <1>3, <3>2, <3>3
  <2>5. left[c] \in Nat /\ left[c] # 0
    BY <1>3, <2>2, FS_CardinalityType, FS_EmptySet
  <2>6. left[c] = 1 => (span[c] \ from[c]) \ {m.l} = {}
    BY <2>4, FS_EmptySet
  <2>7. QED
    BY <1>3, <2>2, <2>3, <2>4, <2>5, <2>6
<1>5. \/ /\ left[c] = 1 /\ pc' = [pc EXCEPT ![c] = "idle"]
         /\ stopRet' = IF fn[c] = "stop" THEN stopRet \cup {c} ELSE stopRet
      \/ left[c] # 1 /\ pc' = pc /\ stopRet' = stopRet
  BY DEF ReceiveResult
<1>6. CallTypeOK'
  BY <1>1, <1>2, <1>4, <1>5 DEF CallTypeOK, Result
<1>7. ChanTypeOK' /\ InitTypeOK' /\ LcoreTypeOK'
  BY <1>1, <1>2 DEF ChanTypeOK, InitTypeOK, LcoreTypeOK, initVars, lcoreVars
<1>8. InitInv'
  BY <1>2, <1>5, InitFrame DEF initVars, lcoreVars, SameInit, SameListeners, CallTypeOK
<1>9. ListenerInv'
  BY <1>2 DEF ListenerInv, lcoreVars, Busy
<1>10. \A d \in Callers : d # c => SameCall(d)
  BY <1>1, <1>2, <1>5 DEF SameCall, CallTypeOK, ChanTypeOK
<1>11. /\ sync'[c] = sync[c] \ {m} /\ from'[c] = from[c] \cup {m.l}
       /\ left'[c] = left[c] - 1
       /\ pc'[c] = IF left[c] = 1 THEN "idle" ELSE "wait"
  BY <1>1, <1>2, <1>5 DEF CallTypeOK, ChanTypeOK
<1>12. JobInv'
  <2>1. ASSUME NEW k \in Lcores, NEW jb \in lcoreJob, JobOK(k, jb) PROVE JobOK(k, jb)'
    <3>1. jb.c \in Callers
      BY DEF lcoreJob
    <3>2. CASE jb.c # c
      BY <1>10, <2>1, <3>1, <3>2 DEF JobOK, SameCall, InCall
    <3>3. CASE jb.c = c
      BY <1>2, <1>3, <1>4, <1>11, <2>1, <3>3 DEF JobOK, InCall
    <3>4. QED
      BY <3>2, <3>3
  <2>2. ASSUME NEW k \in Lcores PROVE LcoreJobsOK(k)'
    <3>1. ch'[k] = ch[k] /\ ch[k] \in Seq(lcoreJob) /\ LcoreJobsOK(k)
          /\ cur'[k] = cur[k] /\ (Busy(k)' <=> Busy(k))
      BY <1>2 DEF LcoreTypeOK, lcoreVars, Busy, JobInv
    <3>2. \A i \in 1..Len(ch[k]) : JobOK(k, ch[k][i])'
      BY <1>2, <2>1, <3>1 DEF LcoreJobsOK
    <3>3. Busy(k) => JobOK(k, cur[k])'
      BY <1>2, <2>1, <3>1 DEF LcoreJobsOK, ListenerInv, lcoreVars
    <3>4. QED
      BY <3>1, <3>2, <3>3 DEF LcoreJobsOK, JobOK
  <2>3. QED
    BY <2>2 DEF JobInv
<1>13. CallInv'
  <2>1. CallOK(c)'
    BY <1>2, <1>3, <1>4, <1>11 DEF CallOK, InCall
  <2>2. QED
    BY <1>10, <2>1, CallFrame DEF CallInv
<1>14. StopInv'
  <2>1. \A k \in Lcores : Quiet(k)' <=> Quiet(k)
    BY <1>2 DEF Quiet, lcoreVars
  <2>2. fn[c] = "stop" => /\ span[c] = Lcores /\ Quiet(m.l)
                          /\ \A l \in from[c] : Quiet(l)
                          /\ \A x \in sync[c] : Quiet(x.l) /\ x.l \in Lcores
    BY <1>2 DEF StopOK, CallOK
  <2>3. StopOK(c)'
    BY <1>2, <1>3, <1>11, <2>1, <2>2 DEF StopOK
  <2>4. \A d \in Callers : StopOK(d)'
    BY <1>10, <2>1, <2>3, StopFrame
  <2>5. left[c] = 1 /\ fn[c] = "stop" => \A l \in Lcores : Quiet(l)
    BY <1>4, <2>2
  <2>6. stopRet' # {} => \A l \in Lcores : Quiet(l)'
    BY <1>5, <2>1, <2>5 DEF StopInv
  <2>7. eal' = "down" => stopRet' # {}
    BY <1>2, <1>5 DEF StopInv
  <2>8. QED
    BY <2>4, <2>6, <2>7 DEF StopInv
<1>15. QED
  BY <1>6, <1>7, <1>8, <1>9, <1>12, <1>13, <1>14

-----------------------------------------------------------------------------
(* One lemma per action of lcoreFuncListener. *)

(* A step of a listener that touches no call keeps the calls and what      *)
(* StopLcores knows.                                                       *)
LEMMA ListenerFrame ==
  ASSUME IInv, \A d \in Callers : SameCall(d), stopRet' = stopRet, eal' = eal,
         \A k \in Lcores : Quiet(k) => Quiet(k)'
  PROVE  CallInv' /\ StopInv'
<1> USE DEF IInv, TypeOK
<1>1. CallInv'
  BY CallFrame DEF CallInv
<1>2. \A d \in Callers : StopOK(d)'
  BY StopFrame
<1>3. QED
  BY <1>1, <1>2 DEF StopInv

(* A listener that starts takes one off the WaitGroup of the Init call     *)
(* that launched it, which is at least one.                                *)
LEMMA ListenerStartStep ==
  ASSUME IInv, NEW l \in Lcores, ListenerStart(l)
  PROVE  IInv'
<1> USE DEF IInv, TypeOK
<1>1. CallTypeOK' /\ ChanTypeOK' /\ LcoreTypeOK'
  BY DEF CallTypeOK, ChanTypeOK, LcoreTypeOK, ListenerStart, callVars, chanVars
<1>2. /\ l \in Launched /\ launcher \in Callers /\ ipc[launcher] = "main"
      /\ pc[launcher] = "initwait" /\ wg[launcher] = Cardinality(Launched)
  BY DEF ListenerStart, Launched, InitInv, InitCallOK
<1>3. Launched' = Launched \ {l}
  BY DEF Launched, ListenerStart, LcoreTypeOK
<1>4. /\ Cardinality(Launched') = Cardinality(Launched) - 1
      /\ Cardinality(Launched) \in Nat \ {0}
  <2>1. IsFiniteSet(Launched)
    BY ExecutorAssumption, FS_Subset DEF Launched
  <2>2. Cardinality(Launched \ {l}) = Cardinality(Launched) - 1
    BY <1>2, <2>1, FS_RemoveElement, Zenon
  <2>3. Cardinality(Launched) \in Nat /\ Cardinality(Launched) # 0
    BY <1>2, <2>1, FS_CardinalityType, FS_EmptySet
  <2>4. QED
    BY <1>3, <2>2, <2>3
<1>5. InitTypeOK'
  BY <1>2, <1>4 DEF InitTypeOK, ListenerStart
<1>6. InitInv'
  <2>1. \A k \in Lcores : Listening(k) => Listening(k)'
    BY DEF Listening, ListenerStart, LcoreTypeOK
  <2>2. ASSUME NEW d \in Callers, d # launcher PROVE InitCallOK(d)'
    BY <1>2, <2>1, <2>2 DEF InitInv, InitCallOK, ListenerStart, callVars, InitTypeOK
  <2>3. wg'[launcher] = Cardinality(Launched')
    BY <1>2, <1>4 DEF ListenerStart, InitTypeOK
  <2>4. ASSUME NEW d \in Callers, d = launcher PROVE InitCallOK(d)'
    BY <1>2, <2>1, <2>3, <2>4 DEF InitInv, InitCallOK, ListenerStart, callVars
  <2>5. \A k \in Lcores : lpc'[k] = "off" <=> lpc[k] = "off"
    BY DEF ListenerStart, LcoreTypeOK
  <2>6. launcher # None
    BY <1>2, ExecutorAssumption
  <2>7. QED
    BY <1>2, <2>1, <2>2, <2>4, <2>5, <2>6 DEF InitInv, ListenerStart, callVars
<1>7. ListenerInv'
  BY DEF ListenerInv, ListenerStart, Busy, LcoreTypeOK
<1>8. \A d \in Callers : SameCall(d)
  BY DEF ListenerStart, SameCall, callVars, chanVars
<1>9. JobInv'
  BY <1>8, JobFrame DEF ListenerStart, Busy, LcoreTypeOK
<1>10. \A k \in Lcores : Quiet(k) => Quiet(k)'
  BY DEF Quiet, ListenerStart, LcoreTypeOK
<1>11. QED
  BY <1>1, <1>5, <1>6, <1>7, <1>8, <1>9, <1>10, ListenerFrame DEF ListenerStart

(* Taking a job moves it from the queue to the listener: it stays the only *)
(* one of its call.                                                        *)
LEMMA TakeJobStep ==
  ASSUME IInv, NEW l \in Lcores, TakeJob(l)
  PROVE  IInv'
<1> USE DEF IInv, TypeOK
<1>1. CallTypeOK' /\ ChanTypeOK' /\ InitTypeOK'
  BY DEF CallTypeOK, ChanTypeOK, InitTypeOK, TakeJob, callVars, chanVars, initVars
<1>2. ch[l] \in Seq(lcoreJob) /\ ch[l] # <<>>
  BY DEF TakeJob, LcoreTypeOK
<1>3. /\ Head(ch[l]) \in lcoreJob /\ Tail(ch[l]) \in Seq(lcoreJob)
      /\ Len(Tail(ch[l])) = Len(ch[l]) - 1 /\ Len(ch[l]) \in Nat \ {0}
      /\ Head(ch[l]) = ch[l][1]
      /\ \A i \in 1..Len(Tail(ch[l])) : Tail(ch[l])[i] = ch[l][i + 1]
  BY <1>2
<1>4. /\ ch'[l] = Tail(ch[l]) /\ cur'[l] = ch[l][1] /\ lpc[l] = "loop" /\ lpc'[l] = "run"
      /\ \A k \in Lcores : k # l => ch'[k] = ch[k] /\ cur'[k] = cur[k] /\ lpc'[k] = lpc[k]
  BY <1>3 DEF TakeJob, LcoreTypeOK
<1>5. LcoreTypeOK'
  BY <1>3, <1>4, ExecutorAssumption DEF LcoreTypeOK, TakeJob
<1>6. InitInv'
  BY <1>4, InitFrame DEF TakeJob, initVars, callVars, SameInit, SameListeners
<1>7. ListenerInv'
  BY <1>3, <1>4 DEF ListenerInv, TakeJob, Busy
<1>8. \A d \in Callers : SameCall(d)
  BY DEF TakeJob, SameCall, callVars, chanVars
<1>9. JobInv'
  <2>1. ASSUME NEW k \in Lcores, NEW jb \in lcoreJob, JobOK(k, jb) PROVE JobOK(k, jb)'
    <3>1. jb.c \in Callers
      BY DEF lcoreJob
    <3>2. QED
      BY <1>8, <2>1, <3>1 DEF JobOK, SameCall, InCall
  <2>2. ASSUME NEW k \in Lcores, k # l PROVE LcoreJobsOK(k)'
    <3>1. ch'[k] = ch[k] /\ ch[k] \in Seq(lcoreJob) /\ LcoreJobsOK(k)
          /\ cur'[k] = cur[k] /\ (Busy(k)' <=> Busy(k))
      BY <1>4, <2>2 DEF LcoreTypeOK, Busy, JobInv
    <3>2. ASSUME NEW i \in 1..Len(ch'[k]) PROVE JobOK(k, ch[k][i])'
      <4>1. PICK jb \in lcoreJob : jb = ch[k][i]
        BY <3>1
      <4>2. JobOK(k, jb)' /\ ch'[k][i] = jb
        BY <2>1, <3>1, <4>1 DEF LcoreJobsOK
      <4>3. QED
        BY <4>2 DEF JobOK
    <3>3. ASSUME Busy(k)' PROVE JobOK(k, cur[k])'
      <4>1. PICK jb \in lcoreJob : jb = cur[k]
        BY <3>1, <3>3 DEF ListenerInv
      <4>2. JobOK(k, jb)' /\ cur'[k] = jb
        BY <2>1, <3>1, <3>3, <4>1 DEF LcoreJobsOK
      <4>3. QED
        BY <4>2 DEF JobOK
    <3>4. QED
      BY <3>1, <3>2, <3>3 DEF LcoreJobsOK
  <2>3. LcoreJobsOK(l)'
    <3>1. LcoreJobsOK(l)
      BY DEF JobInv
    <3>2. ASSUME NEW i \in 1..Len(ch'[l]) PROVE JobOK(l, ch[l][i])'
      <4>1. i + 1 \in 1..Len(ch[l]) /\ ch'[l][i] = ch[l][i + 1]
        BY <1>3, <1>4, <3>2
      <4>2. PICK jb \in lcoreJob : jb = ch[l][i + 1]
        BY <1>2, <4>1
      <4>3. JobOK(l, jb)' /\ ch'[l][i] = jb
        BY <2>1, <3>1, <4>1, <4>2 DEF LcoreJobsOK
      <4>4. QED
        BY <4>3 DEF JobOK
    <3>3. JobOK(l, cur[l])'
      <4>1. PICK jb \in lcoreJob : jb = ch[l][1]
        BY <1>3
      <4>2. JobOK(l, jb)' /\ cur'[l] = jb
        BY <1>3, <1>4, <2>1, <3>1, <4>1 DEF LcoreJobsOK
      <4>3. QED
        BY <4>2 DEF JobOK
    <3>4. \A i, k \in 1..Len(ch'[l]) :
            ch'[l][i].ret = "sync" /\ ch'[l][k].ret = "sync" /\ ch'[l][i].c = ch'[l][k].c
            => i = k
      <4> SUFFICES ASSUME NEW i \in 1..Len(ch'[l]), NEW k \in 1..Len(ch'[l]),
                          ch'[l][i].ret = "sync", ch'[l][k].ret = "sync",
                          ch'[l][i].c = ch'[l][k].c
                   PROVE  i = k
        OBVIOUS
      <4>1. /\ i + 1 \in 1..Len(ch[l]) /\ ch'[l][i] = ch[l][i + 1]
            /\ k + 1 \in 1..Len(ch[l]) /\ ch'[l][k] = ch[l][k + 1]
        BY <1>3, <1>4
      <4>2. i + 1 = k + 1
        BY <3>1, <4>1 DEF LcoreJobsOK
      <4>3. QED
        BY <1>3, <1>4, <4>2
    <3>5. cur'[l].ret = "sync" =>
            \A i \in 1..Len(ch'[l]) : ch'[l][i].ret = "sync" => ch'[l][i].c # cur'[l].c
      <4> SUFFICES ASSUME cur'[l].ret = "sync", NEW i \in 1..Len(ch'[l]),
                          ch'[l][i].ret = "sync", ch'[l][i].c = cur'[l].c
                   PROVE  FALSE
        OBVIOUS
      <4>1. i + 1 \in 1..Len(ch[l]) /\ ch'[l][i] = ch[l][i + 1] /\ 1 \in 1..Len(ch[l])
        BY <1>3, <1>4
      <4>2. i + 1 = 1
        BY <1>4, <3>1, <4>1 DEF LcoreJobsOK
      <4>3. QED
        BY <1>3, <1>4, <4>2
    <3>6. QED
      BY <3>2, <3>3, <3>4, <3>5 DEF LcoreJobsOK
  <2>4. QED
    BY <2>2, <2>3 DEF JobInv
<1>10. \A k \in Lcores : Quiet(k) => Quiet(k)'
  BY <1>4 DEF Quiet, TakeJob
<1>11. QED
  BY <1>1, <1>5, <1>6, <1>7, <1>8, <1>9, <1>10, ListenerFrame DEF TakeJob

(* Running a job keeps the invariant: only a stop job sets done, and the   *)
(* listener then goes on to report.                                        *)
LEMMA RunJobStep ==
  ASSUME IInv, ~crashed, NEW l \in Lcores, RunJob(l)
  PROVE  IInv'
<1> USE DEF IInv, TypeOK
<1>1. CallTypeOK' /\ ChanTypeOK'
  BY DEF CallTypeOK, ChanTypeOK, RunJob, callVars, chanVars
<1>2. InitTypeOK'
  BY DEF InitTypeOK, RunJob, initVars
<1>3. /\ lpc[l] = "run" /\ lpc'[l] \in {"run", "report"}
      /\ \A k \in Lcores : k # l => lpc'[k] = lpc[k] /\ done'[k] = done[k]
      /\ cur' = cur /\ ch' = ch
      /\ lpc' \in [Lcores -> {"off", "launched", "loop", "run", "report", "check", "exit"}]
  BY DEF RunJob, LcoreTypeOK
<1>4. LcoreTypeOK'
  <2>1. done' \in [Lcores -> BOOLEAN]
    BY DEF RunJob, LcoreTypeOK
  <2>2. err' \in [Lcores -> {"nil", "ErrLcorePanic"}]
    BY DEF RunJob, LcoreTypeOK
  <2>3. QED
    BY <1>3, <2>1, <2>2 DEF LcoreTypeOK
<1>5. InitInv'
  BY <1>3, InitFrame DEF RunJob, initVars, callVars, SameInit, SameListeners
<1>6. ListenerInv'
  <2>1. done'[l] => lpc'[l] = "report"
    <3>1. ~done[l]
      BY <1>3 DEF ListenerInv
    <3>2. CASE cur[l].fn = "stop"
      BY <3>2 DEF RunJob, LcoreTypeOK
    <3>3. CASE cur[l].fn # "stop"
      BY <3>1, <3>3 DEF RunJob
    <3>4. QED
      BY <3>2, <3>3
  <2>2. lpc'[l] = "report" /\ cur[l].fn = "stop" => done'[l]
    BY <1>3 DEF RunJob, LcoreTypeOK, InitTypeOK
  <2>3. QED
    BY <1>3, <2>1, <2>2 DEF ListenerInv, Busy
<1>7. \A d \in Callers : SameCall(d)
  BY DEF RunJob, SameCall, callVars, chanVars
<1>8. JobInv'
  BY <1>3, <1>7, JobFrame DEF Busy
<1>9. \A k \in Lcores : Quiet(k) => Quiet(k)'
  BY <1>3 DEF Quiet
<1>10. QED
  BY <1>1, <1>2, <1>4, <1>5, <1>6, <1>7, <1>8, <1>9, ListenerFrame DEF RunJob

(* The listener leaves its loop exactly when done is set. *)
LEMMA CheckDoneStep ==
  ASSUME IInv, NEW l \in Lcores, CheckDone(l)
  PROVE  IInv'
<1> USE DEF IInv, TypeOK
<1>1. CallTypeOK' /\ ChanTypeOK' /\ InitTypeOK'
  BY DEF CallTypeOK, ChanTypeOK, InitTypeOK, CheckDone, callVars, chanVars, initVars
<1>2. LcoreTypeOK'
  BY DEF LcoreTypeOK, CheckDone
<1>3. /\ lpc[l] = "check" /\ lpc'[l] = IF done[l] THEN "exit" ELSE "loop"
      /\ \A k \in Lcores : k # l => lpc'[k] = lpc[k] /\ cur'[k] = cur[k]
      /\ done' = done /\ ch' = ch
  BY DEF CheckDone, LcoreTypeOK
<1>4. InitInv'
  BY <1>3, InitFrame DEF CheckDone, initVars, callVars, SameInit, SameListeners
<1>5. ListenerInv'
  BY <1>3 DEF ListenerInv, Busy
<1>6. \A d \in Callers : SameCall(d)
  BY DEF CheckDone, SameCall, callVars, chanVars
<1>7. JobInv'
  BY <1>3, <1>6, JobFrame DEF Busy
<1>8. \A k \in Lcores : Quiet(k) => Quiet(k)'
  BY <1>3 DEF Quiet
<1>9. QED
  BY <1>1, <1>2, <1>4, <1>5, <1>6, <1>7, <1>8, ListenerFrame DEF CheckDone

(* Reporting a job puts its answer into the channel of its call and leaves *)
(* no other job of that call on the lcore; for a stop job the lcore is     *)
(* quiet from then on.                                                     *)
LEMMA ReportJobStep ==
  ASSUME IInv, NEW l \in Lcores, ReportJob(l)
  PROVE  IInv'
<1> USE DEF IInv, TypeOK
<1>1. CallTypeOK' /\ InitTypeOK' /\ LcoreTypeOK'
  BY DEF CallTypeOK, InitTypeOK, LcoreTypeOK, ReportJob, callVars, initVars
<1>2. /\ lpc[l] = "report" /\ lpc'[l] = "check"
      /\ \A k \in Lcores : k # l => lpc'[k] = lpc[k]
      /\ done' = done /\ ch' = ch /\ cur' = cur
      /\ UNCHANGED <<callVars, initVars, stopRet, eal, ctxs>>
  BY DEF ReportJob, LcoreTypeOK
<1>3. cur[l] \in lcoreJob /\ JobOK(l, cur[l])
  BY <1>2 DEF ListenerInv, Busy, JobInv, LcoreJobsOK
<1>4. PICK m \in Result : m = [n |-> cur[l].n, l |-> l, err |-> err[l]]
  BY <1>3 DEF lcoreJob, Result, LcoreTypeOK
<1>5. m.l = l
  BY <1>4
<1>6. cur[l].c \in Callers
  BY <1>3 DEF lcoreJob
<1>7. \/ cur[l].ret = "sync" /\ sync' = [sync EXCEPT ![cur[l].c] = @ \cup {m}] /\ async' = async
      \/ cur[l].ret = "async" /\ sync' = sync /\ async' = [async EXCEPT ![cur[l].c] = @ \cup {m}]
      \/ sync' = sync /\ async' = async
  BY <1>4 DEF ReportJob, chanVars
<1>8. ChanTypeOK'
  BY <1>6, <1>7 DEF ChanTypeOK
<1>9. InitInv'
  BY <1>2, InitFrame DEF initVars, callVars, SameInit, SameListeners
<1>10. ListenerInv'
  BY <1>2 DEF ListenerInv, Busy
<1>11. \A k \in Lcores : Quiet(k) => Quiet(k)'
  BY <1>2 DEF Quiet
<1>12. CASE sync' = sync
  <2>1. \A d \in Callers : SameCall(d)
    BY <1>2, <1>12 DEF SameCall, callVars
  <2>2. JobInv'
    BY <1>2, <2>1, JobFrame DEF Busy
  <2>3. QED
    BY <1>1, <1>2, <1>8, <1>9, <1>10, <1>11, <2>1, <2>2, ListenerFrame
<1>13. CASE sync' # sync
  <2> DEFINE c == cur[l].c
  <2>1. /\ cur[l].ret = "sync" /\ sync'[c] = sync[c] \cup {m}
        /\ \A d \in Callers : d # c => SameCall(d)
    BY <1>2, <1>6, <1>7, <1>13 DEF ChanTypeOK, SameCall, callVars
  <2>2. /\ InCall(c) /\ fn[c] = cur[l].fn /\ l \in span[c] /\ l \notin from[c]
        /\ l \notin todo[c] /\ \A x \in sync[c] : x.l # l
    BY <1>3, <2>1 DEF JobOK
  <2>3. JobInv'
    <3>1. ASSUME NEW k \in Lcores, NEW jb \in lcoreJob, JobOK(k, jb),
                 k # l \/ jb.ret # "sync" \/ jb.c # c
          PROVE  JobOK(k, jb)'
      <4>1. jb.c \in Callers
        BY DEF lcoreJob
      <4>2. CASE jb.c # c
        BY <2>1, <3>1, <4>1, <4>2 DEF JobOK, SameCall, InCall
      <4>3. CASE jb.c = c
        BY <1>2, <1>5, <2>1, <3>1, <4>3 DEF JobOK, callVars, InCall
      <4>4. QED
        BY <4>2, <4>3
    <3>2. ASSUME NEW k \in Lcores PROVE LcoreJobsOK(k)'
      <4>1. /\ ch'[k] = ch[k] /\ ch[k] \in Seq(lcoreJob) /\ LcoreJobsOK(k)
            /\ cur'[k] = cur[k] /\ (Busy(k)' => Busy(k) /\ k # l)
        BY <1>2 DEF LcoreTypeOK, Busy, JobInv
      <4>2. ASSUME NEW i \in 1..Len(ch'[k]) PROVE JobOK(k, ch[k][i])'
        <5>1. PICK jb \in lcoreJob : jb = ch[k][i]
          BY <4>1
        <5>2. k # l \/ jb.ret # "sync" \/ jb.c # c
          BY <1>2, <2>1, <4>1, <5>1 DEF LcoreJobsOK, Busy
        <5>3. JobOK(k, jb)
          BY <4>1, <5>1 DEF LcoreJobsOK
        <5>4. JobOK(k, jb)' /\ ch'[k][i] = jb
          BY <3>1, <4>1, <5>1, <5>2, <5>3
        <5>5. QED
          BY <5>4 DEF JobOK
      <4>3. ASSUME Busy(k)' PROVE JobOK(k, cur[k])'
        <5>1. PICK jb \in lcoreJob : jb = cur[k]
          BY <4>1, <4>3 DEF ListenerInv
        <5>2. JobOK(k, jb)' /\ cur'[k] = jb
          BY <3>1, <4>1, <4>3, <5>1 DEF LcoreJobsOK
        <5>3. QED
          BY <5>2 DEF JobOK
      <4>4. QED
        BY <4>1, <4>2, <4>3 DEF LcoreJobsOK
    <3>3. QED
      BY <3>2 DEF JobInv
  <2>4. CallInv'
    <3>1. c \in Callers /\ CallOK(c)
      BY <1>6 DEF CallInv
    <3>2. \A d \in Callers : CallOK(d)'
      <4> SUFFICES ASSUME NEW d \in Callers PROVE CallOK(d)'
        OBVIOUS
      <4>1. CASE d # c
        BY <2>1, <4>1, CallFrame
      <4>2. CASE d = c
        BY <1>2, <1>5, <2>1, <2>2, <3>1, <4>2 DEF CallOK, callVars, InCall
      <4>3. QED
        BY <4>1, <4>2
    <3>3. QED
      BY <3>2 DEF CallInv
  <2>5. StopInv'
    <3>1. fn[c] = "stop" => Quiet(l)'
      BY <1>2, <2>2 DEF ListenerInv, Quiet
    <3>2. ASSUME NEW d \in Callers PROVE StopOK(d)'
      <4>1. CASE d # c
        BY <1>11, <2>1, <4>1, StopFrame
      <4>2. CASE d = c
        <5>1. StopOK(d) /\ CallOK(d)
          BY DEF StopInv, CallInv
        <5>2. QED
          BY <1>2, <1>5, <1>11, <2>1, <2>2, <3>1, <4>2, <5>1
          DEF StopOK, CallOK, callVars, InCall
      <4>3. QED
        BY <4>1, <4>2
    <3>3. QED
      BY <1>2, <1>11, <3>2 DEF StopInv
  <2>6. QED
    BY <1>1, <1>8, <1>9, <1>10, <2>3, <2>4, <2>5
<1>14. QED
  BY <1>12, <1>13

-----------------------------------------------------------------------------
(* The theorems *)

(* The initial states satisfy the invariant. *)
LEMMA InitEstablishes == Init => IInv
<1> SUFFICES ASSUME Init PROVE IInv
  OBVIOUS
<1>1. TypeOK
  <2>1. CallTypeOK
    BY ExecutorAssumption DEF Init, CallTypeOK
  <2>2. ChanTypeOK /\ InitTypeOK
    BY ExecutorAssumption DEF Init, ChanTypeOK, InitTypeOK
  <2>3. LcoreTypeOK
    BY ExecutorAssumption DEF Init, LcoreTypeOK
  <2>4. QED
    BY <2>1, <2>2, <2>3 DEF TypeOK
<1>2. InitInv
  BY DEF Init, InitInv, InitCallOK, Launched, Listening
<1>3. ListenerInv /\ JobInv
  BY DEF Init, ListenerInv, JobInv, LcoreJobsOK, Busy
<1>4. CallInv /\ StopInv
  BY DEF Init, CallInv, CallOK, StopInv, StopOK, InCall
<1>5. QED
  BY <1>1, <1>2, <1>3, <1>4 DEF IInv

(* A step of the rest of the program keeps the invariant. *)
LEMMA StutterKeeps ==
  ASSUME IInv, UNCHANGED vars
  PROVE  IInv'
<1> USE DEF IInv, TypeOK, vars
<1>1. TypeOK'
  BY DEF CallTypeOK, ChanTypeOK, InitTypeOK, LcoreTypeOK, callVars, chanVars, initVars,
         lcoreVars
<1>2. InitInv'
  BY InitFrame DEF initVars, callVars, lcoreVars, SameInit, SameListeners
<1>3. \A d \in Callers : SameCall(d)
  BY DEF SameCall, callVars, chanVars
<1>4. QED
  BY <1>1, <1>2, <1>3, CallsFrame

(* Every step of a caller, of a goroutine of Init and of a listener keeps  *)
(* the invariant.                                                          *)
LEMMA NextKeeps ==
  ASSUME IInv, [Next]_vars
  PROVE  IInv'
<1>1. CASE UNCHANGED vars
  BY <1>1, StutterKeeps
<1>2. ASSUME ~crashed, NEW c \in Callers, CallerNext(c) PROVE IInv'
  BY <1>2, CallInitStep, InitOnceStep, InitReturnStep, EalInitFailStep, EalInitOKStep,
     ealLaunchStep, ExecOnLcoreStep, ExecOnLcoreAsyncStep, StopLcoresStep, SendJobStep,
     ReceiveResultStep, DrainAsyncStep, CleanupStep
  DEF CallerNext
<1>3. ASSUME ~crashed, NEW l \in Lcores, ListenerNext(l) PROVE IInv'
  BY <1>3, ListenerStartStep, TakeJobStep, RunJobStep, ReportJobStep, CheckDoneStep
  DEF ListenerNext
<1>4. QED
  BY <1>1, <1>2, <1>3 DEF Next

(* The inductive invariant holds in every reachable state, for any number  *)
(* of callers, lcores and calls and any channel capacities.                *)
THEOREM Inductive == Spec => []IInv
BY InitEstablishes, NextKeeps, PTL DEF Spec

(* Every variable keeps its type; in particular the WaitGroups of Init     *)
(* never go negative and no channel exceeds its capacity.                  *)
THEOREM TypeCorrect == Spec => []TypeOK
<1>1. IInv => TypeOK
  BY DEF IInv
<1>2. QED
  BY <1>1, Inductive, PTL

(* After a successful Init or InitOnce every lcore listens, however the    *)
(* start of the listeners interleaves with the return of Init.             *)
THEOREM InitCompleteThm == Spec => []InitComplete
<1>1. IInv => InitComplete
  <2> SUFFICES ASSUME IInv, NEW c \in Callers, initOK[c]
               PROVE  ctxs = Lcores /\ \A l \in Lcores : lpc[l] \notin {"off", "launched"}
    BY DEF InitComplete
  <2>1. \A l \in Lcores : Listening(l)
    BY DEF IInv, InitInv, InitCallOK
  <2>2. launcher # None
    BY <2>1, ExecutorAssumption DEF IInv, InitInv, Listening
  <2>3. QED
    BY <2>1, <2>2 DEF IInv, InitInv, Listening
<1>2. QED
  BY <1>1, Inductive, PTL

(* After StopLcores has returned no lcore runs a submitted function any    *)
(* more.                                                                   *)
THEOREM QuietAfterStopThm == Spec => []QuietAfterStop
<1>1. IInv => QuietAfterStop
  BY DEF IInv, StopInv, Quiet, QuietAfterStop
<1>2. QED
  BY <1>1, Inductive, PTL

(* A Cleanup that follows StopLcores never meets a running function. *)
THEOREM CleanupQuietThm == Spec => []CleanupQuiet
<1>1. IInv => CleanupQuiet
  BY DEF IInv, StopInv, Quiet, CleanupQuiet
<1>2. QED
  BY <1>1, Inductive, PTL

(* No EAL thread ever blocks on the result channel of ExecOnLcore or       *)
(* StopLcores.                                                             *)
THEOREM ReportNeverBlocksThm == Spec => []ReportNeverBlocks
<1>1. IInv => ReportNeverBlocks
  <2> SUFFICES ASSUME IInv, NEW l \in Lcores, lpc[l] = "report", cur[l].ret = "sync"
               PROVE  /\ cur[l].n = calls[cur[l].c] /\ pc[cur[l].c] \in {"send", "wait"}
                      /\ Cardinality(sync[cur[l].c]) < SyncCap(cur[l].c)
    BY DEF ReportNeverBlocks
  <2>1. PICK c \in Callers : c = cur[l].c
    BY DEF IInv, ListenerInv, Busy, lcoreJob
  <2>2. JobOK(l, cur[l]) /\ CallOK(c) /\ StopOK(c)
    BY DEF IInv, JobInv, LcoreJobsOK, Busy, CallInv, StopInv
  <2>3. /\ InCall(c) /\ calls[c] = cur[l].n /\ l \in span[c]
        /\ \A m \in sync[c] : m.l # l /\ m.l \in span[c]
        /\ \A m1, m2 \in sync[c] : m1.l = m2.l => m1 = m2
    BY <2>1, <2>2 DEF JobOK, CallOK
  <2>4. CASE fn[c] # "stop"
    <3>1. sync[c] = {}
      BY <2>2, <2>3, <2>4 DEF CallOK
    <3>2. QED
      BY <2>1, <2>3, <2>4, <3>1, FS_EmptySet DEF InCall, SyncCap
  <2>5. CASE fn[c] = "stop"
    <3>1. span[c] = Lcores
      BY <2>2, <2>3, <2>5 DEF StopOK
    <3>2. Cardinality(Lcores \ {l}) = Cardinality(Lcores) - 1 /\ IsFiniteSet(Lcores \ {l})
      BY ExecutorAssumption, FS_RemoveElement, Zenon
    <3> DEFINE f == [m \in sync[c] |-> m.l]
    <3>3. f \in Injection(sync[c], Lcores \ {l})
      BY <2>3, <3>1 DEF Injection, IsInjective
    <3>4. Cardinality(sync[c]) <= Cardinality(Lcores \ {l}) /\ IsFiniteSet(sync[c])
      <4> HIDE DEF f
      <4> QED
        BY <3>2, <3>3, FS_Injection, Zenon
    <3>5. Cardinality(sync[c]) \in Nat
      BY <3>4, FS_CardinalityType
    <3>6. Cardinality(sync[c]) < Cardinality(Lcores)
      BY <3>2, <3>4, <3>5, LcoresCard
    <3>7. QED
      BY <2>1, <2>3, <2>5, <3>6 DEF InCall, SyncCap
  <2>6. QED
    BY <2>4, <2>5
<1>2. QED
  BY <1>1, Inductive, PTL

-----------------------------------------------------------------------------
(* What a call returns.  A result keeps its meaning from the end of the    *)
(* function on its lcore through the channel to the caller: the job of an  *)
(* ExecOnLcore is tied to the call by IInv, so what the lcore reports is   *)
(* about the function of the call that receives it.                        *)

Outcome(c, e) ==
  \/ e = "ErrLcoreInvalid"
  \/ BadLcore \notin span[c] /\ e = IF fn[c] = "panic" THEN "ErrLcorePanic" ELSE "nil"

RanOK(l) ==
  lpc[l] = "report" => err[l] = IF cur[l].fn = "panic" THEN "ErrLcorePanic" ELSE "nil"

AnswerOK(c) ==
  ret[c] = "sync" /\ fn[c] # "stop" =>
    IF InCall(c) THEN \A m \in sync[c] : Outcome(c, m.err) ELSE Outcome(c, res[c])

FaithInv == (\A l \in Lcores : RanOK(l)) /\ (\A c \in Callers : AnswerOK(c))

(* A step that leaves a call alone, or only moves its caller in or out of  *)
(* Init, keeps its answers.                                                *)
LEMMA AnswerFrame ==
  ASSUME TypeOK, NEW d \in Callers, AnswerOK(d),
         /\ fn'[d] = fn[d] /\ ret'[d] = ret[d] /\ span'[d] = span[d] /\ res'[d] = res[d]
         /\ sync'[d] = sync[d],
         pc'[d] = pc[d] \/ (pc[d] \in {"idle", "initwait"} /\ pc'[d] \in {"idle", "initwait"})
  PROVE  AnswerOK(d)'
BY DEF AnswerOK, Outcome, InCall

(* A step of a caller keeps answers with the calls they belong to. *)
LEMMA FaithCaller ==
  ASSUME IInv, FaithInv, NEW c \in Callers, CallerNext(c)
  PROVE  FaithInv'
<1> USE DEF IInv, TypeOK
<1>1. CASE \/ CallInit(c) \/ InitOnce(c) \/ InitReturn(c) \/ Cleanup(c)
           \/ EalInitFail(c) \/ EalInitOK(c)
  <2>1. UNCHANGED <<lpc, err, cur, fn, ret, span, res, sync>>
    BY <1>1 DEF CallInit, InitOnce, InitReturn, Cleanup, EalInitFail, EalInitOK,
                callVars, chanVars, lcoreVars
  <2>2. \A d \in Callers :
          pc'[d] = pc[d] \/ (pc[d] \in {"idle", "initwait"} /\ pc'[d] \in {"idle", "initwait"})
    BY <1>1 DEF CallInit, InitOnce, SpawnInit, StartCall, InitReturn, Cleanup, EalInitFail,
                EalInitOK, callVars, CallTypeOK
  <2>3. \A d \in Callers : AnswerOK(d)'
    BY <2>1, <2>2, AnswerFrame DEF FaithInv
  <2>4. QED
    BY <2>1, <2>3 DEF FaithInv, RanOK
<1>2. CASE ealLaunch(c)
  <2>1. UNCHANGED <<pc, fn, ret, span, res, sync>> /\ \A l \in Lcores : lpc'[l] = "launched"
    BY <1>2 DEF ealLaunch, callVars, chanVars
  <2>2. \A d \in Callers : AnswerOK(d)'
    BY <2>1, AnswerFrame DEF FaithInv
  <2>3. QED
    BY <2>1, <2>2 DEF FaithInv, RanOK
<1>3. CASE DrainAsync(c)
  <2>1. UNCHANGED <<pc, fn, ret, span, res, sync, lpc, err, cur>>
    BY <1>3 DEF DrainAsync, callVars, lcoreVars
  <2>2. \A d \in Callers : AnswerOK(d)'
    BY <2>1, AnswerFrame DEF FaithInv
  <2>3. QED
    BY <2>1, <2>2 DEF FaithInv, RanOK
<1>4. ASSUME UNCHANGED <<lpc, err, cur>>, AnswerOK(c)',
             \A d \in Callers \ {c} :
               /\ fn'[d] = fn[d] /\ ret'[d] = ret[d] /\ span'[d] = span[d] /\ res'[d] = res[d]
               /\ sync'[d] = sync[d] /\ pc'[d] = pc[d]
      PROVE  FaithInv'
  <2>1. \A d \in Callers \ {c} : AnswerOK(d)'
    BY <1>4, AnswerFrame DEF FaithInv
  <2>2. QED
    BY <1>4, <2>1 DEF FaithInv, RanOK
<1>5. ASSUME NEW l \in Lcores \cup {BadLcore}, NEW f \in Fns, ExecOnLcore(c, l, f)
      PROVE  FaithInv'
  <2>1. UNCHANGED <<lpc, err, cur>> /\ InCall(c)'
    BY <1>5 DEF ExecOnLcore, Submit, StartCall, lcoreVars, InCall, CallTypeOK
  <2>2. \A m \in sync'[c] : m.err = "ErrLcoreInvalid"
    BY <1>5 DEF ExecOnLcore, ChanTypeOK
  <2>3. \A d \in Callers \ {c} :
               /\ fn'[d] = fn[d] /\ ret'[d] = ret[d] /\ span'[d] = span[d] /\ res'[d] = res[d]
               /\ sync'[d] = sync[d] /\ pc'[d] = pc[d]
    BY <1>5 DEF ExecOnLcore, Submit, CallTypeOK, ChanTypeOK
  <2>4. QED
    BY <1>4, <2>1, <2>2, <2>3 DEF AnswerOK, Outcome
<1>6. ASSUME NEW l \in Lcores \cup {BadLcore}, NEW f \in Fns, NEW r \in {"async", "nil"},
             ExecOnLcoreAsync(c, l, f, r)
      PROVE  FaithInv'
  <2>1. UNCHANGED <<lpc, err, cur>> /\ ret'[c] # "sync"
    BY <1>6 DEF ExecOnLcoreAsync, Submit, lcoreVars, CallTypeOK
  <2>2. \A d \in Callers \ {c} :
               /\ fn'[d] = fn[d] /\ ret'[d] = ret[d] /\ span'[d] = span[d] /\ res'[d] = res[d]
               /\ sync'[d] = sync[d] /\ pc'[d] = pc[d]
    BY <1>6 DEF ExecOnLcoreAsync, Submit, CallTypeOK, ChanTypeOK
  <2>3. QED
    BY <1>4, <2>1, <2>2 DEF AnswerOK
<1>7. CASE StopLcores(c)
  <2>1. UNCHANGED <<lpc, err, cur>> /\ fn'[c] = "stop"
    BY <1>7 DEF StopLcores, Submit, lcoreVars, CallTypeOK
  <2>2. \A d \in Callers \ {c} :
               /\ fn'[d] = fn[d] /\ ret'[d] = ret[d] /\ span'[d] = span[d] /\ res'[d] = res[d]
               /\ sync'[d] = sync[d] /\ pc'[d] = pc[d]
    BY <1>7 DEF StopLcores, Submit, CallTypeOK, ChanTypeOK
  <2>3. QED
    BY <1>4, <2>1, <2>2 DEF AnswerOK
<1>8. CASE SendJob(c)
  <2>1. UNCHANGED <<lpc, err, cur, fn, ret, span, res, sync>>
    BY <1>8 DEF SendJob, lcoreVars, chanVars
  <2>2. ret[c] = "sync" => InCall(c) /\ InCall(c)'
    BY <1>8, <2>1 DEF SendJob, InCall, CallTypeOK
  <2>3. AnswerOK(c)'
    BY <2>1, <2>2 DEF FaithInv, AnswerOK, Outcome
  <2>4. \A d \in Callers \ {c} : pc'[d] = pc[d]
    BY <1>8 DEF SendJob, CallTypeOK
  <2>5. QED
    BY <1>4, <2>1, <2>3, <2>4
<1>9. CASE ReceiveResult(c)
  <2>1. PICK m \in sync[c] :
          /\ sync' = [sync EXCEPT ![c] = @ \ {m}]
          /\ res' = [res EXCEPT ![c] = m.err]
    BY <1>9 DEF ReceiveResult
  <2>2. UNCHANGED <<lpc, err, cur, fn, ret, span>>
    BY <1>9 DEF ReceiveResult, lcoreVars
  <2>3. InCall(c)
    BY <1>9 DEF ReceiveResult, InCall, CallInv, CallOK
  <2>4. AnswerOK(c)'
    BY <2>1, <2>2, <2>3 DEF FaithInv, AnswerOK, Outcome, CallTypeOK, ChanTypeOK
  <2>5. \A d \in Callers \ {c} : pc'[d] = pc[d] /\ res'[d] = res[d] /\ sync'[d] = sync[d]
    BY <1>9 DEF ReceiveResult, CallTypeOK, ChanTypeOK
  <2>6. QED
    BY <1>4, <2>2, <2>4, <2>5
<1>10. QED
  BY <1>1, <1>2, <1>3, <1>5, <1>6, <1>7, <1>8, <1>9 DEF CallerNext

(* A step of lcoreFuncListener answers a job with the outcome of its own *)
(* function.                                                             *)
LEMMA FaithListener ==
  ASSUME IInv, FaithInv, NEW l \in Lcores, ListenerNext(l)
  PROVE  FaithInv'
<1> USE DEF IInv, TypeOK
<1>1. UNCHANGED <<pc, fn, ret, span, res>>
  BY DEF ListenerNext, ListenerStart, TakeJob, RunJob, ReportJob, CheckDone, callVars
<1>2. ASSUME NEW k \in Lcores \ {l} PROVE RanOK(k)'
  <2>1. lpc'[k] = lpc[k] /\ err'[k] = err[k] /\ cur'[k] = cur[k]
    BY DEF ListenerNext, ListenerStart, TakeJob, RunJob, ReportJob, CheckDone, LcoreTypeOK
  <2>2. QED
    BY <2>1 DEF FaithInv, RanOK
<1>3. RanOK(l)'
  <2>1. CASE RunJob(l)
    BY <2>1 DEF RunJob, RanOK, LcoreTypeOK
  <2>2. CASE ~RunJob(l)
    BY <2>2 DEF ListenerNext, ListenerStart, TakeJob, ReportJob, CheckDone, RanOK, LcoreTypeOK
  <2>3. QED
    BY <2>1, <2>2
<1>4. CASE ~(ReportJob(l) /\ cur[l].ret = "sync")
  <2>1. UNCHANGED sync
    BY <1>4 DEF ListenerNext, ListenerStart, TakeJob, RunJob, ReportJob, CheckDone, chanVars
  <2>2. \A d \in Callers : AnswerOK(d)'
    BY <1>1, <2>1, AnswerFrame DEF FaithInv
  <2>3. QED
    BY <1>2, <1>3, <2>2 DEF FaithInv
<1>5. CASE ReportJob(l) /\ cur[l].ret = "sync"
  <2>1. lpc[l] = "report" /\ cur[l] \in lcoreJob /\ JobOK(l, cur[l]) /\ RanOK(l)
    BY <1>5 DEF ReportJob, ListenerInv, JobInv, LcoreJobsOK, Busy, FaithInv
  <2>2. PICK c \in Callers : c = cur[l].c
    BY <2>1 DEF lcoreJob
  <2> DEFINE m == [n |-> cur[l].n, l |-> l, err |-> err[l]]
  <2>3. sync' = [sync EXCEPT ![c] = @ \cup {m}]
    BY <1>5, <2>2 DEF ReportJob
  <2>4. InCall(c) /\ fn[c] = cur[l].fn /\ l \in span[c]
    BY <1>5, <2>1, <2>2 DEF JobOK
  <2>5. fn[c] # "stop" => BadLcore \notin span[c]
    <3>1. fn[c] # "stop" => \E x \in Lcores \cup {BadLcore} : span[c] = {x}
      BY <2>4 DEF CallInv, CallOK
    <3>2. BadLcore # l
      BY ExecutorAssumption
    <3>3. QED
      BY <2>4, <3>1, <3>2
  <2>6. fn[c] # "stop" => Outcome(c, m.err)
    BY <2>1, <2>4, <2>5 DEF RanOK, Outcome
  <2> HIDE DEF m
  <2>7. sync'[c] = sync[c] \cup {m} /\ \A d \in Callers \ {c} : sync'[d] = sync[d]
    BY <2>3, <2>4 DEF ChanTypeOK
  <2>8. AnswerOK(c)'
    BY <1>1, <2>4, <2>6, <2>7 DEF FaithInv, AnswerOK, Outcome, InCall
  <2>9. \A d \in Callers \ {c} : AnswerOK(d)'
    BY <1>1, <2>7, AnswerFrame DEF FaithInv
  <2>10. QED
    BY <1>2, <1>3, <2>8, <2>9 DEF FaithInv
<1>6. QED
  BY <1>4, <1>5

(* Every ExecOnLcore returns the outcome of the function it submitted, or  *)
(* ErrLcoreInvalid, whatever other callers and earlier calls have sent to  *)
(* the same lcore.                                                         *)
THEOREM ResultFaithfulThm == Spec => []ResultFaithful
<1>1. Init => FaithInv
  BY DEF Init, FaithInv, RanOK, AnswerOK
<1>2. IInv /\ FaithInv /\ [Next]_vars => FaithInv'
  <2> SUFFICES ASSUME IInv, FaithInv, [Next]_vars PROVE FaithInv'
    OBVIOUS
  <2>1. CASE UNCHANGED vars
    <3>1. UNCHANGED <<pc, fn, ret, span, res, sync, lpc, err, cur>>
      BY <2>1 DEF vars, callVars, chanVars, lcoreVars
    <3>2. \A d \in Callers : AnswerOK(d)'
      BY <3>1, AnswerFrame DEF FaithInv, IInv
    <3>3. QED
      BY <3>1, <3>2 DEF FaithInv, RanOK
  <2>2. QED
    BY <2>1, FaithCaller, FaithListener DEF Next
<1>3. IInv /\ FaithInv => ResultFaithful
  BY DEF FaithInv, AnswerOK, Outcome, InCall, ResultFaithful
<1>4. QED
  BY <1>1, <1>2, <1>3, Inductive, PTL DEF Spec
=============================================================================
