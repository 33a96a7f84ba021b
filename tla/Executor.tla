------------------------------ MODULE Executor ------------------------------
(***************************************************************************)
(* The lcore executor of package eal (eal/init.go, eal/init_once.go,       *)
(* eal/eal.go).                                                            *)
(*                                                                         *)
(* Init starts EAL in a goroutine of its own, which registers one context  *)
(* per lcore in goEAL.lcores and launches lcoreFuncListener on every       *)
(* lcore.  Each listener takes jobs from the buffered channel of its       *)
(* context, runs them and sends their error to the channel the caller      *)
(* supplied.  StopLcores sends every lcore a job that sets ctx.done.       *)
(*                                                                         *)
(* Threads: the goroutines of the application (Callers), the goroutine     *)
(* that every Init call spawns (state ipc[c]) and the EAL threads          *)
(* (Lcores).  One action is one step of a thread between two operations    *)
(* other threads can see: a channel send or receive, a WaitGroup           *)
(* operation, a lock, a call into DPDK.                                    *)
(***************************************************************************)
EXTENDS Naturals, Sequences, FiniteSets

CONSTANTS
  Callers,          (* goroutines that call the package *)
  Lcores,           (* ids rte_get_next_lcore() enumerates *)
  BadLcore,         (* an id EAL does not know *)
  lcoreJobsBuffer,  (* capacity of the channel of an lcore, 32 in the code *)
  AsyncCap,         (* capacity of the channel a caller gives ExecOnLcoreAsync *)
  PanicAsErr,       (* the package variable, set before lcores run *)
  Ops,              (* which functions of the package the callers use *)
  Fns,              (* how the functions that callers submit behave *)
  MaxCalls,         (* bound: calls a caller makes *)
  None              (* no job, no lock holder *)

ASSUME ExecutorAssumption ==
  /\ IsFiniteSet(Lcores) /\ Lcores # {} /\ Lcores \subseteq Nat
  /\ BadLcore \in Nat \ Lcores
  /\ lcoreJobsBuffer \in Nat \ {0} /\ AsyncCap \in Nat \ {0} /\ MaxCalls \in Nat
  /\ PanicAsErr \in BOOLEAN
  /\ Ops \subseteq {"init", "once", "exec", "async", "stop", "cleanup"}
  /\ Fns \subseteq {"ok", "panic", "loop"}
  /\ None \notin Callers

VARIABLES
  pc,        (* what a caller is doing *)
  calls,     (* number of calls it has made; names its current call *)
  fn,        (* function its current or last call submits; "stop" for StopLcores *)
  ret,       (* the ret argument: a fresh channel, the caller's own one, or nil *)
  span,      (* lcores its current or last call addresses *)
  todo,      (* lcores of that call that have not been sent their job yet *)
  left,      (* results it still has to receive before it returns *)
  from,      (* history: lcores whose result it has received *)
  res,       (* the error its last receive returned *)
  sync,      (* content of the channel ExecOnLcore or StopLcores made *)
  async,     (* content of the caller's own channel *)
  ipc,       (* the goroutine Init spawned *)
  wg,        (* the WaitGroup of Init *)
  ierr,      (* Init's named result err is not nil *)
  initOK,    (* an Init or InitOnce of this caller returned without error *)
  stopRet,   (* history: callers whose StopLcores has returned *)
  launcher,  (* the Init call whose goroutine launched the lcores *)
  mutex,     (* ealOnce.Mutex *)
  already,   (* ealOnce.already *)
  eal,       (* EAL itself *)
  ctxs,      (* keys of goEAL.lcores *)
  ch,        (* LcoreCtx.ch *)
  done,      (* LcoreCtx.done *)
  lpc,       (* where lcoreFuncListener is *)
  cur,       (* the job it has taken *)
  err,       (* the error of that job *)
  crashed    (* a panic nobody recovers has ended the process *)

callVars  == <<pc, calls, fn, ret, span, todo, left, from, res>>
chanVars  == <<sync, async>>
initVars  == <<ipc, wg, ierr, initOK, launcher, mutex, already>>
lcoreVars == <<done, lpc, cur, err>>
vars == <<callVars, chanVars, initVars, lcoreVars, stopRet, eal, ctxs, ch, crashed>>

(* lcoreJob, named by the call (c, n) it belongs to and its lcore. *)
lcoreJob == [c : Callers, n : 0..MaxCalls, l : Lcores,
             fn : Fns \cup {"stop"}, ret : {"sync", "async", "nil"}]

(* What travels through a result channel. *)
Result == [n : 0..MaxCalls, l : Lcores \cup {BadLcore},
           err : {"nil", "ErrLcorePanic", "ErrLcoreInvalid"}]

Init ==
  /\ pc = [c \in Callers |-> "idle"]
  /\ calls = [c \in Callers |-> 0]
  /\ fn = [c \in Callers |-> "none"]
  /\ ret = [c \in Callers |-> "nil"]
  /\ span = [c \in Callers |-> {}]
  /\ todo = [c \in Callers |-> {}]
  /\ left = [c \in Callers |-> 0]
  /\ from = [c \in Callers |-> {}]
  /\ res = [c \in Callers |-> "nil"]
  /\ sync = [c \in Callers |-> {}]
  /\ async = [c \in Callers |-> {}]
  /\ ipc = [c \in Callers |-> "none"]
  /\ wg = [c \in Callers |-> 0]
  /\ ierr = [c \in Callers |-> FALSE]
  /\ initOK = [c \in Callers |-> FALSE]
  /\ stopRet = {}
  /\ launcher = None
  /\ mutex = None
  /\ already = FALSE
  /\ eal = "none"
  /\ ctxs = {}
  /\ ch = [l \in Lcores |-> <<>>]
  /\ done = [l \in Lcores |-> FALSE]
  /\ lpc = [l \in Lcores |-> "off"]
  /\ cur = [l \in Lcores |-> None]
  /\ err = [l \in Lcores |-> "nil"]
  /\ crashed = FALSE

(* A caller that is not inside the package starts call number calls[c] + 1. *)
StartCall(c, op) ==
  /\ op \in Ops
  /\ pc[c] = "idle"
  /\ calls[c] < MaxCalls
  /\ calls' = [calls EXCEPT ![c] = @ + 1]

-----------------------------------------------------------------------------
(* Init and InitOnce *)

(* Init up to wg.Wait(): the WaitGroup starts at one and the goroutine runs. *)
SpawnInit(c) ==
  /\ pc' = [pc EXCEPT ![c] = "initwait"]
  /\ wg' = [wg EXCEPT ![c] = 1]
  /\ ierr' = [ierr EXCEPT ![c] = FALSE]
  /\ ipc' = [ipc EXCEPT ![c] = "ealInit"]

CallInit(c) ==
  /\ StartCall(c, "init")
  /\ SpawnInit(c)
  /\ UNCHANGED <<fn, ret, span, todo, left, from, res, chanVars, initOK, launcher,
                 mutex, already, lcoreVars, stopRet, eal, ctxs, ch, crashed>>

(* InitOnce takes the lock; a caller that finds it held waits. *)
InitOnce(c) ==
  /\ StartCall(c, "once")
  /\ mutex = None
  /\ \/ /\ ~already
        /\ mutex' = c
        /\ SpawnInit(c)
        /\ UNCHANGED initOK
     \/ /\ already
        /\ initOK' = [initOK EXCEPT ![c] = TRUE]
        /\ UNCHANGED <<pc, wg, ierr, ipc, mutex>>
  /\ UNCHANGED <<fn, ret, span, todo, left, from, res, chanVars, launcher, already,
                 lcoreVars, stopRet, eal, ctxs, ch, crashed>>

(* Mutant: the error path forgets wg.Done(). *)
EalInitFailNoDone(c) ==
  /\ ipc[c] = "ealInit"
  /\ ierr' = [ierr EXCEPT ![c] = TRUE]
  /\ ipc' = [ipc EXCEPT ![c] = "none"]
  /\ UNCHANGED <<callVars, chanVars, wg, initOK, launcher, mutex, already, lcoreVars,
                 stopRet, eal, ctxs, ch, crashed>>

(* rte_eal_init reports an error: bad arguments, or EAL is already up. *)
EalInitFail(c) ==
  /\ ipc[c] = "ealInit"
  /\ ierr' = [ierr EXCEPT ![c] = TRUE]
  /\ wg' = [wg EXCEPT ![c] = @ - 1]
  /\ ipc' = [ipc EXCEPT ![c] = "none"]
  /\ UNCHANGED <<callVars, chanVars, initOK, launcher, mutex, already, lcoreVars,
                 stopRet, eal, ctxs, ch, crashed>>

(* rte_eal_init succeeds, which it does once in the life of a process; the *)
(* goroutine then adds the worker lcores to the WaitGroup.                 *)
EalInitOK(c) ==
  /\ ipc[c] = "ealInit"
  /\ eal = "none"
  /\ eal' = "up"
  /\ wg' = [wg EXCEPT ![c] = @ + Cardinality(Lcores) - 1]
  /\ ipc' = [ipc EXCEPT ![c] = "ealLaunch"]
  /\ UNCHANGED <<callVars, chanVars, ierr, initOK, launcher, mutex, already,
                 lcoreVars, stopRet, ctxs, ch, crashed>>

(* ealLaunch: a context for every lcore, then rte_eal_mp_remote_launch with *)
(* CALL_MAIN, which ends with this goroutine running the main listener.     *)
ealLaunch(c) ==
  /\ ipc[c] = "ealLaunch"
  /\ ctxs' = Lcores
  /\ ch' = [l \in Lcores |-> <<>>]
  /\ done' = [l \in Lcores |-> FALSE]
  /\ lpc' = [l \in Lcores |-> "launched"]
  /\ launcher' = c
  /\ ipc' = [ipc EXCEPT ![c] = "main"]
  /\ UNCHANGED <<callVars, chanVars, wg, ierr, initOK, mutex, already, cur, err,
                 stopRet, eal, crashed>>

(* Mutant: Init does not wait for the WaitGroup. *)
InitReturnEarly(c) ==
  /\ pc[c] = "initwait"
  /\ pc' = [pc EXCEPT ![c] = "idle"]
  /\ initOK' = [initOK EXCEPT ![c] = @ \/ ~ierr[c]]
  /\ already' = IF mutex = c THEN ~ierr[c] ELSE already
  /\ mutex' = IF mutex = c THEN None ELSE mutex
  /\ UNCHANGED <<calls, fn, ret, span, todo, left, from, res, chanVars, ipc, wg, ierr,
                 launcher, lcoreVars, stopRet, eal, ctxs, ch, crashed>>

(* wg.Wait() is released: Init returns, and InitOnce either records the    *)
(* success or panics, releasing its lock in both cases.                    *)
InitReturn(c) ==
  /\ pc[c] = "initwait"
  /\ wg[c] = 0
  /\ pc' = [pc EXCEPT ![c] = "idle"]
  /\ initOK' = [initOK EXCEPT ![c] = @ \/ ~ierr[c]]
  /\ \/ /\ mutex = c
        /\ already' = ~ierr[c]
        /\ mutex' = None
     \/ /\ mutex # c
        /\ UNCHANGED <<already, mutex>>
  /\ UNCHANGED <<calls, fn, ret, span, todo, left, from, res, chanVars, ipc, wg, ierr,
                 launcher, lcoreVars, stopRet, eal, ctxs, ch, crashed>>

-----------------------------------------------------------------------------
(* Submitting jobs *)

(* goEAL.lcores is a plain map that ealLaunch fills: clients reach it only *)
(* when no goroutine is about to.                                          *)
MapReadable == \A c \in Callers : ipc[c] # "ealLaunch"

(* A call addresses the lcores S with function f; its jobs report to r.    *)
(* make(chan error, k) is the reset of sync[c].                            *)
Submit(c, S, f, r) ==
  /\ MapReadable
  /\ fn' = [fn EXCEPT ![c] = f]
  /\ ret' = [ret EXCEPT ![c] = r]
  /\ span' = [span EXCEPT ![c] = S]
  /\ from' = [from EXCEPT ![c] = {}]
  /\ left' = [left EXCEPT ![c] = IF r = "sync" THEN Cardinality(S) ELSE 0]
  /\ UNCHANGED <<res, initVars, lcoreVars, stopRet, eal, ctxs, ch, crashed>>

(* ExecOnLcore; ExecOnMain is this call on the main lcore. *)
ExecOnLcore(c, l, f) ==
  /\ StartCall(c, "exec")
  /\ Submit(c, {l}, f, "sync")
  /\ \/ /\ l \in ctxs
        /\ pc' = [pc EXCEPT ![c] = "send"]
        /\ todo' = [todo EXCEPT ![c] = {l}]
        /\ sync' = [sync EXCEPT ![c] = {}]
     \/ /\ l \notin ctxs
        /\ pc' = [pc EXCEPT ![c] = "wait"]
        /\ todo' = [todo EXCEPT ![c] = {}]
        /\ sync' = [sync EXCEPT ![c] =
             {[n |-> calls'[c], l |-> l, err |-> "ErrLcoreInvalid"]}]
  /\ UNCHANGED async

(* ExecOnLcoreAsync with the caller's own channel (r = "async") or with a  *)
(* nil one.  Reporting an invalid lcore blocks while the channel is full.  *)
ExecOnLcoreAsync(c, l, f, r) ==
  /\ StartCall(c, "async")
  /\ Submit(c, {l}, f, r)
  /\ \/ /\ l \in ctxs
        /\ pc' = [pc EXCEPT ![c] = "send"]
        /\ todo' = [todo EXCEPT ![c] = {l}]
        /\ UNCHANGED async
     \/ /\ l \notin ctxs /\ r = "async"
        /\ Cardinality(async[c]) < AsyncCap
        /\ async' = [async EXCEPT ![c] =
             @ \cup {[n |-> calls'[c], l |-> l, err |-> "ErrLcoreInvalid"]}]
        /\ UNCHANGED <<pc, todo>>
     \/ /\ l \notin ctxs /\ r = "nil"
        /\ UNCHANGED <<pc, todo, async>>
  /\ UNCHANGED sync

(* StopLcores.  Lcores() is read from the EAL configuration, so EAL is up. *)
StopLcores(c) ==
  /\ StartCall(c, "stop")
  /\ ctxs # {}
  /\ Submit(c, Lcores, "stop", "sync")
  /\ pc' = [pc EXCEPT ![c] = "send"]
  /\ todo' = [todo EXCEPT ![c] = Lcores]
  /\ sync' = [sync EXCEPT ![c] = {}]
  /\ UNCHANGED async

(* ctx.ch <- &lcoreJob{fn, ret}, which blocks while the buffer is full.    *)
(* StopLcores serves the lcores in the order of Lcores(), by rising id.    *)
SendJob(c) ==
  /\ pc[c] = "send"
  /\ \E l \in todo[c] :
       /\ \A k \in todo[c] : l <= k
       /\ Len(ch[l]) < lcoreJobsBuffer
       /\ ch' = [ch EXCEPT ![l] = Append(@, [c |-> c, n |-> calls[c], l |-> l,
                                             fn |-> fn[c], ret |-> ret[c]])]
       /\ todo' = [todo EXCEPT ![c] = @ \ {l}]
       /\ pc' = [pc EXCEPT ![c] = IF todo[c] # {l} THEN "send"
                                  ELSE IF ret[c] = "sync" THEN "wait" ELSE "idle"]
  /\ UNCHANGED <<calls, fn, ret, span, left, from, res, chanVars, initVars, lcoreVars,
                 stopRet, eal, ctxs, crashed>>

(* Mutant: StopLcores receives one result instead of one per lcore. *)
ReceiveResultOnce(c) ==
  /\ pc[c] = "wait"
  /\ \E m \in sync[c] :
       /\ sync' = [sync EXCEPT ![c] = @ \ {m}]
       /\ res' = [res EXCEPT ![c] = m.err]
       /\ from' = [from EXCEPT ![c] = @ \cup {m.l}]
  /\ left' = [left EXCEPT ![c] = 0]
  /\ pc' = [pc EXCEPT ![c] = "idle"]
  /\ stopRet' = IF fn[c] = "stop" THEN stopRet \cup {c} ELSE stopRet
  /\ UNCHANGED <<calls, fn, ret, span, todo, async, initVars, lcoreVars, eal, ctxs,
                 ch, crashed>>

(* <-ch of ExecOnLcore and of the second loop of StopLcores. *)
ReceiveResult(c) ==
  /\ pc[c] = "wait"
  /\ \E m \in sync[c] :
       /\ sync' = [sync EXCEPT ![c] = @ \ {m}]
       /\ res' = [res EXCEPT ![c] = m.err]
       /\ from' = [from EXCEPT ![c] = @ \cup {m.l}]
  /\ left' = [left EXCEPT ![c] = @ - 1]
  /\ \/ /\ left[c] = 1
        /\ pc' = [pc EXCEPT ![c] = "idle"]
        /\ stopRet' = IF fn[c] = "stop" THEN stopRet \cup {c} ELSE stopRet
     \/ /\ left[c] # 1
        /\ UNCHANGED <<pc, stopRet>>
  /\ UNCHANGED <<calls, fn, ret, span, todo, async, initVars, lcoreVars, eal, ctxs,
                 ch, crashed>>

(* The goroutine that drains a caller's own channel takes a result. *)
DrainAsync(c) ==
  /\ \E m \in async[c] : async' = [async EXCEPT ![c] = @ \ {m}]
  /\ UNCHANGED <<callVars, sync, initVars, lcoreVars, stopRet, eal, ctxs, ch, crashed>>

(* Cleanup, which programs defer so that it runs after StopLcores. *)
Cleanup(c) ==
  /\ StartCall(c, "cleanup")
  /\ c \in stopRet
  /\ eal' = "down"
  /\ UNCHANGED <<pc, fn, ret, span, todo, left, from, res, chanVars, initVars,
                 lcoreVars, stopRet, ctxs, ch, crashed>>

-----------------------------------------------------------------------------
(* lcoreFuncListener *)

(* The listener signals its launch with wg.Done(). *)
ListenerStart(l) ==
  /\ lpc[l] = "launched"
  /\ wg' = [wg EXCEPT ![launcher] = @ - 1]
  /\ lpc' = [lpc EXCEPT ![l] = "loop"]
  /\ UNCHANGED <<callVars, chanVars, ipc, ierr, initOK, launcher, mutex, already, done,
                 cur, err, stopRet, eal, ctxs, ch, crashed>>

TakeJob(l) ==
  /\ lpc[l] = "loop"
  /\ ch[l] # <<>>
  /\ cur' = [cur EXCEPT ![l] = Head(ch[l])]
  /\ ch' = [ch EXCEPT ![l] = Tail(@)]
  /\ lpc' = [lpc EXCEPT ![l] = "run"]
  /\ UNCHANGED <<callVars, chanVars, initVars, done, err, stopRet, eal, ctxs, crashed>>

(* Mutant: panicCatcher recovers and forgets to set err. *)
RunJobSwallow(l) ==
  /\ lpc[l] = "run"
  /\ cur[l].fn # "loop"
  /\ done' = [done EXCEPT ![l] = @ \/ cur[l].fn = "stop"]
  /\ err' = [err EXCEPT ![l] = "nil"]
  /\ lpc' = [lpc EXCEPT ![l] = "report"]
  /\ UNCHANGED <<callVars, chanVars, initVars, cur, stopRet, eal, ctxs, ch, crashed>>

(* The job's function returns or panics; one that loops stays in "run".    *)
(* panicCatcher turns a panic into an error, without it the process dies.  *)
RunJob(l) ==
  /\ lpc[l] = "run"
  /\ \/ /\ cur[l].fn = "stop"
        /\ done' = [done EXCEPT ![l] = TRUE]
        /\ err' = [err EXCEPT ![l] = "nil"]
        /\ UNCHANGED crashed
     \/ /\ cur[l].fn = "ok"
        /\ err' = [err EXCEPT ![l] = "nil"]
        /\ UNCHANGED <<done, crashed>>
     \/ /\ cur[l].fn = "panic" /\ PanicAsErr
        /\ err' = [err EXCEPT ![l] = "ErrLcorePanic"]
        /\ UNCHANGED <<done, crashed>>
     \/ /\ cur[l].fn = "panic" /\ ~PanicAsErr
        /\ crashed' = TRUE
        /\ UNCHANGED <<done, err>>
  /\ lpc' = [lpc EXCEPT ![l] = IF crashed' THEN "run" ELSE "report"]
  /\ UNCHANGED <<callVars, chanVars, initVars, cur, stopRet, eal, ctxs, ch>>

(* Mutant: make(chan error, 1) also in StopLcores. *)
SyncCapOne(c) == 1

(* Capacity of the channel made for the current call of c. *)
SyncCap(c) == IF fn[c] = "stop" THEN Cardinality(Lcores) ELSE 1

(* Mutant: the result is not sent. *)
ReportJobLost(l) ==
  /\ lpc[l] = "report"
  /\ lpc' = [lpc EXCEPT ![l] = "check"]
  /\ UNCHANGED <<callVars, chanVars, initVars, done, cur, err, stopRet, eal, ctxs, ch,
                 crashed>>

(* if job.ret != nil { job.ret <- err } *)
ReportJob(l) ==
  /\ lpc[l] = "report"
  /\ LET j == cur[l]
         m == [n |-> j.n, l |-> l, err |-> err[l]]
     IN \/ /\ j.ret = "sync"
           /\ Cardinality(sync[j.c]) < SyncCap(j.c)
           /\ sync' = [sync EXCEPT ![j.c] = @ \cup {m}]
           /\ UNCHANGED async
        \/ /\ j.ret = "async"
           /\ Cardinality(async[j.c]) < AsyncCap
           /\ async' = [async EXCEPT ![j.c] = @ \cup {m}]
           /\ UNCHANGED sync
        \/ /\ j.ret = "nil"
           /\ UNCHANGED chanVars
  /\ lpc' = [lpc EXCEPT ![l] = "check"]
  /\ UNCHANGED <<callVars, initVars, done, cur, err, stopRet, eal, ctxs, ch, crashed>>

(* if ctx.done { break } *)
CheckDone(l) ==
  /\ lpc[l] = "check"
  /\ lpc' = [lpc EXCEPT ![l] = IF done[l] THEN "exit" ELSE "loop"]
  /\ cur' = [cur EXCEPT ![l] = None]
  /\ UNCHANGED <<callVars, chanVars, initVars, done, err, stopRet, eal, ctxs, ch, crashed>>

-----------------------------------------------------------------------------

CallerNext(c) ==
  \/ CallInit(c) \/ InitOnce(c) \/ InitReturn(c)
  \/ EalInitFail(c) \/ EalInitOK(c) \/ ealLaunch(c)
  \/ \E l \in Lcores \cup {BadLcore}, f \in Fns :
       \/ ExecOnLcore(c, l, f)
       \/ \E r \in {"async", "nil"} : ExecOnLcoreAsync(c, l, f, r)
  \/ StopLcores(c) \/ SendJob(c) \/ ReceiveResult(c) \/ DrainAsync(c) \/ Cleanup(c)

ListenerNext(l) ==
  ListenerStart(l) \/ TakeJob(l) \/ RunJob(l) \/ ReportJob(l) \/ CheckDone(l)

Next ==
  /\ ~crashed
  /\ \/ \E c \in Callers : CallerNext(c)
     \/ \E l \in Lcores : ListenerNext(l)

Spec == Init /\ [][Next]_vars

(* What the Go scheduler and the EAL threads guarantee: a thread that can  *)
(* go on does.  Callers need not make calls, and EAL need not come up.     *)
(* SF for the sends: a Go channel serves its blocked senders in turn.      *)
FairSpec ==
  /\ Spec
  /\ \A c \in Callers :
       /\ WF_vars(~crashed /\ (EalInitFail(c) \/ EalInitOK(c)))
       /\ WF_vars(~crashed /\ (ealLaunch(c) \/ InitReturn(c)))
       /\ SF_vars(~crashed /\ SendJob(c))
       /\ WF_vars(~crashed /\ ReceiveResult(c))
       /\ WF_vars(~crashed /\ DrainAsync(c))
  /\ \A l \in Lcores :
       /\ WF_vars(~crashed /\ (ListenerStart(l) \/ TakeJob(l) \/ RunJob(l) \/ CheckDone(l)))
       /\ SF_vars(~crashed /\ ReportJob(l))

-----------------------------------------------------------------------------
(* Properties *)

CallTypeOK ==
  /\ pc \in [Callers -> {"idle", "initwait", "send", "wait"}]
  /\ calls \in [Callers -> 0..MaxCalls]
  /\ fn \in [Callers -> Fns \cup {"stop", "none"}]
  /\ ret \in [Callers -> {"sync", "async", "nil"}]
  /\ span \in [Callers -> SUBSET (Lcores \cup {BadLcore})]
  /\ todo \in [Callers -> SUBSET Lcores]
  /\ left \in [Callers -> Nat]
  /\ from \in [Callers -> SUBSET (Lcores \cup {BadLcore})]
  /\ res \in [Callers -> {"nil", "ErrLcorePanic", "ErrLcoreInvalid"}]
  /\ stopRet \subseteq Callers

ChanTypeOK ==
  /\ sync \in [Callers -> SUBSET Result]
  /\ async \in [Callers -> SUBSET Result]

InitTypeOK ==
  /\ ipc \in [Callers -> {"none", "ealInit", "ealLaunch", "main"}]
  /\ wg \in [Callers -> Nat]
  /\ ierr \in [Callers -> BOOLEAN]
  /\ initOK \in [Callers -> BOOLEAN]
  /\ launcher \in Callers \cup {None}
  /\ mutex \in Callers \cup {None}
  /\ already \in BOOLEAN
  /\ eal \in {"none", "up", "down"}
  /\ ctxs \in SUBSET Lcores
  /\ crashed \in BOOLEAN

LcoreTypeOK ==
  /\ ch \in [Lcores -> Seq(lcoreJob)]
  /\ \A l \in Lcores : Len(ch[l]) <= lcoreJobsBuffer
  /\ done \in [Lcores -> BOOLEAN]
  /\ lpc \in [Lcores -> {"off", "launched", "loop", "run", "report", "check", "exit"}]
  /\ cur \in [Lcores -> lcoreJob \cup {None}]
  /\ err \in [Lcores -> {"nil", "ErrLcorePanic"}]

(* Every variable holds a value of its Go type, the WaitGroups of Init     *)
(* never go negative (which would panic) and no lcore channel holds more   *)
(* than lcoreJobsBuffer jobs.                                              *)
TypeOK == CallTypeOK /\ ChanTypeOK /\ InitTypeOK /\ LcoreTypeOK

(* When Init or InitOnce has returned without error, lcoreFuncListener has *)
(* started on every lcore, so that jobs sent to it will be taken.          *)
InitComplete ==
  (\E c \in Callers : initOK[c]) =>
    /\ ctxs = Lcores
    /\ \A l \in Lcores : lpc[l] \notin {"off", "launched"}

(* Once a StopLcores call has returned, no lcore runs or will ever run a   *)
(* submitted function: every one of them has executed a stop job and can   *)
(* only leave its loop.                                                    *)
QuietAfterStop ==
  stopRet # {} => \A l \in Lcores : done[l] /\ lpc[l] \in {"check", "exit"}

(* EAL is never torn down under an lcore that is executing a function. *)
CleanupQuiet ==
  eal = "down" => \A l \in Lcores : lpc[l] \notin {"launched", "run", "report"}

(* The channels of ExecOnLcore and StopLcores always have room for the     *)
(* result of a job that refers to them, so an EAL thread never blocks on   *)
(* reporting one: only a caller's own channel can hold an lcore up.        *)
ReportNeverBlocks ==
  \A l \in Lcores :
    lpc[l] = "report" /\ cur[l].ret = "sync" =>
      /\ cur[l].n = calls[cur[l].c] /\ pc[cur[l].c] \in {"send", "wait"}
      /\ Cardinality(sync[cur[l].c]) < SyncCap(cur[l].c)

(* What ExecOnLcore returns is the outcome of the function it submitted,  *)
(* or ErrLcoreInvalid; for an id EAL does not know it is always the latter. *)
ResultFaithful ==
  \A c \in Callers :
    pc[c] = "idle" /\ ret[c] = "sync" /\ fn[c] # "stop" =>
      \/ res[c] = "ErrLcoreInvalid"
      \/ /\ BadLcore \notin span[c]
         /\ res[c] = IF fn[c] = "panic" THEN "ErrLcorePanic" ELSE "nil"

(* An lcore that still owes c an answer and will never give it: it has left *)
(* its loop, or runs a function that does not end.                         *)
Unserved(c) ==
  \E l \in (span[c] \cap Lcores) \ from[c] :
    /\ \A m \in sync[c] : m.l # l
    /\ \/ lpc[l] = "exit"
       \/ lpc[l] = "run" /\ cur[l].fn = "loop"

(* Every call returns, however long its lcores' queues are and whoever     *)
(* else uses them, unless an lcore it needs was stopped by someone else    *)
(* first or never finishes a function, or a panic ended the process.       *)
CallReturns ==
  \A c \in Callers :
    pc[c] \in {"send", "wait"} ~> (pc[c] = "idle" \/ Unserved(c) \/ crashed)

(* Init always returns, whatever rte_eal_init says. *)
InitReturns ==
  \A c \in Callers : pc[c] = "initwait" ~> (pc[c] = "idle" \/ crashed)

-----------------------------------------------------------------------------
(* The inductive invariant behind the theorems of ExecutorProofs *)

Listening(l) == lpc[l] \notin {"off", "launched"}
Quiet(l)     == done[l] /\ lpc[l] \in {"check", "exit"}
Launched     == {l \in Lcores : lpc[l] = "launched"}
InCall(c)    == pc[c] \in {"send", "wait"} /\ ret[c] = "sync"
Busy(l)      == lpc[l] \in {"run", "report"}

(* The WaitGroup of an Init call counts what its goroutine and the lcores  *)
(* still have to signal.                                                   *)
InitCallOK(c) ==
  /\ ipc[c] = "none" => wg[c] = 0
  /\ ipc[c] = "ealInit" => wg[c] = 1 /\ pc[c] = "initwait"
  /\ ipc[c] = "ealLaunch" => /\ wg[c] = Cardinality(Lcores) /\ pc[c] = "initwait"
                             /\ eal # "none" /\ launcher = None
  /\ ipc[c] = "main" => launcher = c /\ wg[c] = Cardinality(Launched)
  /\ pc[c] = "initwait" /\ ipc[c] = "none" => ierr[c]
  /\ initOK[c] => \A l \in Lcores : Listening(l)

(* At most one Init ever launches the lcores. *)
InitInv ==
  /\ \A c \in Callers : InitCallOK(c)
  /\ \A c, d \in Callers : ipc[c] = "ealLaunch" /\ ipc[d] = "ealLaunch" => c = d
  /\ Launched # {} => /\ launcher \in Callers
                      /\ ipc[launcher] = "main" /\ pc[launcher] = "initwait"
  /\ launcher = None => ctxs = {} /\ \A l \in Lcores : lpc[l] = "off"
  /\ launcher # None => eal # "none" /\ ctxs = Lcores /\ \A l \in Lcores : lpc[l] # "off"
  /\ already => \A l \in Lcores : Listening(l)

(* An lcore leaves its loop after a stop job and for no other reason. *)
ListenerInv ==
  \A l \in Lcores :
    /\ done[l] => lpc[l] \in {"report", "check", "exit"}
    /\ lpc[l] = "exit" => done[l]
    /\ Busy(l) => cur[l] \in lcoreJob
    /\ lpc[l] = "report" /\ cur[l].fn = "stop" => done[l]

(* A job whose result goes to a channel made by the package belongs to the *)
(* call its caller is in, which has sent it and has not had its answer.    *)
JobOK(l, j) ==
  /\ j.l = l
  /\ j.ret = "sync" =>
       /\ InCall(j.c) /\ fn[j.c] = j.fn /\ calls[j.c] = j.n
       /\ l \in span[j.c] /\ l \notin from[j.c] /\ l \notin todo[j.c]
       /\ \A m \in sync[j.c] : m.l # l

(* ... and it is the only one its lcore has of that call. *)
LcoreJobsOK(l) ==
  /\ \A i \in 1..Len(ch[l]) : JobOK(l, ch[l][i])
  /\ Busy(l) => JobOK(l, cur[l])
  /\ \A i, k \in 1..Len(ch[l]) :
       ch[l][i].ret = "sync" /\ ch[l][k].ret = "sync" /\ ch[l][i].c = ch[l][k].c => i = k
  /\ Busy(l) /\ cur[l].ret = "sync" =>
       \A i \in 1..Len(ch[l]) : ch[l][i].ret = "sync" => ch[l][i].c # cur[l].c

JobInv == \A l \in Lcores : LcoreJobsOK(l)

(* The lcores of a call are split into those without a job yet, those that *)
(* have one, those whose answer is in the channel and those heard from.    *)
CallOK(c) ==
  /\ pc[c] = "wait" => ret[c] = "sync" /\ todo[c] = {}
  /\ pc[c] = "send" => todo[c] # {} /\ span[c] \subseteq Lcores /\ fn[c] # "none"
  /\ InCall(c) =>
       /\ fn[c] # "stop" => \E l \in Lcores \cup {BadLcore} : span[c] = {l}
       /\ todo[c] \subseteq span[c] /\ from[c] \subseteq span[c] \ todo[c]
       /\ left[c] = Cardinality(span[c] \ from[c])
       /\ \A m \in sync[c] : m.l \in span[c] /\ m.l \notin from[c] /\ m.l \notin todo[c]
       /\ \A m1, m2 \in sync[c] : m1.l = m2.l => m1 = m2

CallInv == \A c \in Callers : CallOK(c)

(* Lcores that have answered a StopLcores call are quiet. *)
StopOK(c) ==
  InCall(c) /\ fn[c] = "stop" =>
    /\ span[c] = Lcores
    /\ \A l \in from[c] : Quiet(l)
    /\ \A m \in sync[c] : Quiet(m.l)

StopInv ==
  /\ \A c \in Callers : StopOK(c)
  /\ stopRet # {} => \A l \in Lcores : Quiet(l)
  /\ eal = "down" => stopRet # {}

IInv == TypeOK /\ InitInv /\ ListenerInv /\ JobInv /\ CallInv /\ StopInv
=============================================================================
