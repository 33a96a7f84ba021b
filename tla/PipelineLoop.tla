---------------------------- MODULE PipelineLoop ----------------------------
(***************************************************************************)
(* Pipeline.RunLoop, run_pipeline_loop and SimpleController                *)
(* (pipeline/pipeline_loop.go, pipeline/pipeline_loop.h).                  *)
(*                                                                         *)
(* Several pipelines loop on lcores of their own and watch the stop byte   *)
(* of one SimpleController, which a goroutine (the owner) sets.  The byte  *)
(* is C memory that a Go finalizer of the controller frees: RunLoop hands  *)
(* the address to C and keeps no reference to the controller, so only the  *)
(* owner, or a goroutine still about to call RunLoop, keeps it alive.      *)
(***************************************************************************)
EXTENDS Naturals, Integers

CONSTANTS
  Pipelines,  (* pipelines, each looping on one lcore *)
  W,          (* width of n and flush in bits, 32 in the code *)
  Flushes,    (* values of flush that callers of RunLoop pass *)
  Ctrls,      (* controllers they pass: "simple", "custom" or "nil" *)
  KeepAlive   (* the owner keeps the controller until the loops have returned *)

(* 2^k, as a recursive function: the provers know nothing of ^. *)
Pow2[k \in Nat] == IF k = 0 THEN 1 ELSE 2 * Pow2[k - 1]

UINT32 == 0..(Pow2[W] - 1)

ASSUME PipelineLoopAssumption ==
  /\ W \in Nat \ {0}
  /\ Flushes \subseteq UINT32
  /\ Ctrls \subseteq {"simple", "custom", "nil"}
  /\ KeepAlive \in BOOLEAN

VARIABLES
  pc,      (* where the loop of a pipeline is *)
  ctrl,    (* its f_ctrl: simple_control, one of the application, or NULL *)
  flush,   (* ctx->flush *)
  n,       (* the loop counter, a uint32_t *)
  rc,      (* what the last f_ctrl call returned *)
  since,   (* history: rte_pipeline_run calls since the last flush *)
  late,    (* history: rte_pipeline_run calls since Stop was called *)
  stop,    (* the byte at SimpleController.stop *)
  held,    (* the owner still has a reference to the controller *)
  freed    (* the finalizer has freed the byte *)

loopVars == <<pc, ctrl, flush, n, rc, since, late>>
ctrlVars == <<stop, held, freed>>
vars == <<loopVars, ctrlVars>>

Init ==
  /\ pc = [p \in Pipelines |-> "idle"]
  /\ ctrl = [p \in Pipelines |-> "nil"]
  /\ flush = [p \in Pipelines |-> 0]
  /\ n = [p \in Pipelines |-> 0]
  /\ rc = [p \in Pipelines |-> 0]
  /\ since = [p \in Pipelines |-> 0]
  /\ late = [p \in Pipelines |-> 0]
  /\ stop = 0
  /\ held = TRUE
  /\ freed = FALSE

(* a & b == 0 on W-bit words. *)
Disjoint(a, b) ==
  \A i \in 0..(W - 1) : ~((a \div Pow2[i]) % 2 = 1 /\ (b \div Pow2[i]) % 2 = 1)

(* flush - 1 on a uint32: 0 - 1 is all ones. *)
Pred(f) == (f + Pow2[W] - 1) % Pow2[W]

(* Mutant: flush is not tested. *)
FlushAcceptedAny(f) == TRUE

FlushAccepted(f) == Disjoint(f, Pred(f))

(* RunLoop up to the call into C; a flush that is no power of two panics.  *)
RunLoop(p, f, c) ==
  /\ pc[p] = "idle"
  /\ pc' = [pc EXCEPT ![p] = IF FlushAccepted(f) THEN "run" ELSE "panicked"]
  /\ flush' = [flush EXCEPT ![p] = f]
  /\ ctrl' = [ctrl EXCEPT ![p] = c]
  /\ n' = [n EXCEPT ![p] = 0]
  /\ UNCHANGED <<rc, since, late, ctrlVars>>

(* The histories are counted up to the size of a word. *)
Count(k) == IF k < Pow2[W] THEN k + 1 ELSE k

RunPipeline(p) ==
  /\ pc[p] = "run"
  /\ pc' = [pc EXCEPT ![p] = "test"]
  /\ since' = [since EXCEPT ![p] = Count(@)]
  /\ late' = [late EXCEPT ![p] = IF stop = 1 THEN Count(@) ELSE @]
  /\ UNCHANGED <<ctrl, flush, n, rc, ctrlVars>>

SkipFlush(p) == flush[p] = 0 \/ ~Disjoint(n[p], Pred(flush[p]))

(* n++ of the for statement. *)
NextIteration(p) ==
  /\ n' = [n EXCEPT ![p] = (@ + 1) % Pow2[W]]
  /\ pc' = [pc EXCEPT ![p] = "run"]

(* continue without a flush *)
Continue(p) ==
  /\ pc[p] = "test"
  /\ SkipFlush(p)
  /\ NextIteration(p)
  /\ UNCHANGED <<ctrl, flush, rc, since, late, ctrlVars>>

(* Mutant: the call of rte_pipeline_flush is missing. *)
FlushMissing(p) ==
  /\ pc[p] = "test"
  /\ ~SkipFlush(p)
  /\ \/ ctrl[p] = "nil" /\ NextIteration(p)
     \/ ctrl[p] # "nil" /\ pc' = [pc EXCEPT ![p] = "ctrl"] /\ UNCHANGED n
  /\ UNCHANGED <<ctrl, flush, rc, since, late, ctrlVars>>

(* rte_pipeline_flush, and the next iteration when there is no f_ctrl. *)
Flush(p) ==
  /\ pc[p] = "test"
  /\ ~SkipFlush(p)
  /\ since' = [since EXCEPT ![p] = 0]
  /\ \/ ctrl[p] = "nil" /\ NextIteration(p)
     \/ ctrl[p] # "nil" /\ pc' = [pc EXCEPT ![p] = "ctrl"] /\ UNCHANGED n
  /\ UNCHANGED <<ctrl, flush, rc, late, ctrlVars>>

(* What f_ctrl can return: simple_control the byte it reads, which is      *)
(* anything once the memory has been given back to the C allocator.        *)
CtrlResult(p) ==
  IF ctrl[p] = "custom" THEN {-1, 0, 1}
  ELSE IF freed THEN {0, 1} ELSE {stop}

(* Mutant: a positive result does not end the loop. *)
ControlNoStop(p) ==
  /\ pc[p] = "ctrl"
  /\ \E r \in CtrlResult(p) :
       /\ rc' = [rc EXCEPT ![p] = r]
       /\ \/ r >= 0 /\ NextIteration(p)
          \/ r < 0 /\ pc' = [pc EXCEPT ![p] = "failed"] /\ UNCHANGED n
  /\ UNCHANGED <<ctrl, flush, since, late, ctrlVars>>

(* Mutant: a positive result makes the loop pause instead of end. *)
ControlPauses(p) ==
  /\ pc[p] = "ctrl"
  /\ \E r \in CtrlResult(p) :
       /\ rc' = [rc EXCEPT ![p] = r]
       /\ \/ r = 0 /\ NextIteration(p)
          \/ r > 0 /\ UNCHANGED <<pc, n>>
          \/ r < 0 /\ pc' = [pc EXCEPT ![p] = "failed"] /\ UNCHANGED n
  /\ UNCHANGED <<ctrl, flush, since, late, ctrlVars>>

(* f_ctrl and what the loop makes of its result. *)
Control(p) ==
  /\ pc[p] = "ctrl"
  /\ \E r \in CtrlResult(p) :
       /\ rc' = [rc EXCEPT ![p] = r]
       /\ \/ r = 0 /\ NextIteration(p)
          \/ r > 0 /\ pc' = [pc EXCEPT ![p] = "stopped"] /\ UNCHANGED n
          \/ r < 0 /\ pc' = [pc EXCEPT ![p] = "failed"] /\ UNCHANGED n
  /\ UNCHANGED <<ctrl, flush, since, late, ctrlVars>>

-----------------------------------------------------------------------------
(* The owner of the controller and the garbage collector *)

Stop ==
  /\ held
  /\ stop' = 1
  /\ UNCHANGED <<loopVars, held, freed>>

Looping(p) == pc[p] \in {"run", "test", "ctrl"}

(* The owner's last use of the controller is behind it. *)
Drop ==
  /\ held
  /\ KeepAlive => \A p \in Pipelines :
                    pc[p] # "idle" /\ (ctrl[p] = "simple" => ~Looping(p))
  /\ held' = FALSE
  /\ UNCHANGED <<loopVars, stop, freed>>

(* The finalizer NewSimpleController set runs when nothing refers to the   *)
(* controller: not the owner, nor a goroutine that will still pass it to   *)
(* RunLoop.                                                                *)
Finalize ==
  /\ ~held /\ ~freed
  /\ \A p \in Pipelines : pc[p] # "idle"
  /\ freed' = TRUE
  /\ UNCHANGED <<loopVars, stop, held>>

-----------------------------------------------------------------------------

LoopStep(p) == RunPipeline(p) \/ Continue(p) \/ Flush(p) \/ Control(p)

Next ==
  \/ \E p \in Pipelines :
       LoopStep(p) \/ \E f \in Flushes, c \in Ctrls : RunLoop(p, f, c)
  \/ Stop \/ Drop \/ Finalize

Spec == Init /\ [][Next]_vars

(* An lcore that loops keeps looping. *)
FairSpec == Spec /\ \A p \in Pipelines : WF_vars(LoopStep(p))

-----------------------------------------------------------------------------
(* Properties *)

(* RunLoop flushes the pipeline every flush iterations, exactly, after the *)
(* first: also when the loop counter wraps around.                         *)
FlushEvery ==
  [][\A p \in Pipelines :
       Flush(p) => since[p] = flush[p] \/ (n[p] = 0 /\ since[p] = 1)]_vars

(* When RunLoop has returned, no packet is left in the output buffers of   *)
(* the pipeline: it never leaves the loop between a run and its flush.     *)
ReturnsFlushed ==
  \A p \in Pipelines : pc[p] \in {"ctrl", "stopped", "failed"} => since[p] = 0

(* After Stop, a pipeline that watches the controller runs at most flush   *)
(* more times, wherever in its loop the signal met it.                     *)
StopsWithinFlush ==
  \A p \in Pipelines : ctrl[p] = "simple" /\ flush[p] # 0 => late[p] <= flush[p]

(* The comment of RunLoop: it returns if the value referenced by stop is   *)
(* set to a non-zero value.  Stop releases every pipeline that watches the *)
(* controller.                                                             *)
StopReturns ==
  \A p \in Pipelines :
    (stop = 1 /\ Looping(p) /\ ctrl[p] = "simple") ~> pc[p] = "stopped"
=============================================================================
